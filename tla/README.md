# Verification of mycoorigyn-marketing-api

This directory holds TLA+ modules that model the marketing API of this
repository (Go, PostgreSQL, a token volume and an email provider), the TLC
configurations that check them on small instances, and proofs that TLAPS checks
for every value of the constants.

To check a model: `tlc -config MCApprovals.cfg MCApprovals`. To check the
proofs of a module: `tlapm ApprovalsProofs.tla`.

## 1. Inventory

The service is a stateless HTTP process, run in several replicas, in front of
one PostgreSQL database, one volume with plaintext tokens and one email
provider. All coordination between replicas goes through the database.

| Component | Source | State | Operations |
|---|---|---|---|
| Submission intake | `internal/submissions`, `postgres/store.go` | `early_access_submissions`, `early_access_review_capabilities`, review token files | `Submit` -> `CreateSubmission`, reviewer notification |
| Approval and decline | `internal/approvals`, `postgres/approvals.go` | the same rows, `signup_grants`, grant token files | `ResolveReview`, `Approve`, `Decline` |
| Signup grant leases | `internal/approvals`, `postgres/approvals.go` | `signup_grants` | `ResolveGrant`, `ValidateGrant`, `ClaimGrant`, `ConsumeGrant`, `ReleaseGrant` |
| Page view counters | `internal/pageviews`, `postgres/store.go` | `page_view_counters`, `page_view_visitors` | `Record` -> `RecordVisit`, `Get` -> `GetCounts` |
| Token store | `internal/securetokens` | one directory per scope, one file per token digest, temporary files | `Put`, `Read`, `Delete` |
| HTTP API | `internal/httpapi` | none | routing, decoding, CORS, authentication, statuses of errors |
| Configuration | `internal/config` | the process's environment | the dotenv step of `init`, `Load` |
| Email | `internal/transactionalemail`, `approvals/template.go` | none | one HTTP call for a message, rendering |
| Server process | `cmd/server` | connections, the signal, the exit code | start-up, serving, graceful shutdown |
| Schema | `migrations` | constraints | CHECKs, keys, foreign keys |
| Scripts, version | `scripts`, `version` | none | release tooling |

How they interact: `Submit` stores an application together with a review
capability and mails the reviewer a link that carries its token. The reviewer's
`Approve` decides the application, stores a signup grant and mails the
applicant a link that carries the grant's token. Provisioning operations,
outside this repository, present that token to claim, consume and release the
grant; `ConsumeGrant` deletes the token file. All of this runs in a process that
`main` starts from its environment, and that is replaced by sending it SIGTERM.

What is hard, and what makes each component correct:

- **Leases.** The clock is read before the wait for a pooled connection and for
  the row lock, on a replica whose clock may be off. Requests are delayed,
  repeated and answered into the void. Correct: two operations never count on
  one lease, a live lease ends only by its own operation or the operator, a
  grant is consumed once and by one operation, refusals are final, and the
  handlers that only read agree with those that write.
- **Approval.** One handler changes two stores and calls a third party, without
  a transaction over them, and two handlers may race. Correct: the rows of a
  decision agree, a decision stands, only the token of the one grant is mailed,
  that token is kept as long as it can be used, no other token lies about, and
  a repeated approval is eventually delivered.
- **Submission.** The duplicate window is computed before the wait for the
  advisory lock and from another clock than the rows' `created_at`. Correct: no
  two rows of one payload inside the window, nobody is thanked without a row in
  the window of the request, files and rows agree, a stored application is
  notified.
- **Page views.** Four statements at READ COMMITTED with three kinds of locks.
  Correct: exact counters, each answer is its own visit's, no deadlock.
- **Review and provisioning together.** Approvals see a grant's row, its token
  file and its one consume; provisioning operations see leases, retries and
  lost answers. Correct: neither has to know of the other's steps, and a farm
  is for somebody who was approved and mailed the link.
- **Token store.** Each call is several system calls, other replicas work in
  the same directory, the host may crash. Correct: a file under a token's name
  is whole, temporary files do not pile up without a fault, and the calls look
  like one change at a time to a set of tokens.
- **Configuration.** Two rules read `ENV`, links are tested at start-up and
  again for each email, seconds become 64-bit durations. Correct: a staging or
  production process that came up can send what it will have to send, and its
  lifetimes are sound.
- **Server process.** Signals, a shutdown with a deadline and requests that may
  never end. Correct: a signal ends the process, not before the grace period is
  over when requests run, and the exit code tells whether any was cut.

`PROJECT.json` lists every component with its status and every hazard with its
line and the properties that cover it.

## 2. Modules

| Module | Models | EXTENDS / INSTANCE |
|---|---|---|
| `ApprovalStore` | the transactions of `postgres/approvals.go` as functions of the locked row: the verdict, in the order the code tests, and the row written | `Integers` |
| `GrantLifecycle` | abstract: what a grant promises its operations, without rows, clocks or requests | |
| `SignupGrants` | grant handlers in flight on replicas with skewed clocks | `ApprovalStore`; instance of `GrantLifecycle` |
| `Provisioning` | the callers outside the repository, at their best | `SignupGrants` |
| `Faults` | failing calls, stops and crashes, counted | `Integers` |
| `TokenFiles` | the token store as the services use it, with the failures its callers ignore | `Faults` |
| `ApplicationLife` | abstract: what the review of an application promises, without handlers, clocks or files | |
| `Approvals` | `Approve` step by step, `Decline`, `ConsumeGrant` | `ApprovalStore`, `TokenFiles`; instance of `ApplicationLife` |
| `Intake` | abstract: what the intake promises, without handlers, locks or files | `Sequences` |
| `Submissions` | `Submit` and `CreateSubmission` step by step | `TokenFiles`; instance of `Intake` |
| `VisitCounter` | abstract: visits that happen one at a time | `Integers` |
| `PageViews` | `RecordVisit` statement by statement | instance of `VisitCounter` |
| `Onboarding` | reviews and provisioning operations on one table, clock and token store | `Provisioning`; instance of `Approvals` |
| `TokenStore` | abstract: what the token store promises its callers | `TokenFiles` |
| `FileStore` | `Put`, `Read` and `Delete` by their system calls | `Faults`; instance of `TokenStore` |
| `Config` | the dotenv step, `Load`, and what the services make of the result | `Integers` |
| `Server` | `main` from `Load` to its exit code | `Config` |
| `*Proofs` | theorems | the module they are about; `OnboardingProofs` is an instance of `ApprovalsProofs`, too |
| `MC*` | instances for TLC | the module they instantiate |

Definitions keep the names of the Go functions. An operator whose comment
starts with "Fault:" is a plausible error of the definition below it; no
specification uses it. It serves to confirm that a property notices the error.

### How state and actions correspond to the code

**ApprovalStore.** Every transaction of `postgres/approvals.go` starts with a
`SELECT ... FOR UPDATE` of its row, so it takes effect atomically as a function
of that row and of the `now` that its caller read earlier. `ClaimVerdict`,
`ConsumeVerdict`, `ReleaseVerdict`, `ApproveVerdict`, `DeclineVerdict` name the
outcome: a Go error value or a success. `ClaimedRow` and its siblings are the
UPDATE statements. `GrantCheck` is the table CHECK. NULL timestamps are
`NoTime`.

**SignupGrants.** `calls` holds the requests in flight with the clock reading
each has taken. `Begin` is a handler up to `now := s.now()`; a reading is off
the true time by at most `Skew`. `ClaimGrant`, `ConsumeGrant` and
`ReleaseGrant` are the transaction, with the parameter `answered` for whether
the response arrives. `Fail` is every end without a commit. A request may be
repeated while a copy is still in flight. `Issue` is the INSERT of `Approve`,
whose expiry was computed before the wait for the row locks, so from a reading
of any age; `Withdraw` an operator's UPDATE to `revoked` or `expired`: these
statuses are in the schema, tested by the code and written by none of it. `leases` and
`consumers` are history: what operations were told.

An operation counts on a lease (`CountsOn`) from the answer to its claim until
the end of the lease has come on some clock or it asks for a release itself. An
answer that arrives while a release of the same operation is on its way gives
no such right: that release may match the new lease and end it. This is how the
code behaves (a release names the operation, not the lease), and is the reason
for the condition `NoReleaseInFlight`.

**Provisioning.** An operation commits its farm only while it counts on its
lease, and does not release afterwards: the order that
`docs/closed-alpha-approval.md` demands.

**TokenFiles.** `files` is the set of tokens with a file, `strays` the history
of those left behind by a failing `Delete` or by a handler that stopped.
`Delete` is idempotent, and its failure is part of it because every caller
ignores it.

**Approvals.** A handler's record says which of its calls is next:
`decide` (`repo.Approve`), `undo` and `swap` (the two deletions of the
candidate), `read` (`tokens.Read` of the stored grant's token), `mail`, `sweep`
(the deletion in `ConsumeGrant`). `Read` may also find some other token under the
reference, as a fault: a volume restored from a backup, or a file that was
tampered with. `Mail` compares the digest of what it holds with the grant's
first (`Intact`) and ends without an email when they differ. The clock is read twice after `Put`, for the
candidate's expiry and for the decision, on a replica whose clock is off by at
most `Skew`; the transaction runs any time later, so that a reading is anything
from `Skew` before the request's arrival to `Skew` ahead of the true time
(`Readings`). `DecideFails` is an error of `repo.Approve`; with
`AmbiguousCommit` its COMMIT may have taken effect. `Stop` is a process or a
client that goes away: with the request's context cancelled, the calls that
remain have no effect. Leases are not repeated here; `ConsumeGrant` asks only
for a clock reading before the grant's expiry. To `ApplicationLife` the
transaction of an approval is the moment at which an application gets its link,
`Put` and the deletion of a loser's candidate are nothing, a mail is a delivery,
the consume spends the link, and the deletion that follows loses its token.

**Submissions.** `begin` (expiry and window are computed, the transaction
starts), `lock` (`pg_advisory_xact_lock`), `look` (the SELECT), `insert`,
`undo` and `drop` (the two deletions), `notify`. `table` is the table in
insertion order, `clock` the database's clock, which stamps `created_at` with
the start of the transaction. A request is a payload that `Normalize` accepted;
payloads with one fingerprint are one payload. Input that is rejected changes
no state. To `Intake` the transaction that inserts is the moment at which an
application and its link exist; `undo` and `drop` touch no file that it sees.

**PageViews.** A handler's record is its open transaction: whether it inserted
the counter, whether it inserted the visitor, what it wrote. `counters` and
`visitors` are committed rows. The waits are those of PostgreSQL: an INSERT
with ON CONFLICT waits for an uncommitted row with its key, an UPDATE for
another UPDATE of the row, and the KEY SHARE lock of the foreign key conflicts
with neither (`WaitsFor`: the transactions that a statement waits for).
`Rollback` may happen at any statement. To `VisitCounter` a `Commit` is a visit
that is answered what the transaction read, and every other step is nothing.

**Onboarding.** The variables of `Provisioning` and of `Approvals`, except that
there is one clock and that the grants which `Approvals` sees (`GrantRows`) are
computed from the rows of `signup_grants` and from `tokenOf`, the token whose
digest a row has. Both sides read that clock with the same `Skew`. `IssueFor` makes the INSERT of `Approve` and its transaction
one step; `Consume` does the same with the consume and the deletion of the token
file that follows its commit. `Request` lets an operation send something only
with a token that was mailed. The rest of either side runs as it is.

**TokenStore, FileStore.** `dir` is the scope's directory as every process sees
it, `disk` as it is on disk, `temps` the files named `.token-*`. A file is how
much of its token it holds and whether it was synced: the token itself is
determined by the name, because `Put` is given both. A call's record has the
next system call: `create`, `write`, `sync`, `rename`, `clean` for `Put`, `read`
for `Read`, `remove` for `Delete`, each after its `lstat`. Any system call may
fail, a call may stop between two of them, and `HostCrash` takes the directory
back to `disk`, with any part of a file that was not synced. `gone` are the
temporary names that were renamed or removed: no directory is ever synced, so a
crash may bring them back. `TokenStore` is the
promise: a set of tokens, changed by one `Put` or `Delete` at a time, of which a
crash of the host keeps what was durable. It is made of the operators of
`TokenFiles`, which `Approvals` and `Submissions` use as well. What it does not promise is
that a `Put` that was answered survives a crash of the host: the code syncs the
file and not its directory.

**Config.** An environment is a function from variables to what the code tells
apart of a value: the parts of a URL (its host's name up to letter case, its
port, and whether its text is what a browser would write), whether a file is private and well-formed,
a number of seconds (0 is everything that is not a positive integer). `Loads` is
the conjunction of the checks of `Load`, `Effective` the dotenv step, `Wrapped`
the product of two int64 values, `Lifetime` what the constructors make of a
duration that is not positive, `ApprovalDeliverable` and
`NotificationDeliverable` the tests at the time of an email. `SentOrigin` is the
`Origin` header of a browser: scheme and host in lower case, no default port.
`publicCORS` looks that up in the configured list as it is (`PageMayCall`).

**Server.** `phase` is how far `main` has come; `given` is the environment of
the process and `env` the one after `init`. A connection is new (accepted,
nothing read) or active; `Shutdown` waits for both, and a new one may still
become a request. Before `signal.NotifyContext` a signal kills the process
(143); afterwards the first is noted and further ones change nothing. `elapsed`
is the time since `Shutdown` was called.

## 3. What TLC checks

| Run | Properties | Shows | Distinct states |
|---|---|---|---|
| `signup_grants` | `TypeOK`, `RowsSatisfyCheck`, `ReadsForetell`, `LeasesDisjoint`, `OneConsumer`, `LeaseHeld`, `TerminalFinal`, `RefusalFinal`, `ImplementsLifecycle` | leases exclude each other whatever is delayed, repeated or lost; the handlers implement `GrantLifecycle` | 386,000 |
| `provisioning_lapse` | `OneFarm`, violated | finding 2 | to the violation |
| `approvals` | `TypeOK`, `ReviewForetells`, `MailedItsGrant`, `TokenKept`, `NoStrayFiles`, `DecisionStands`, `ImplementsApplicationLife` | racing approvals, declines, consumes and faults with skewed clocks; the steps implement `ApplicationLife` | 310,000 |
| `approvals_live` | `ApprovedIsMailed`, `SpentIsSwept` | repeating an approval delivers it; the token of a consumed grant leaves the store | 80,800 |
| `approvals_lost_commit` | `TokenKept`, violated | finding 1 | to the violation |
| `submissions` | `TypeOK`, `DuplicatesApart`, `AcceptedIsStored`, `FilesMatchRows`, `ImplementsIntake` | copies of an early-access and of a waitlist application, with skew and faults; the requests implement `Intake` | 2,700,000 |
| `submissions_lost_commit` | `AcceptedIsNotified`, violated | finding 3 | to the violation |
| `page_views` | `CountersExact`, `WaitsAhead`, `ImplementsVisitCounter`, `VisitEnds` | concurrent first visits and rollbacks; no deadlock; the transactions implement `VisitCounter` | 37,200 |
| `file_store` | `TypeOK`, `PublishedWhole`, `TempsAccounted`, `ImplementsTokenStore` | racing and failing calls and crashes; the system calls implement `TokenStore` | 295,000 |
| `server` | `TypeOK`, `ClosedDelivers`, `LifetimesSound`, `ExitHonest`, `GraceGiven`, `SignalEnds` | over a thousand environments, with and without `.env`, from start to exit | 112,000 |
| `server_dotenv` | `DotenvSkipped`, violated | finding 4 | to the violation |
| `onboarding` | `FarmForApproved`, `FarmRespectsOthers`, `ImplementsApprovals` | from review to farm; the composition implements `Approvals` | 170,000 |

Deadlock checking is off everywhere: the clocks, the faults and the visits are
bounded, a model whose requests are all served has nothing left to do, and a
process that has exited takes no step. Circular waiting is what `WaitsAhead` is
about: the statements of a visit take their locks in one order. `VisitEnds` adds
that under fairness every wait ends. The other models wait for one lock at most.

`RowsAgree`, `NotifiedIsStored`, `AnswersAreOwn` and the `TypeOK` of `PageViews`
are in no run any more: they are theorems, and the refinements that took their
place say more.

### Bounds, and why they are enough

- `MaxClock` stops the clock. In `signup_grants` it is 5 with a grant of 4, a
  lease of 2 and a skew of 1: a lease can lapse, be taken by another operation
  and lapse again, and the grant expires under a live lease. In `approvals` it
  is 2 with a capability of 2, a grant of 1 and a skew of 1, so both expire, on
  one replica before the other, and a grant may be stored that has expired. In `submissions`
  it is 2 with a window of 2 and a skew of 1: a window that starts late, on a
  clock that is ahead, leaves an earlier row outside, and a request's wait may
  outlast its own window. In `onboarding` it is 2 with a grant of 2, a capability
  and a lease of 1 and a skew of 1: a lease lapses and is taken by the other
  operation, on one clock before the other.
- `MaxFaults` counts failing calls, stops and crashes: 2 in `approvals` (a
  fault, and one in the repeat that is to mend it), 3 in `file_store` (a failing
  call, the failing removal after it and a crash of the host), 1 elsewhere.
- Requests in flight: 2 for leases, approvals, submissions and the file store,
  3 for page views (one inserts, one waits for it, one comes after a rollback).
  `onboarding` has two review handlers and one provisioning request at a time;
  two requests at a time on one grant are the subject of `signup_grants`.
- One grant suffices for leases and one token for the file store, because no
  transaction touches two grants and no call two tokens. `approvals` has two
  applications, for what handlers of different applications share, the store.
- Tokens: enough for the candidates of every handler and a few repeats. A token
  that is used up only ends the exploration of new requests. The file store has
  three names for temporary files: one for each call and one that was left.
- `MaxVisits` bounds the committed visits of the page at 3. Pages share nothing.
- `server`: a word has 32 values and a second is 4 units, so that 1 and
  2 seconds fit, 4 turn negative, 8 become nothing and 9 become one second.
  The environments are a complete production environment in six spellings of
  `ENV` with any one other variable changed to any of its values: which variable
  makes `Load` refuse matters, combinations of refusals do not. Added to them are
  environments whose origin, CORS entry and links are spelled with capitals, have
  port 443 or have no host, together or one apart from the others: only together
  do these pass one check and meet another. Two connections:
  one that is new when the other's request ends.

The safety properties below are proved without any of these bounds, except
where section 4 says otherwise.

### Fairness

- `Approvals!Fairness`: weak fairness of each handler's next step, because a
  goroutine that is not stopped is scheduled again; and strong fairness of
  `Approve` for each application, which is the assumption that a reviewer whose
  approval was reported as failed sends it again and finds a free handler again
  and again. Faults are bounded by `MaxFaults`: delivery is promised only once
  they cease. The clock need not advance, and if the capability expires the
  promise lapses with it (`ReviewLapsed`). No run with a liveness property uses
  symmetry.
  For `SpentIsSwept` a handler that is to delete the token runs on, too.
- `Server!Fairness`: `main` runs on, the Ping ends by its timeout, `Shutdown` by
  its own, and time passes. Nothing is assumed of the handlers: `SignalEnds`
  holds although a request may never end.
- `PageViews!Fairness`: strong fairness of each transaction's next statement:
  the Go scheduler runs it, and PostgreSQL grants a lock in its queue's order,
  so a transaction is not overtaken for ever. Nothing is assumed of `Rollback`.

## 4. What is proved

All of it holds for every number of grants, operations, requests, applications,
handlers, tokens, calls, connections, pages and visitors, every lifetime, skew,
window and word size, every set of environments, and for every `MaxClock` and
`MaxFaults`. The assumptions are those each module names: lifetimes are positive
(the constructors replace others by defaults), null values are no rows, an
environment has values of the right kind (`ServerAssumption`), a word is even
and a second and the defaults fit in half of it (`ConfigAssumption`,
`DefaultAssumption`). Where a theorem needs more, it says so in its statement.

**SignupGrantsProofs.** `TypeCorrect`, `CheckNeverRefuses`, `HandlersAgree`,
`LeaseExclusion`, `SingleConsumer`, `LeaseIsHeld`, `TerminalRowsFinal`,
`RefusalsFinal`. `LeasesDisjoint` is not inductive. The strengthening is
`LeaseBacked`: an operation that counts on a lease is named by the row, the
row's lease lasts at least as long as it counts on, and no release of its own
is under way. It needs `ReadingsBounded`: a reading taken by a request in
flight is not ahead of every clock, so it cannot be past the end of a lease
that is live on every clock. Exclusion follows because a row names one
operation. Note that the bound needed on a reading is one-sided: how *stale* it
is does not matter. `RefusalsFinal` is about an operation's own claims: a claim
that it sent earlier may carry an older reading and be granted after a newer one
was refused, so `Refused` asks that each reading it can still take and each that
its requests in flight carry (`Carried`) is answered 404 or 410. From then on no
step of anybody changes that or gives it a lease.

**LifecycleProofs.** `Refinement`: `Spec => Lifecycle!Spec`. A step of the
table writes one row (`OneRowStep`), and what a transaction writes on a row is
a lifecycle step of that grant. A tick lets leases lapse.

**ApprovalsProofs.** `TypeCorrect`, `RowsOfDecisionAgree`,
`ReviewAgreesWithDecisions`, `OnlyGrantsMailed`, `TokensKept`,
`StraysAccounted`, `DecisionsFinal`, `Refinement`. The invariant says, step by step, what a
handler's record knows of the rows and files (`HandlerOK`), that handlers hold
different candidates (`CandidatesApart`) and that applications have different
tokens (`GrantsApart`). The crucial part is that a candidate about to be
deleted is nobody's grant. `TokensKept` assumes `~AmbiguousCommit`; the other
theorems do not, and finding 1 is why this one must. `Refinement` to
`ApplicationLife` goes through the same step lemmas: a step writes the row and
the grant of one application, and a file that a step removes is a candidate's,
a consumed grant's or, after an ambiguous COMMIT, a lost one (`MayLose`, which
the refinement sets to `AmbiguousCommit`). Any skew is allowed: only the clock
reading that decided enters the proof, never how old or how wrong it is.
For `OnlyGrantsMailed` the invariant says that the reference a handler has after
its transaction is that of the grant (`HandlerOK`); of the token it has read it
says nothing, and `Intact` alone is what makes it the grant's.

**SubmissionsProofs.** `TypeCorrect`, `DuplicatesKeptApart`,
`NotifiedAreStored`, `AcceptedAreStored`, `FilesAndRowsAgree`, `Refinement`. The argument for the first is that a
request at `insert` holds the advisory lock, so no row of its payload has been
added since it looked, and that its window starts at least `Window - Skew`
before its own `created_at`. `AcceptedAreStored` assumes `Skew <= Window`: with
clocks further apart than the window a row may be stamped before the window
of the request that inserted it. `FilesAndRowsAgree` assumes `~AmbiguousCommit`;
its invariant says which file is in the hand of which request, and that a row's
token is in nobody's hand. `Refinement` to `Intake` needs both hypotheses:
without the first a stored link may become unreadable, without the second
somebody may be thanked whose row is older than the window. A step is shown to
add one row with a new link (`InsertShows`), to tell the reviewer of a row
(`NotifyShows`), to answer a duplicate (`DropShows`), or not to show.

**PageViewsProofs.** `TypeCorrect`, `ExactCounters`, `OwnAnswers`,
`LocksOrdered`, `NoDeadlock`, `Refinement`. The
invariant says what an open transaction knows of the committed rows
(`RequestOK`), and that of the transactions on a page one inserted the counter,
one for each visitor inserted it, and one holds the row lock (`RequestsApart`).
From it a statement waits only for transactions that are further on
(`LocksOrdered`), so of the open transactions on a page the furthest waits for
nobody (`NoDeadlock`, for any number of them). That it then also gets on is
`VisitEnds`, which needs fairness and is checked by TLC. `Refinement` to
`VisitCounter`: what a `Commit` writes is the committed counter with this visit
added, although it was computed at the UPDATE, because the row lock was held
since.

**ServerProofs.** `TypeCorrect`, `ClosedProcessDelivers`, `LifetimesInForce`,
`HonestExit`, `WholeGrace`. A process that serves has an environment that
`Loads` accepted, whatever the dotenv step did to it; that what `Loads` accepts
in staging and production passes the tests of each email, and that the origin of
both links is then the web origin's, which the CORS list has, is
`ClosedEnvironmentDelivers`, a lemma about `Config` alone. That a browser sends
it as it is configured is the condition `OriginCanonical` of the last part. The lifetimes rest on
two facts about the wrapped product: it is an integer, and the product itself
when that fits in half a word.

**FileStoreProofs.** `TypeCorrect`, `WholeFiles`, `AccountedTemps`,
`Refinement`. The invariant says which file is in the hand of a `Put` at each
of its steps and that it holds the whole token, synced, at `rename` (`CallOK`).
For the refinement each system call is shown to be one call of `TokenStore` or
a step that changes nothing there: a `Put` happens at its `rename`, a `Delete`
at its `remove`, or at the `lstat` when there is nothing to do.

**OnboardingProofs.** `FarmsForApproved`, `FarmsRespectOthers`,
`GrantsAreGrants`, `Refinement`, `ReviewsHold`, `TokensKeptForGrants`,
`ReviewLives`, `GrantsHold`, `PromptFarmsAreSole`. The composition is a
behaviour of `SignupGrants` (`GrantsAreGrants`), so its invariant is taken over
as it is; the rest is that an application has a grant exactly when it is
approved (`ReviewInv`) and that every request in flight, lease and farm goes
back to a token that was mailed (`ApplicantInv`). For the refinement to
`Approvals` the lemma `ViewKept` says which changes of a row Approvals cannot
see. Because the composition refines both of its sides, what is proved of each
side alone holds of the two together: `ReviewsHold`, `TokensKeptForGrants`
(with `~AmbiguousCommit`) and `ReviewLives` are the theorems of
`ApprovalsProofs`, through an instance of that module whose assumptions and
specification are shown to be those of the instance in `Onboarding`
(`ApprovalsAssumed`, `SpecShared`), and `GrantsHold` those of
`SignupGrantsProofs`. The clocks of both sides are skewed. `PromptFarmsAreSole`
is the other half of finding 2: in every state in which the operations that
committed farms still count on their leases or have consumed (`Prompt`), no
grant has two farms. The documentation asks for no such thing, and the code
cannot enforce it; the theorem says what a caller has to add.

Only model-checked: the liveness properties `ApprovedIsMailed`, `SpentIsSwept`,
`VisitEnds` and `SignalEnds` (liveness and ENABLED are beyond the prover), and
the four violations. Every safety property and every refinement that a passing
run checks is proved.

## 5. Findings

1. **A token is deleted under its grant** (`approvals_lost_commit`, code bug).
   `Service.Approve` deletes its candidate whenever `repo.Approve` returns an
   error (`approvals/service.go:170`), also when the COMMIT took effect and only
   its answer was lost. The stored grant then has no token file, and no repeated
   approval can ever mail it. The trace: approve, commit, error, delete.
2. **Two farms for one grant** (`provisioning_lapse`, documentation). The
   documentation promises that the reservation prevents two workers from
   creating farms independently. It does not when a worker commits its farm
   inside its lease and consumes after the lease has lapsed: the consume is
   refused, the grant is claimed anew, and a second farm is committed. Every
   documented rule is kept. What does hold is `FarmRespectsOthers`.
3. **An application nobody is told of** (`submissions_lost_commit`,
   documentation). When the COMMIT of `CreateSubmission` takes effect and its
   answer is lost, the review token is deleted, no notification is attempted,
   and the applicant's retry is answered success as a duplicate.
4. **A production process reads `.env`** (`server_dotenv`, documentation). The
   package's `init` compares `ENV` as it is, `Load` trims it and puts it in lower
   case. With `ENV=Production` the process loads `.env` and then serves under the
   rules of production, with whatever variables only that file sets. The README
   says that dotenv loading is skipped in production.

Three observations beside the findings:

- Every email needs an `https` link (`branded.go:117`), while `Load` accepts
  `http` links outside staging and production and `.env.example` has them. With
  the provider set to `resend` in a local environment the submission or approval
  is stored and each email then fails. In staging and production this cannot
  happen: `ClosedDelivers`.
- `Load` compares the hosts of the links with the web origin's without regard to
  letter case (`config.go:175`) and accepts an origin with capitals or with an
  explicit `:443` as long as the CORS list has it in the same spelling. A browser
  sends neither, and `publicCORS` looks the header up as it is (`server.go:459`),
  so the pages cannot call back. `docs/closed-alpha-approval.md:36` speaks of a
  "canonical browser origin" and of links that use "that exact origin", and the
  checks ask for less. `ClosedDelivers` claims the call back only of a canonical
  origin.
- A decline with a capability that an operator revoked is answered 409 "has
  already received a different decision" (`server.go:300`), although there is no
  other decision; an approve is answered 404. See `DeclineVerdict` and
  `ApproveVerdict`.

## 6. Not modelled, and why

- The text of emails: templates, escaping, fallbacks of missing names. Whether a
  message can be rendered depends on its link only, and that is in `Config`.
- Routing, headers and strict JSON decoding: stateless text handling. Input that
  is rejected changes no state.
- `Normalize` and the fingerprint: requests are normalized payloads, and equal
  fingerprints are equal payloads. Two applications with one email address and
  different payloads are two applications for the code as for the model.
- `MemoryStore`, a double for tests; the syntax of token references.
- What `net/http`, the pool of `pgx` and PostgreSQL do inside; how the models
  use them is said above.
- Down migrations, deployment scripts, the version.

## 7. Plan

Done, in this order: `ApprovalStore`, `GrantLifecycle`, `SignupGrants` and its
refinement; `Provisioning`; `TokenFiles`, `Approvals`; `Submissions`;
`PageViews`; the proofs of each; `FileStore` against `TokenStore`; `Config` and
`Server`; `Onboarding`; their proofs, and `FilesMatchRows` as a theorem; skewed
clocks in `Approvals` and `Onboarding`; `ApplicationLife`, `Intake` and
`VisitCounter` with the proofs that they are implemented; the theorems of the
parts carried over to `Onboarding`.

Next:

1. `Submissions` in the composition: one application from its submission to its
   farm, with the review capability's token file read by nobody and deleted by
   nobody. The two token scopes are separate directories, so the composition
   adds the rows of the capability, which only `Submissions` writes and only
   `Approvals` changes.
2. The statuses of the review endpoints (`httpapi/server.go`), as `Answer` has
   them for the grant endpoints.
