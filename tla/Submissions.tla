---- MODULE Submissions ----
(***************************************************************************)
(* The intake of applications: Service.Submit of internal/submissions and  *)
(* Store.CreateSubmission of internal/postgres.  A request is a payload    *)
(* that Normalize accepted; payloads with one fingerprint are one payload. *)
(*                                                                         *)
(* Submit for early access writes a review token to the store before it    *)
(* knows whether the request is a duplicate.  CreateSubmission serialises  *)
(* the requests of one payload by an advisory lock that it holds until its *)
(* transaction ends, then looks for a row younger than the duplicate       *)
(* window, measured from the caller's clock, and inserts when there is     *)
(* none.  The rows' created_at is the start of their transaction on the    *)
(* database's clock, before the wait for the lock.                         *)
(***************************************************************************)
EXTENDS TokenFiles, Sequences

CONSTANTS Payloads,        \* normalized payloads, one for each fingerprint
          EarlyAccess,     \* those of type early_access; the others are waitlist
          Handlers,        \* requests served at the same time, on any replica
          Tokens,          \* review tokens that can be generated
          Window,          \* Service.duplicateWindow
          ReviewLifetime,  \* Service.reviewLifetime
          Skew,            \* how far a replica's clock is from the database's
          AmbiguousCommit, \* may a COMMIT take effect and still return an error?
          MayStop,         \* may the process stop?
          MaxClock,        \* bound of the model: the clock stops here
          NoToken,         \* a waitlist submission has no review capability
          Idle             \* a handler that serves no request

VARIABLES clock,           \* the database's clock
          table,           \* early_access_submissions, in the order of insertion
          handlers,        \* the requests being served
          accepted,        \* history: by payload, the latest start of the window of a
                           \* request that was answered success
          notified         \* history: tokens of the notifications attempted

vars == <<clock, table, files, handlers, accepted, notified, strays, faults>>

ASSUME SubmissionsAssumption ==
  /\ EarlyAccess \subseteq Payloads
  /\ Window \in Nat \ {0} /\ ReviewLifetime \in Nat \ {0}   \* NewService replaces values <= 0
  /\ Skew \in Nat /\ MaxClock \in Nat /\ MaxFaults \in Nat
  /\ AmbiguousCommit \in BOOLEAN /\ MayStop \in BOOLEAN
  /\ NoToken \notin Tokens

\* The columns the properties tell apart; `token` stands for the digest and
\* secret reference of the row's review capability.
Row == [payload : Payloads, createdAt : Nat, token : Tokens \cup {NoToken}]

\* `at` is the time Put returned and later the start of the transaction;
\* `since` the start of the duplicate window and `timely` whether the
\* capability's expiry is in the future, both from the service's clock.
Steps   == {"begin", "lock", "look", "insert", "undo", "drop", "notify"}
Request == [step : Steps, payload : Payloads, token : Tokens \cup {NoToken},
            at : Nat, since : Int, timely : BOOLEAN]
Never == -Window - Skew - 1   \* before every window

ASSUME SubmissionNullsAssumption == Idle \notin Request

TypeOK ==
  /\ clock \in Nat
  /\ table \in Seq(Row)
  /\ handlers \in [Handlers -> Request \cup {Idle}]
  /\ accepted \in [Payloads -> Int]
  /\ notified \in SUBSET Tokens
  /\ files \in SUBSET Tokens
  /\ strays \in SUBSET Tokens
  /\ faults \in 0..MaxFaults
  /\ \A i \in DOMAIN table : table[i].token # NoToken <=> table[i].payload \in EarlyAccess

Init ==
  /\ clock = 0
  /\ table = <<>>
  /\ handlers = [h \in Handlers |-> Idle]
  /\ accepted = [p \in Payloads |-> Never]
  /\ notified = {}
  /\ files = {}
  /\ strays = {}
  /\ faults = 0

At(h, step)   == handlers[h] # Idle /\ handlers[h].step = step
GoTo(h, step) == handlers' = [handlers EXCEPT ![h].step = step]
Return(h)     == handlers' = [handlers EXCEPT ![h] = Idle]
Accept(h)     == LET r == handlers[h] IN
  accepted' = [accepted EXCEPT ![r.payload] = IF @ < r.since THEN r.since ELSE @]

\* The advisory lock of a payload is free: it is released when the transaction
\* that took it ends.
LockFree(p) == \A h \in Handlers : handlers[h] # Idle /\ handlers[h].payload = p =>
                                     handlers[h].step \notin {"look", "insert"}

----
(* The handler's steps.                                                   *)

Tick ==
  /\ clock < MaxClock
  /\ clock' = clock + 1
  /\ UNCHANGED <<table, files, handlers, accepted, notified, strays, faults>>

\* Tokens nobody has seen: 256 random bits repeat no earlier token.
Fresh(t) ==
  /\ t \notin notified
  /\ \A i \in DOMAIN table : table[i].token # t
  /\ \A h \in Handlers : handlers[h] # Idle => handlers[h].token # t

\* Submit has normalized its input and, for early access, generated and Put a
\* review token.  When either fails nothing has changed.
Submit(h, p) ==
  /\ handlers[h] = Idle
  /\ \E t \in Tokens \cup {NoToken} :
       /\ t # NoToken <=> p \in EarlyAccess
       /\ IF t = NoToken THEN UNCHANGED files ELSE Fresh(t) /\ Put(t)
       /\ handlers' = [handlers EXCEPT ![h] =
            [step |-> "begin", payload |-> p, token |-> t, at |-> clock,
             since |-> Never, timely |-> FALSE]]
  /\ UNCHANGED <<clock, table, accepted, notified, strays, faults>>

\* What time.Now returned on this replica since Put.
LocalNow(r) == (r.at - Skew)..(clock + Skew)

\* The capability's expiry and the duplicate window are set, in this order, and
\* the transaction begins once the pool has a connection.
Begin(h) ==
  LET r == handlers[h] IN
  /\ At(h, "begin")
  /\ \E issued, now \in LocalNow(r) :
       /\ issued <= now
       /\ handlers' = [handlers EXCEPT ![h] =
            [r EXCEPT !.step = "lock", !.at = clock, !.since = now - Window,
                      !.timely = r.token # NoToken /\ issued + ReviewLifetime > clock]]
  /\ UNCHANGED <<clock, table, files, accepted, notified, strays, faults>>

\* Fault: transactions of one payload run side by side.
LockShared(h) ==
  /\ At(h, "lock")
  /\ GoTo(h, "look")
  /\ UNCHANGED <<clock, table, files, accepted, notified, strays, faults>>

Lock(h) ==
  /\ At(h, "lock")
  /\ LockFree(handlers[h].payload)
  /\ GoTo(h, "look")
  /\ UNCHANGED <<clock, table, files, accepted, notified, strays, faults>>

\* Fault: the window is not part of the condition.
DuplicateEver(p, since) == \E i \in DOMAIN table : table[i].payload = p

Duplicate(p, since) ==
  \E i \in DOMAIN table : table[i].payload = p /\ table[i].createdAt >= since

\* Fault: the caller takes a duplicate for a new submission.
LookTreatingAllAsNew(h) ==
  /\ At(h, "look")
  /\ GoTo(h, IF Duplicate(handlers[h].payload, handlers[h].since) THEN "notify" ELSE "insert")
  /\ UNCHANGED <<clock, table, files, accepted, notified, strays, faults>>

\* The SELECT; a transaction that found a duplicate commits at once.
Look(h) ==
  /\ At(h, "look")
  /\ GoTo(h, IF Duplicate(handlers[h].payload, handlers[h].since) THEN "drop" ELSE "insert")
  /\ UNCHANGED <<clock, table, files, accepted, notified, strays, faults>>

\* Fault: the capability is not inserted.
InsertRowWithoutReview(r) ==
  table' = Append(table, [payload |-> r.payload, createdAt |-> r.at, token |-> NoToken])

\* The INSERTs of the submission and its capability.
InsertRow(r) == table' = Append(table, [payload |-> r.payload, createdAt |-> r.at,
                                        token |-> r.token])

\* The capability's row has CHECK (expires_at > created_at).
Insertable(r) == r.token # NoToken => r.timely

\* The transaction inserts and commits, and its answer arrives: Submit notifies
\* the reviewer or, for the waitlist, returns.
Insert(h) ==
  LET r == handlers[h] IN
  /\ At(h, "insert")
  /\ Insertable(r)
  /\ InsertRow(r)
  /\ IF r.token # NoToken
     THEN GoTo(h, "notify") /\ UNCHANGED accepted
     ELSE Return(h) /\ Accept(h)
  /\ UNCHANGED <<clock, files, notified, strays, faults>>

\* CreateSubmission returns an error: the CHECK refuses the capability, or a
\* statement, the pool or the COMMIT fails.  With AmbiguousCommit the COMMIT may
\* have taken effect.
CreateFails(h) ==
  LET r == handlers[h] IN
  /\ handlers[h] # Idle
  /\ r.step \in {"begin", "lock", "look", "insert"}
  /\ \/ r.step = "insert" /\ ~Insertable(r) /\ NoFault /\ UNCHANGED table
     \/ Fault /\ UNCHANGED table
     \/ Fault /\ AmbiguousCommit /\ r.step = "insert" /\ Insertable(r) /\ InsertRow(r)
  /\ GoTo(h, "undo")
  /\ UNCHANGED <<clock, files, accepted, notified, strays>>

\* Fault: the candidate's file is not deleted.
DiscardNothing(t) == UNCHANGED <<files, strays, faults>>

\* Delete of the candidate, when there is one.
Discard(t) == IF t = NoToken THEN UNCHANGED <<files, strays, faults>> ELSE Delete(t)

\* CreateSubmission failed: delete the candidate and return the error.
Undo(h) ==
  /\ At(h, "undo")
  /\ Discard(handlers[h].token)
  /\ Return(h)
  /\ UNCHANGED <<clock, table, accepted, notified>>

\* The request is a duplicate: delete the candidate and return success.
Drop(h) ==
  /\ At(h, "drop")
  /\ Discard(handlers[h].token)
  /\ Accept(h)
  /\ Return(h)
  /\ UNCHANGED <<clock, table, notified>>

\* sendReviewerNotification, whose failure is logged and not returned.
Notify(h) ==
  /\ At(h, "notify")
  /\ notified' = notified \cup {handlers[h].token}
  /\ Accept(h)
  /\ Return(h)
  /\ UNCHANGED <<clock, table, files, strays, faults>>

\* The process stops before the handler's next step: an open transaction is
\* rolled back, a file it would have deleted stays.
Stop(h) ==
  /\ MayStop
  /\ handlers[h] # Idle
  /\ Fault
  /\ IF handlers[h].step # "notify" THEN Abandon(handlers[h].token) ELSE UNCHANGED strays
  /\ Return(h)
  /\ UNCHANGED <<clock, table, files, accepted, notified>>

Next ==
  \/ Tick
  \/ \E h \in Handlers :
       \/ \E p \in Payloads : Submit(h, p)
       \/ Begin(h) \/ Lock(h) \/ Look(h) \/ Insert(h) \/ CreateFails(h)
       \/ Undo(h) \/ Drop(h) \/ Notify(h) \/ Stop(h)

Spec == Init /\ [][Next]_vars

----
(* Properties.                                                            *)

\* Two rows of one payload are further apart than the duplicate window, but for
\* the skew of the clocks, however many copies of a request are served at once
\* and however long each waits for the lock.
DuplicatesApart ==
  \A i, j \in DOMAIN table :
    i < j /\ table[i].payload = table[j].payload =>
      table[j].createdAt - table[i].createdAt > Window - Skew

\* A request that was answered success has a row, and one inside the window the
\* request itself computed: nobody is thanked on the strength of an old row.
AcceptedIsStored ==
  \A p \in Payloads : accepted[p] # Never =>
    \E i \in DOMAIN table : table[i].payload = p /\ table[i].createdAt >= accepted[p]

\* The reviewer is sent the token of a stored application, never a candidate
\* that was dropped or undone, and so at most one link for every row.
NotifiedIsStored == \A t \in notified : \E i \in DOMAIN table : table[i].token = t

\* Files and rows agree: the secret reference of every row has its file, and
\* every file that is neither a row's nor a stray is in the hand of a handler.
FilesMatchRows ==
  LET stored == {table[i].token : i \in DOMAIN table} \ {NoToken} IN
  /\ stored \subseteq files
  /\ \A t \in files \ (stored \cup strays) : \E h \in Handlers :
       handlers[h] # Idle /\ handlers[h].token = t

\* The intake implements Intake as long as no answer to a COMMIT is lost and the
\* clocks agree to within the duplicate window: whatever copies of a request are
\* served at once, fail or stop, rows appear one at a time and with their link.
IntakeOf ==
  INSTANCE Intake WITH
    Reviewed <- EarlyAccess, Links <- Tokens, NoLink <- NoToken,
    Spacing <- Window - Skew, NotYet <- Never, rows <- table,
    readable <- {table[i].token : i \in DOMAIN table} \cap files,
    told <- notified, thanked <- accepted
ImplementsIntake == IntakeOf!Spec

\* A notification is attempted for every early-access application before or
\* after its applicant is thanked: "one reviewer notification attempt".
AcceptedIsNotified ==
  \A p \in EarlyAccess : accepted[p] # Never =>
    \E i \in DOMAIN table :
      /\ table[i].payload = p /\ table[i].createdAt >= accepted[p]
      /\ \/ table[i].token \in notified
         \/ \E h \in Handlers : At(h, "notify") /\ handlers[h].token = table[i].token
====
