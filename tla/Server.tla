---- MODULE Server ----
(***************************************************************************)
(* The process of cmd/server: it reads its environment, connects, serves,  *)
(* and on SIGTERM or an interrupt stops accepting connections and waits,   *)
(* for a time, for the requests in progress.                               *)
(***************************************************************************)
EXTENDS Config

CONSTANTS Environments,   \* environments the process may be given
          Dotenvs,        \* what a .env file may hold; all Unset when there is none
          Conns,          \* connections at the same time
          Running         \* the process has no exit code yet

VARIABLES given,          \* the environment of this process
          env,            \* the same after the package's init
          phase,          \* how far main has come
          conns,          \* "none", "new" (accepted, nothing read) or "active"
          signalled,      \* SIGTERM or an interrupt has arrived
          elapsed,        \* time since Shutdown was called
          code,           \* the exit code, once there is one
          cut             \* history: requests in progress when the process ended

vars == <<given, env, phase, conns, signalled, elapsed, code, cut>>
world == <<given, env>>

ASSUME ServerAssumption ==
  /\ \A e \in Environments \cup Dotenvs : WellTyped(e)
  /\ Running \notin {0, 1, 143}

Phases == {"load", "connect", "open", "serve", "drain", "exited"}
Codes  == {0, 1, 143}   \* 143: killed by the signal

TypeOK ==
  /\ DOMAIN env = DOMAIN given
  /\ phase \in Phases
  /\ conns \in [Conns -> {"none", "new", "active"}]
  /\ signalled \in BOOLEAN
  /\ elapsed \in Nat
  /\ code \in Codes \cup {Running}
  /\ cut \in SUBSET Conns
  /\ code = Running <=> phase # "exited"
  /\ phase \in {"connect", "open", "serve", "drain"} => Loads(env)
  /\ phase \notin {"serve", "drain"} => \A c \in Conns : conns[c] = "none"

Init ==
  /\ given \in Environments
  /\ env \in {Effective(given, dotenv) : dotenv \in Dotenvs}
  /\ phase = "load"
  /\ conns = [c \in Conns |-> "none"]
  /\ signalled = FALSE
  /\ elapsed = 0
  /\ code = Running
  /\ cut = {}

\* os.Exit, or the return of main: what is in progress is cut.
Exit(c) ==
  /\ phase' = "exited"
  /\ code' = c
  /\ cut' = {d \in Conns : conns[d] = "active"}
  /\ conns' = [d \in Conns |-> "none"]
  /\ UNCHANGED <<world, signalled, elapsed>>

GoTo(p) == phase' = p /\ UNCHANGED <<world, conns, signalled, elapsed, code, cut>>

----
(* Start-up.                                                              *)

\* Fault: the error of Load is not looked at.
LoadConfigUnchecked == phase = "load" /\ GoTo("connect")

LoadConfig ==
  /\ phase = "load"
  /\ IF Loads(env) THEN GoTo("connect") ELSE Exit(1)

\* pgxpool.New and the Ping, which the timeout and the signal end.
Connect ==
  /\ phase = "connect"
  /\ \/ ~signalled /\ Duration(env, "READ_TIMEOUT") > 0 /\ GoTo("open")
     \/ Exit(1)

\* The token store, the email sender and the services.
Open ==
  /\ phase = "open"
  /\ \/ /\ NewFileStore(env)
        /\ EmailProvider(env) = "resend" => NewResendSender(env)
        /\ GoTo("serve")
     \/ Exit(1)

----
(* Serving.                                                               *)

\* NotifyContext is in place once the configuration is loaded, and stays there
\* to the end: a second signal has no effect.
Signal ==
  /\ ~signalled
  /\ \/ phase = "load" /\ Exit(143)
     \/ /\ phase \notin {"load", "exited"}
        /\ signalled' = TRUE
        /\ UNCHANGED <<world, phase, conns, elapsed, code, cut>>

SetConn(c, s) ==
  conns' = [conns EXCEPT ![c] = s] /\ UNCHANGED <<world, phase, signalled, elapsed, code, cut>>

Accept(c) == phase = "serve" /\ conns[c] = "none" /\ SetConn(c, "new")

\* A request is read, also on a connection accepted before Shutdown.
Begin(c) == conns[c] = "new" /\ SetConn(c, "active")

\* Its handler ends, or a new connection is closed without a request.
End(c) == conns[c] # "none" /\ SetConn(c, "none")

\* ListenAndServe returns an error.
ListenFails == phase = "serve" /\ Exit(1)

----
(* Shutdown.                                                              *)

BeginShutdown == phase = "serve" /\ signalled /\ GoTo("drain")

\* Fault: the timeout of another variable is used.
ShutdownTimeoutOfReads(e) == Duration(e, "READ_TIMEOUT")

ShutdownTimeout(e) == Duration(e, "SHUTDOWN_TIMEOUT")

\* Time passes up to the timeout.
Tick ==
  /\ phase = "drain"
  /\ elapsed < ShutdownTimeout(env)
  /\ elapsed' = elapsed + 1
  /\ UNCHANGED <<world, phase, conns, signalled, code, cut>>

Drained == phase = "drain" /\ (\A c \in Conns : conns[c] = "none") /\ Exit(0)

\* Fault: the error of Shutdown is not looked at.
OverdueUnnoticed == phase = "drain" /\ elapsed >= ShutdownTimeout(env) /\ Exit(0)

\* Fault: Shutdown is given a context without a deadline.
OverdueNever == phase = "drain" /\ (\A c \in Conns : conns[c] = "none") /\ Exit(1)

\* The context of Shutdown ends.
Overdue == phase = "drain" /\ elapsed >= ShutdownTimeout(env) /\ Exit(1)

Next ==
  \/ LoadConfig \/ Connect \/ Open \/ Signal \/ ListenFails
  \/ \E c \in Conns : Accept(c) \/ Begin(c) \/ End(c)
  \/ BeginShutdown \/ Tick \/ Drained \/ Overdue

Spec == Init /\ [][Next]_vars

\* main runs on; the Ping is bounded by its timeout, Shutdown by its own, and
\* time passes.  Nothing is assumed of the handlers.
Fairness == /\ WF_vars(LoadConfig) /\ WF_vars(Connect) /\ WF_vars(Open)
            /\ WF_vars(BeginShutdown) /\ WF_vars(Tick) /\ WF_vars(Drained \/ Overdue)

FairSpec == Spec /\ Fairness

----
(* Properties.                                                            *)

\* The web origin is configured in the spelling a browser sends.
OriginCanonical(e) == e["PUBLIC_WEB_ORIGIN"] = SentOrigin(e["PUBLIC_WEB_ORIGIN"])

\* A process that serves staging or production never finds, when an email is
\* due, that it has no sender, recipient or link it may send: every approval and
\* every notification can be rendered and sent, and the provisioning endpoints
\* are open to the holder of the secret.  The pages behind the links, however
\* these are spelled, may call back if the web origin is the "canonical browser
\* origin" the documents ask for: Load itself accepts one with capitals or with
\* an explicit port 443, which no browser sends.
ClosedDelivers ==
  phase \in {"serve", "drain"} /\ Closed(env) =>
    /\ ApprovalDeliverable(env) /\ NotificationDeliverable(env)
    /\ ServiceAuthenticationConfigured(env)
    /\ OriginCanonical(env) =>
         \A k \in {"REVIEW_BASE_URL", "HOSTED_SIGNUP_BASE_URL"} : PageMayCall(env, env[k])

\* Whatever number of seconds was configured, the lifetimes in force are
\* positive, and they are the configured ones unless those overflow an int64.
LifetimesSound ==
  phase \in {"serve", "drain"} =>
    \A k \in Lifetimes :
      /\ Lifetime(env, k) > 0
      /\ SecondsOf(env, k) * Second < Half => Lifetime(env, k) = SecondsOf(env, k) * Second

\* Exit code 0 means that the process was asked to end and cut no request.
ExitHonest == code = 0 => signalled /\ cut = {}

\* A process that is draining cuts requests only after the whole of the
\* configured time, unless that overflows.
GraceGiven ==
  [][LET asked == SecondsOf(env, "SHUTDOWN_TIMEOUT") * Second IN
     phase = "drain" /\ cut' # {} /\ asked < Half => elapsed >= asked]_vars

\* A process that is asked to end does, whatever its requests are waiting for.
SignalEnds == signalled ~> phase = "exited"

\* "In `staging` and `production`, dotenv loading is skipped": such a process
\* uses the environment it was given and nothing else.
DotenvSkipped == phase = "serve" /\ Closed(env) => env = given
====
