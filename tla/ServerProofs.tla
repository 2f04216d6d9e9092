---- MODULE ServerProofs ----
(***************************************************************************)
(* Proofs about Server for every environment, every .env file, every size  *)
(* of a word and any number of connections: what a process that serves may *)
(* count on, and how it ends.                                              *)
(***************************************************************************)
EXTENDS Server, TLAPS

IInv ==
  /\ TypeOK
  /\ WellTyped(env)
  /\ phase # "exited" => cut = {}
  /\ phase = "drain" => signalled
  /\ ExitHonest

----
(* Numbers of seconds.                                                    *)

LEMMA WordFacts == Half \in Nat /\ Word = 2 * Half /\ Second \in Nat /\ Second > 0 /\ Word > 0 /\ Half > Second
<1>1. Word \in Nat /\ Second \in Nat \ {0} /\ Word = 2 * Half /\ Second < Half
      BY ConfigAssumption
<1>2. Half \in Int
      BY <1>1 DEF Half
<1> QED BY <1>1, <1>2

\* A product that fits in a word is kept, and every product is an integer.
LEMMA WrappedFits == ASSUME NEW x \in Int PROVE Wrapped(x) \in Int /\ (x >= 0 /\ x < Half => Wrapped(x) = x)
<1> DEFINE y == x + Half
<1>1. y \in Int /\ Word \in Int /\ Word > 0 /\ y % Word \in Int
      BY WordFacts
<1>2. ASSUME y >= 0, y < Word PROVE y % Word = y
      BY <1>1, <1>2
<1>3. Wrapped(x) = (y % Word) - Half
      BY DEF Wrapped
<1>4. x >= 0 /\ x < Half => y >= 0 /\ y < Word /\ y - Half = x
      BY WordFacts
<1> HIDE DEF y
<1> QED BY <1>1, <1>2, <1>3, <1>4, WordFacts

LEMMA Product == ASSUME NEW s \in Nat \ {0} PROVE s * Second \in Nat /\ s * Second > 0
BY WordFacts

LEMMA SecondsTyped ==
  ASSUME NEW e, WellTyped(e), Loads(e), NEW k \in Lifetimes \cup Timeouts
  PROVE  /\ SecondsOf(e, k) \in Nat \ {0}
         /\ Duration(e, k) \in Int
         /\ SecondsOf(e, k) * Second < Half => Duration(e, k) = SecondsOf(e, k) * Second
<1>1. SecondsOf(e, k) \in Nat \ {0}
      BY DEF Loads
<1>2. SecondsOf(e, k) * Second \in Nat
      BY <1>1, Product
<1> QED BY <1>1, <1>2, WrappedFits DEF Duration

----
(* Environments.                                                          *)

LEMMA EffectiveTyped ==
  ASSUME NEW e \in Environments, NEW d \in Dotenvs
  PROVE  WellTyped(Effective(e, d)) /\ DOMAIN Effective(e, d) = DOMAIN e
<1>1. WellTyped(e) /\ WellTyped(d)
      BY ServerAssumption
<1> QED BY <1>1 DEF Effective, WellTyped

LEMMA ClosedEnvironmentDelivers ==
  ASSUME NEW e, WellTyped(e), Loads(e), Closed(e)
  PROVE  /\ ApprovalDeliverable(e) /\ NotificationDeliverable(e)
         /\ ServiceAuthenticationConfigured(e)
         /\ OriginCanonical(e) =>
              \A k \in {"REVIEW_BASE_URL", "HOSTED_SIGNUP_BASE_URL"} : PageMayCall(e, e[k])
<1> DEFINE origin == e["PUBLIC_WEB_ORIGIN"]
<1>1. /\ EmailProvider(e) = "resend" /\ \A k \in DeliveryKeys : ~Absent(e[k])
      /\ requireHTTPSOrigin(origin) /\ origin \in PublicCORSAllowedOrigins(e)
      /\ requireCapabilityLinkBase(e["REVIEW_BASE_URL"], origin, "review")
      /\ requireCapabilityLinkBase(e["HOSTED_SIGNUP_BASE_URL"], origin, "signup")
      /\ ~Absent(e["PROVISIONING_SECRET_FILE"])
      BY DEF Loads
<1>2. ASSUME NEW k \in {"REVIEW_BASE_URL", "HOSTED_SIGNUP_BASE_URL"}
      PROVE  RenderBrandedHTML(e[k]) /\ (OriginCanonical(e) => PageMayCall(e, e[k]))
  <2>1. /\ requireHTTPSURL(e[k]) /\ requireHTTPSURL(origin)
        /\ e[k].scheme = origin.scheme /\ Host(e[k]) = Host(origin)
        BY <1>1 DEF requireCapabilityLinkBase, requireHTTPSOrigin
  <2>2. RenderBrandedHTML(e[k])
        BY <2>1 DEF requireHTTPSURL, RenderBrandedHTML, validTransactionalURL
  <2>3. SentOrigin(e[k]) = SentOrigin(origin)
    <3>1. e[k].name = origin.name /\ e[k].port = origin.port
          BY <2>1 DEF Host
    <3> QED BY <2>1, <3>1 DEF SentOrigin
  <2>4. ASSUME OriginCanonical(e)
        PROVE  PageMayCall(e, e[k])
    <3>1. SentOrigin(origin) = origin
          BY <2>4 DEF OriginCanonical
    <3> QED BY <1>1, <2>3, <3>1 DEF PageMayCall
  <2> QED BY <2>2, <2>4
<1> QED BY <1>1, <1>2 DEF ApprovalDeliverable, NotificationDeliverable, DeliveryKeys,
                          ServiceAuthenticationConfigured

----
(* The invariant.                                                         *)

LEMMA InitOK == Init => IInv
<1> SUFFICES ASSUME Init PROVE IInv
    OBVIOUS
<1>1. WellTyped(env) /\ DOMAIN env = DOMAIN given
      BY EffectiveTyped DEF Init
<1> QED BY <1>1, ServerAssumption DEF Init, IInv, TypeOK, Phases, Codes, ExitHonest

\* Exit with a code that says what happened.
LEMMA ExitStep ==
  ASSUME IInv, NEW c \in Codes, Exit(c),
         c = 0 => signalled /\ \A d \in Conns : conns[d] # "active"
  PROVE  IInv'
<1>1. TypeOK'
      BY ServerAssumption DEF IInv, TypeOK, Exit, Phases, Codes, world
<1> QED BY <1>1 DEF IInv, Exit, world, ExitHonest

LEMMA NextOK == IInv /\ [Next]_vars => IInv'
<1> SUFFICES ASSUME IInv, [Next]_vars PROVE IInv'
    OBVIOUS
<1> USE DEF world
<1>1. CASE UNCHANGED vars
      BY <1>1 DEF vars, IInv, TypeOK, ExitHonest
<1>2. CASE LoadConfig
  <2>1. CASE Exit(1)
        BY <2>1, ExitStep DEF Codes
  <2>2. CASE Loads(env) /\ GoTo("connect")
        BY <1>2, <2>2 DEF LoadConfig, GoTo, IInv, TypeOK, Phases, ExitHonest
  <2> QED BY <1>2, <2>1, <2>2 DEF LoadConfig
<1>3. CASE Connect
  <2>1. CASE Exit(1)
        BY <2>1, ExitStep DEF Codes
  <2>2. CASE GoTo("open")
        BY <1>3, <2>2 DEF Connect, GoTo, IInv, TypeOK, Phases, ExitHonest
  <2> QED BY <1>3, <2>1, <2>2 DEF Connect
<1>4. CASE Open
  <2>1. CASE Exit(1)
        BY <2>1, ExitStep DEF Codes
  <2>2. CASE GoTo("serve")
        BY <1>4, <2>2 DEF Open, GoTo, IInv, TypeOK, Phases, ExitHonest
  <2> QED BY <1>4, <2>1, <2>2 DEF Open
<1>5. CASE Signal
  <2>1. CASE Exit(143)
        BY <2>1, ExitStep DEF Codes
  <2>2. CASE /\ phase \notin {"load", "exited"} /\ signalled' = TRUE
             /\ UNCHANGED <<world, phase, conns, elapsed, code, cut>>
        BY <2>2 DEF IInv, TypeOK, ExitHonest
  <2> QED BY <1>5, <2>1, <2>2 DEF Signal
<1>6. CASE ListenFails
      BY <1>6, ExitStep DEF ListenFails, Codes
<1>7. ASSUME NEW c \in Conns, Accept(c) \/ Begin(c) \/ End(c)
      PROVE  IInv'
  <2>1. PICK s \in {"none", "new", "active"} : SetConn(c, s)
        BY <1>7 DEF Accept, Begin, End
  <2>2. phase \in {"serve", "drain"}
        BY <1>7 DEF Accept, Begin, End, IInv, TypeOK, Phases
  <2> QED BY <2>1, <2>2 DEF SetConn, IInv, TypeOK, ExitHonest
<1>8. CASE BeginShutdown
      BY <1>8 DEF BeginShutdown, GoTo, IInv, TypeOK, Phases, ExitHonest
<1>9. CASE Tick
      BY <1>9 DEF Tick, IInv, TypeOK, ExitHonest
<1>10. CASE Drained
      BY <1>10, ExitStep DEF Drained, IInv, Codes
<1>11. CASE Overdue
      BY <1>11, ExitStep DEF Overdue, Codes
<1> QED BY <1>1, <1>2, <1>3, <1>4, <1>5, <1>6, <1>7, <1>8, <1>9, <1>10, <1>11 DEF Next

LEMMA Invariance == Spec => []IInv
BY InitOK, NextOK, PTL DEF Spec

----
(* The theorems.                                                          *)

\* Every variable keeps its type, and a process that has come past Load has an
\* environment that Load accepts.
THEOREM TypeCorrect == Spec => []TypeOK
<1>1. IInv => TypeOK
      BY DEF IInv
<1> QED BY Invariance, <1>1, PTL

\* Load, the constructors and the rendering of emails agree on staging and
\* production: none of their checks fails once the process serves, and with a
\* web origin in the spelling of browsers publicCORS finds that of both pages.
THEOREM ClosedProcessDelivers == Spec => []ClosedDelivers
<1>1. IInv => ClosedDelivers
      BY ClosedEnvironmentDelivers DEF IInv, TypeOK, ClosedDelivers
<1> QED BY Invariance, <1>1, PTL

\* NewService of internal/approvals and internal/submissions never runs with a
\* lifetime that is not positive, whatever durationFromSecondsEnv made of it.
THEOREM LifetimesInForce == Spec => []LifetimesSound
<1>1. IInv => LifetimesSound
  <2> SUFFICES ASSUME IInv, phase \in {"serve", "drain"}, NEW k \in Lifetimes
               PROVE  /\ Lifetime(env, k) > 0
                      /\ SecondsOf(env, k) * Second < Half => Lifetime(env, k) = SecondsOf(env, k) * Second
      BY DEF LifetimesSound
  <2>1. WellTyped(env) /\ Loads(env)
        BY DEF IInv, TypeOK
  <2>2. /\ SecondsOf(env, k) \in Nat \ {0} /\ Duration(env, k) \in Int
        /\ SecondsOf(env, k) * Second < Half => Duration(env, k) = SecondsOf(env, k) * Second
        BY <2>1, SecondsTyped
  <2>3. Default[k] * Second > 0 /\ SecondsOf(env, k) * Second > 0
        BY <2>2, Product, DefaultAssumption
  <2> QED BY <2>2, <2>3 DEF Lifetime
<1> QED BY Invariance, <1>1, PTL

\* main exits 0 only when it was asked to end and Shutdown cut nothing.
THEOREM HonestExit == Spec => []ExitHonest
<1>1. IInv => ExitHonest
      BY DEF IInv
<1> QED BY Invariance, <1>1, PTL

\* Shutdown gives the requests in progress the whole of SHUTDOWN_TIMEOUT.
THEOREM WholeGrace == Spec => GraceGiven
<1> DEFINE asked == SecondsOf(env, "SHUTDOWN_TIMEOUT") * Second
           Grace == phase = "drain" /\ cut' # {} /\ asked < Half => elapsed >= asked
<1>1. IInv /\ [Next]_vars => [Grace]_vars
  <2> SUFFICES ASSUME IInv, Next, phase = "drain", cut' # {}, asked < Half
               PROVE  elapsed >= asked
      OBVIOUS
  <2>1. cut = {}
        BY DEF IInv
  <2>2. Overdue
        BY <2>1 DEF Next, LoadConfig, Connect, Open, Signal, ListenFails, Accept, Begin, End, SetConn,
                    BeginShutdown, GoTo, Tick, Drained, Exit
  <2>3. ShutdownTimeout(env) = asked
        BY SecondsTyped DEF IInv, TypeOK, ShutdownTimeout, Timeouts
  <2> QED BY <2>2, <2>3 DEF Overdue
<1> QED BY Invariance, <1>1, PTL DEF Spec, GraceGiven
====
