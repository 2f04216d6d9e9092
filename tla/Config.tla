---- MODULE Config ----
(***************************************************************************)
(* What the service makes of its environment: the dotenv step of the       *)
(* package's init, config.Load, and what the constructors of the services  *)
(* and the rendering of emails do with the result.                         *)
(*                                                                         *)
(* An environment maps variables to values.  A value is what the code      *)
(* tells apart: a URL by its parts, a file by whether it is private and    *)
(* well-formed, a number of seconds by itself; 0 stands for everything     *)
(* that is not a positive integer.  Which check refuses an environment     *)
(* makes no difference, so their order is not kept.  A duration is an      *)
(* integer of a machine word, in the unit of time.Duration.                *)
(***************************************************************************)
EXTENDS Integers

CONSTANTS Unset, Blank,   \* a variable that is not there, or has only blanks
          Word,           \* the number of values of an int: 2^64
          Second          \* time.Second: 10^9

\* The half of a word, where integers turn negative.
Half == Word \div 2

ASSUME ConfigAssumption ==
  Word \in Nat /\ Second \in Nat \ {0} /\ Word = 2 * Half /\ Second < Half

Absent(v) == v \in {Unset, Blank}

\* What the code tells apart of a URL.  `name` is the host's name up to the case
\* of its letters and `port` its port, "none" without a colon; `extra` is a user,
\* or else an opaque part, an encoded path, a query or a fragment; `spelling` is
\* "plain" when the text is what a browser would write, and something else when
\* it has capitals or a mark that parsing drops.
Links  == {"PUBLIC_WEB_ORIGIN", "REVIEW_BASE_URL", "HOSTED_SIGNUP_BASE_URL"}
AnyURL == [scheme : STRING, name : STRING, port : STRING, path : STRING, extra : STRING,
           spelling : STRING]

\* url.URL.Host, as strings.EqualFold compares it, and its empty value.
Host(u) == <<u.name, u.port>>
NoHost  == <<"", "none">>

\* The variables that hold seconds, with their defaults, in seconds.
Lifetimes == {"REVIEW_TOKEN_TTL", "SIGNUP_GRANT_TTL", "SIGNUP_GRANT_CLAIM_TTL"}
Timeouts  == {"READ_TIMEOUT", "WRITE_TIMEOUT", "IDLE_TIMEOUT", "SHUTDOWN_TIMEOUT"}
CONSTANT  Default         \* by variable
ASSUME DefaultAssumption ==
  \A k \in Lifetimes \cup Timeouts : Default[k] \in Nat \ {0} /\ Default[k] * Second < Half

\* An environment has a value of its kind, or none, for each variable.
WellTyped(e) ==
  /\ \A k \in Lifetimes \cup Timeouts : k \in DOMAIN e /\ (Absent(e[k]) \/ e[k] \in Nat)
  /\ \A k \in Links : k \in DOMAIN e /\ (Absent(e[k]) \/ e[k] \in AnyURL)

----
(* env.go: variables that are there, even blank ones, are not overridden.  *)

\* The ENV that decides is compared as it is; `plain` says that it is spelled in
\* lower case and without blanks.
LoadsDotenv(given) ==
  Absent(given["ENV"]) \/ ~given["ENV"].plain \/ given["ENV"].name \notin {"staging", "production"}

Effective(given, dotenv) ==
  IF LoadsDotenv(given)
  THEN [k \in DOMAIN given |-> IF given[k] = Unset THEN dotenv[k] ELSE given[k]]
  ELSE given

----
(* config.Load.                                                           *)

\* ENV in lower case and trimmed.
Environment(e) == IF Absent(e["ENV"]) THEN "development" ELSE e["ENV"].name
Closed(e)      == Environment(e) \in {"staging", "production"}

EmailProvider(e) == IF Absent(e["EMAIL_PROVIDER"]) THEN "disabled" ELSE e["EMAIL_PROVIDER"]

\* The allowed origins, a set of texts of URLs, which are compared as they are
\* spelled; the default is no https origin.
PublicCORSAllowedOrigins(e) == IF Absent(e["CORS_ORIGINS"]) THEN {} ELSE e["CORS_ORIGINS"]

requireHTTPSURL(u) ==
  /\ ~Absent(u)
  /\ u.scheme = "https" /\ Host(u) # NoHost /\ u.name # "" /\ u.extra = "none"
requireHTTPSOrigin(u) == requireHTTPSURL(u) /\ u.path = "none"

\* Fault: a link may lead to any host.
requireCapabilityLinkBaseAnyHost(u, origin, path) == requireHTTPSURL(u) /\ u.path = path

requireCapabilityLinkBase(u, origin, path) ==
  /\ requireHTTPSURL(u)
  /\ u.path = path /\ u.scheme = origin.scheme /\ Host(u) = Host(origin)

\* What Resend delivery needs.
DeliveryKeys == {"EMAIL_FROM", "RESEND_API_KEY_FILE", "REVIEW_RECIPIENT", "REVIEW_BASE_URL",
                 "HOSTED_SIGNUP_BASE_URL"}

\* The DB_ variables, all there or not.
LoadDatabaseConfig(e) == ~Absent(e["DB_VARIABLES"])

\* A private regular file with at least 32 bytes on one line.
readPrivateSecret(e) == e["PROVISIONING_SECRET_FILE"] # "unsafe"

SecondsOf(e, k) == IF Absent(e[k]) THEN Default[k] ELSE e[k]

Loads(e) ==
  /\ ~Absent(e["DATABASE_URL"]) \/ LoadDatabaseConfig(e)
  /\ \A k \in Lifetimes \cup Timeouts : SecondsOf(e, k) \in 1..(Half - 1)
  /\ Absent(e["TOKEN_SECRET_ROOT"]) => Environment(e) \in {"development", "testing"}
  /\ EmailProvider(e) \in {"disabled", "resend"}
  /\ EmailProvider(e) = "resend" => \A k \in DeliveryKeys : ~Absent(e[k])
  /\ Closed(e) =>
       LET origin == e["PUBLIC_WEB_ORIGIN"] IN
       /\ EmailProvider(e) = "resend"
       /\ requireHTTPSOrigin(origin)
       /\ origin \in PublicCORSAllowedOrigins(e)
       /\ requireCapabilityLinkBase(e["REVIEW_BASE_URL"], origin, "review")
       /\ requireCapabilityLinkBase(e["HOSTED_SIGNUP_BASE_URL"], origin, "signup")
  /\ readPrivateSecret(e)
  /\ Closed(e) => ~Absent(e["PROVISIONING_SECRET_FILE"])

\* An int64 keeps a value modulo the word.
Wrapped(x) == ((x + Half) % Word) - Half

\* durationFromSecondsEnv: time.Duration(seconds) * time.Second.
Duration(e, k) == Wrapped(SecondsOf(e, k) * Second)

----
(* The services.                                                          *)

\* Fault: a lifetime that is not positive is used as it is.
LifetimeAsGiven(e, k) == Duration(e, k)

\* The constructors replace a lifetime that is not positive by a default, which
\* is that of the variable.
Lifetime(e, k) == IF Duration(e, k) <= 0 THEN Default[k] * Second ELSE Duration(e, k)

validTransactionalURL(u) == u.scheme = "https" /\ Host(u) # NoHost /\ u.extra # "user"

\* A message is rendered when its link is valid: whatever else it needs is fixed
\* text or has a fallback.
RenderBrandedHTML(u) == validTransactionalURL(u)

\* sendApproval and sendReviewerNotification find what they need, and their
\* messages can be rendered.
ApprovalDeliverable(e) ==
  /\ EmailProvider(e) = "resend"
  /\ ~Absent(e["EMAIL_FROM"]) /\ ~Absent(e["HOSTED_SIGNUP_BASE_URL"])
  /\ RenderBrandedHTML(e["HOSTED_SIGNUP_BASE_URL"])

NotificationDeliverable(e) ==
  /\ EmailProvider(e) = "resend"
  /\ ~Absent(e["EMAIL_FROM"]) /\ ~Absent(e["REVIEW_RECIPIENT"]) /\ ~Absent(e["REVIEW_BASE_URL"])
  /\ RenderBrandedHTML(e["REVIEW_BASE_URL"])

\* The token store's root is a directory, or can be made one, and no symlink.
NewFileStore(e) == e["TOKEN_SECRET_ROOT"] # "unsafe"

\* The API key's file is a private regular file with one line.
NewResendSender(e) == e["RESEND_API_KEY_FILE"] # "unsafe"

\* requireServiceAuthentication answers 503 without a secret.
ServiceAuthenticationConfigured(e) == ~Absent(e["PROVISIONING_SECRET_FILE"])

\* The Origin header a browser sends for a page at u: scheme and host in lower
\* case, and the port unless it is empty or the scheme's own.
SentOrigin(u) ==
  LET own == u.port = "empty" \/ <<u.scheme, u.port>> \in {<<"https", "443">>, <<"http", "80">>}
  IN [scheme |-> u.scheme, name |-> u.name, port |-> IF own THEN "none" ELSE u.port,
      path |-> "none", extra |-> "none", spelling |-> "plain"]

\* publicCORS looks the header up as it was sent: a page at u may call the public
\* endpoints when the list has it in that spelling.
PageMayCall(e, u) == SentOrigin(u) \in PublicCORSAllowedOrigins(e)
====
