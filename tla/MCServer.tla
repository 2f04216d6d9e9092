---- MODULE MCServer ----
\* Instance for TLC: a complete production environment with ENV in any spelling
\* and any one variable changed, alone or with a complete local .env file.
EXTENDS Server, TLC

URL(s, n, p, x) ==
  [scheme |-> s, name |-> n, port |-> "none", path |-> p, extra |-> x, spelling |-> "plain"]
Site(p)  == URL("https", "site", p, "none")
Local(p) == [URL("http", "localhost", p, "none") EXCEPT !.port = "3000"]

\* The same URL in another spelling, with the port that https has anyway, and
\* without a host.
Capitals(u) == [u EXCEPT !.spelling = "capitals"]
OnPort(u)   == [u EXCEPT !.port = "443"]
Hostless(u) == [u EXCEPT !.name = ""]
Seconds  == Lifetimes \cup Timeouts

Defaults == [k \in Seconds |-> 1]

Env(name, plain) == [name |-> name, plain |-> plain]

Production ==
  "ENV" :> Env("production", TRUE) @@ "DATABASE_URL" :> "set" @@ "DB_VARIABLES" :> Unset
  @@ "EMAIL_PROVIDER" :> "resend"
  @@ "EMAIL_FROM" :> "set" @@ "RESEND_API_KEY_FILE" :> "private" @@ "REVIEW_RECIPIENT" :> "set"
  @@ "PUBLIC_WEB_ORIGIN" :> Site("none") @@ "CORS_ORIGINS" :> {Site("none"), Local("none")}
  @@ "REVIEW_BASE_URL" :> Site("review") @@ "HOSTED_SIGNUP_BASE_URL" :> Site("signup")
  @@ "PROVISIONING_SECRET_FILE" :> "private" @@ "TOKEN_SECRET_ROOT" :> "private"
  @@ [k \in Seconds |-> Unset]

Keys == DOMAIN Production

Paths == {"none", "review", "signup"}
URLs  == {URL("https", n, p, x) : n \in {"site", "mirror", ""}, p \in Paths,
                                  x \in {"none", "user", "query"}}
         \cup UNION {{Local(p), Capitals(Site(p)), OnPort(Site(p)),
                      OnPort(Hostless(Site(p)))} : p \in Paths}

Values(k) ==
  {Unset, Blank} \cup
  CASE k \in Seconds -> {0, 1, 2, 4, 8, 9, 16}
    [] k \in {"PUBLIC_WEB_ORIGIN", "REVIEW_BASE_URL", "HOSTED_SIGNUP_BASE_URL"} -> URLs
    [] k = "CORS_ORIGINS" -> {{Local("none")}, {URL("https", "mirror", "none", "none")}}
    [] k = "DB_VARIABLES" -> {"set"}
    [] k = "EMAIL_PROVIDER" -> {"disabled", "other"}
    [] k \in {"RESEND_API_KEY_FILE", "PROVISIONING_SECRET_FILE", "TOKEN_SECRET_ROOT"} -> {"unsafe"}
    [] OTHER -> {}

Spellings == {Unset, Blank, Env("production", TRUE), Env("production", FALSE),
              Env("staging", TRUE), Env("testing", TRUE)}

\* Production with its origin, its allowed origins and its links written
\* otherwise.
Written(origin, allowed, review, signup) ==
  [Production EXCEPT !["PUBLIC_WEB_ORIGIN"] = origin, !["CORS_ORIGINS"] = allowed,
                     !["REVIEW_BASE_URL"] = review, !["HOSTED_SIGNUP_BASE_URL"] = signup]
Rewritten ==
  LET origin == Site("none") review == Site("review") signup == Site("signup") IN
  {Written(Capitals(origin), {Capitals(origin)}, review, Capitals(signup)),
   Written(Capitals(origin), {origin, Capitals(origin)}, review, signup),
   Written(Capitals(origin), {origin}, review, signup),
   Written(origin, {origin}, Capitals(review), Capitals(signup)),
   Written(OnPort(origin), {OnPort(origin)}, OnPort(review), OnPort(signup)),
   Written(OnPort(origin), {OnPort(origin)}, review, signup),
   Written(Hostless(origin), {Hostless(origin)}, Hostless(review), Hostless(signup))}

MCEnvironments ==
  UNION {{[Production EXCEPT !["ENV"] = v, ![k] = w] : v \in Spellings, w \in Values(k)} :
         k \in Keys \ {"ENV"}}
  \cup {[e EXCEPT !["ENV"] = v] : e \in Rewritten, v \in Spellings}

NoDotenv == [k \in Keys |-> Unset]
LocalDotenv ==
  [Production EXCEPT !["ENV"] = Env("development", TRUE), !["EMAIL_PROVIDER"] = "disabled",
                     !["DATABASE_URL"] = Unset, !["DB_VARIABLES"] = "set",
                     !["PUBLIC_WEB_ORIGIN"] = Local("none"), !["CORS_ORIGINS"] = {Local("none")},
                     !["REVIEW_BASE_URL"] = Local("review"),
                     !["HOSTED_SIGNUP_BASE_URL"] = Local("signup")]
MCDotenvs == {NoDotenv, LocalDotenv}
====
