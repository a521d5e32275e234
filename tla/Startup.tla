------------------------------ MODULE Startup ------------------------------
(***************************************************************************)
(* The start of the server (pkg/server/main.go): the steps of app.Action   *)
(* in their order, each of which registers routes with the one mux of the  *)
(* process, may end the process or may be left out with a warning; and the *)
(* authenticators, which join the list of login methods as they register.  *)
(***************************************************************************)
EXTENDS Naturals, Sequences

VARIABLES flags,        \* the flags given on the command line or in the environment
          step,         \* the number of the step of app.Action
          process,      \* "starting", "listening" or "dead"
          routes,       \* the patterns of http.DefaultServeMux
          authenticators, \* Manager.authenticators
          loginMethods, \* Manager.loginMethodsResponse
          listener      \* "none", "plain", "tls" with a redirect port, or "split"

startVars == <<flags, step, process, routes, authenticators, loginMethods, listener>>

Authenticator == {"oidc", "saml", "password", "anonymous"}
Step == <<"clients", "manager", "oidc", "saml", "password", "anonymous", "proxy", "templates", "metrics", "ui">>

\* The flags that matter here; each of the others has a default.
Flag == {"server-cert", "public-url", "oidc", "saml", "password-file", "disable-anonymous", "disable-tls", "same-port"}

\* getRequiredFlags: the flags each authenticator needs.
Required == [oidc |-> {"public-url", "oidc"}, saml |-> {"public-url", "saml"}, password |-> {"password-file"}, anonymous |-> {}]
Configured(a) == Required[a] \subseteq flags /\ ~(a = "anonymous" /\ "disable-anonymous" \in flags)

\* The path /auth/<type>/<name>, and the one of the SAML metadata below it.
LoginURL(a) == <<"auth", a>>
MetadataPath == <<"auth", "saml", "metadata">>

StartInit ==
  /\ flags \in SUBSET Flag
  /\ step = 1 /\ process = "starting" /\ routes = {} /\ authenticators = {} /\ loginMethods = {} /\ listener = "none"

At(name) == process = "starting" /\ step <= Len(Step) /\ Step[step] = name

\* log.Fatal, argError and a panic end the process.
Fatal == process' = "dead" /\ UNCHANGED <<flags, step, routes, authenticators, loginMethods, listener>>

\* http.HandleFunc panics on a pattern it already has.
HandleFunc(patterns) ==
  /\ process' = IF patterns \cap routes = {} THEN process ELSE "dead"
  /\ routes' = routes \cup patterns /\ step' = step + 1
  /\ UNCHANGED <<flags, listener>>

Skip == step' = step + 1 /\ UNCHANGED <<flags, process, routes, authenticators, loginMethods, listener>>

\* The certificate is required unless TLS is disabled; then clients.Create.
SetupClients ==
  /\ At("clients")
  /\ \/ "disable-tls" \notin flags /\ "server-cert" \notin flags /\ Fatal
     \/ ("disable-tls" \in flags \/ "server-cert" \in flags) /\ (Fatal \/ Skip)

NewAuthManager ==
  /\ At("manager")
  /\ HandleFunc({<<"auth", "login_methods">>, <<"auth", "user_info">>})
  /\ loginMethods' = authenticators
  /\ UNCHANGED authenticators

\* The list is made before the new authenticator is in it.
RegisterAndListBefore(a) ==
  /\ authenticators' = authenticators \cup {a}
  /\ loginMethods' = authenticators

\* The new authenticator and the list of all of them.
RegisterAuthenticator(a) ==
  /\ authenticators' = authenticators \cup {a}
  /\ loginMethods' = authenticators'

\* An authenticator that is configured: its constructor fails, which is fatal, or it
\* is registered.
SetupAuthenticator(a, mayFail, patterns) ==
  /\ At(a)
  /\ \/ ~Configured(a) /\ Skip
     \/ Configured(a) /\ mayFail /\ Fatal
     \/ Configured(a) /\ HandleFunc({LoginURL(a)} \cup patterns) /\ RegisterAuthenticator(a)

\* A provider that does not answer is an error.
SetupOIDC == SetupAuthenticator("oidc", TRUE, {})

\* So are a key pair or a metadata document that cannot be read; the handler registers
\* the route of its own metadata on the way.
SetupSaml == SetupAuthenticator("saml", TRUE, {MetadataPath})

SetupPassword == SetupAuthenticator("password", TRUE, {})

SetupAnonymous == SetupAuthenticator("anonymous", FALSE, {})

\* NewKindsProxy and NewKubeAPIProxy may fail.
SetupProxy ==
  /\ At("proxy")
  /\ \/ Fatal
     \/ /\ HandleFunc({<<"proxy", p>> : p \in {"swagger", "kinds", "namespaces", "resources", "accessreview", ""}})
        /\ UNCHANGED <<authenticators, loginMethods>>

\* A directory that cannot be read counts as one without templates.
SetupTemplates ==
  /\ At("templates") /\ HandleFunc({<<"templates", "">>, <<"templates", "/">>})
  /\ UNCHANGED <<authenticators, loginMethods>>

\* NewMetricsProvider makes the first summary itself: a pod without network statistics
\* is a panic (see Metrics) that ends the process.
SetupMetrics ==
  /\ At("metrics")
  /\ \/ Fatal
     \/ HandleFunc({<<"metrics", "">>}) /\ UNCHANGED <<authenticators, loginMethods>>

SetupUI ==
  /\ At("ui") /\ HandleFunc({<<"version", "">>, <<"", "">>})
  /\ UNCHANGED <<authenticators, loginMethods>>

\* The address may be in use; the redirect port is not looked at.
Listen ==
  /\ process = "starting" /\ step > Len(Step)
  /\ \/ Fatal
     \/ /\ process' = "listening"
        /\ listener' = IF "disable-tls" \in flags THEN "plain" ELSE IF "same-port" \in flags THEN "split" ELSE "tls"
        /\ UNCHANGED <<flags, step, routes, authenticators, loginMethods>>

StartNext ==
  \/ SetupClients \/ NewAuthManager \/ SetupProxy \/ SetupTemplates \/ SetupMetrics \/ SetupUI \/ Listen
  \/ SetupOIDC \/ SetupSaml \/ SetupPassword \/ SetupAnonymous
-----------------------------------------------------------------------------
\* A server that listens offers every authenticator its flags configure, and only
\* these: each is in the answer of /auth/login_methods and each has its route, whatever
\* was left out with a warning on the way (setupAuthenticators, RegisterAuthenticator).
OffersWhatIsConfigured ==
  process = "listening" =>
    /\ loginMethods = {a \in Authenticator : Configured(a)}
    /\ \A a \in Authenticator : a \in loginMethods <=> LoginURL(a) \in routes
=============================================================================
