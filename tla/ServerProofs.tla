---------------------------- MODULE ServerProofs ----------------------------
(***************************************************************************)
(* Proofs about the parts of the server that MCServer runs: the cache of   *)
(* kinds for any readers and kinds, the start for the flags and the steps  *)
(* it has, a proxied connection for any number of chunks, the loop of the  *)
(* metrics, and sessions for any logins, any timeout and any delay of a    *)
(* call up to a quarter of it.                                             *)
(***************************************************************************)
EXTENDS MCServer, FiniteSetTheorems, TLAPS

(* The cache of kinds. *)

\* A step of the updater or of a reader keeps the invariant.
LEMMA KindsStep == IInv /\ [Next]_vars => IInv'
<1> SUFFICES ASSUME IInv, [Next]_vars PROVE IInv'
  OBVIOUS
<1> USE DEF IInv, TypeOK, MutualExclusion, Holders, Blocked, Writing
<1>1. ASSUME NEW D \in SUBSET Resource, Discover(D) PROVE IInv'
  BY <1>1 DEF Discover, MapsOf
<1>2. CASE LockPending BY <1>2 DEF LockPending
<1>3. CASE Lock BY <1>3 DEF Lock, Pending
<1>4. CASE PublishResponse BY <1>4 DEF PublishResponse
<1>5. CASE PublishKinds BY <1>5 DEF PublishKinds
<1>6. ASSUME NEW r \in Reader, RLock(r) PROVE IInv'
  BY <1>6 DEF RLock, Pending
<1>7. ASSUME NEW r \in Reader, RUnlock(r) PROVE IInv'
  BY <1>7 DEF RUnlock
<1>8. ASSUME NEW r \in Reader, BlockForEver(r) PROVE IInv'
  BY <1>8 DEF BlockForEver
<1>9. CASE UNCHANGED vars BY <1>9 DEF vars
<1> QED BY <1>1, <1>2, <1>3, <1>4, <1>5, <1>6, <1>7, <1>8, <1>9 DEF Next, Update

\* What NewKindsProxy leaves satisfies the invariant.
LEMMA KindsStart == Init => IInv
  BY DEF Init, IInv, TypeOK, MutualExclusion, Holders, Blocked, Writing, MapsOf

\* The lock protects both cached values in every behaviour.
THEOREM KindsInvariance == Spec => []IInv
  BY KindsStart, KindsStep, PTL DEF Spec

\* No handler reads while update writes.
THEOREM Exclusion == Spec => []MutualExclusion
  <1>1. IInv => MutualExclusion BY DEF IInv
  <1> QED BY <1>1, KindsInvariance, PTL

\* A handler under the read lock finds kinds and response of one update.
THEOREM Consistency == Spec => []PublishedTogether
  <1>1. IInv => PublishedTogether
    BY DEF IInv, PublishedTogether, MutualExclusion, Writing
  <1> QED BY <1>1, KindsInvariance, PTL

\* No step changes a cached value under a handler that holds the read lock.
THEOREM StableLoop == Spec => LoopSeesOneMap
  <1>1. IInv /\ [Next]_vars => [Holders # {} => UNCHANGED <<kinds, response>>]_vars
    BY DEF IInv, MutualExclusion, Writing, Next, Update, vars, Discover, LockPending,
           Lock, PublishResponse, PublishKinds, RLock, RUnlock, BlockForEver
  <1> QED BY <1>1, KindsInvariance, PTL DEF Spec, LoopSeesOneMap
-----------------------------------------------------------------------------
(* The start of the server: what is registered is at every step what the flags
   configure among the authenticators whose step is over. *)

StartSpec == StartInit /\ [][StartNext]_startVars

\* The number of the step of an authenticator.
StepOf == [oidc |-> 3, saml |-> 4, password |-> 5, anonymous |-> 6]

\* The authenticators whose step is over and that are configured.
Passed == {a \in Authenticator : StepOf[a] < step /\ Configured(a)}

\* The routes below /auth/<type> that are authenticators' are those registered.
RoutesOfPassed == \A a \in Authenticator : a \in authenticators <=> LoginURL(a) \in routes

StartInv ==
  /\ step \in 1..11
  /\ authenticators = Passed
  /\ loginMethods = authenticators
  /\ RoutesOfPassed
  /\ process = "listening" => step = 11

\* Which number a step has.
LEMMA Numbered ==
  ASSUME StartInv, NEW name \in {"clients", "manager", "oidc", "saml", "password", "anonymous", "proxy", "templates", "metrics", "ui"}, At(name)
  PROVE  /\ step \in 1..10 /\ process = "starting" /\ Step[step] = name
         /\ \A a \in Authenticator : (a = name) <=> (StepOf[a] = step)
<1>1. Len(Step) = 10
  BY DEF Step
<1>2. step \in 1..10 /\ process = "starting" /\ Step[step] = name
  BY <1>1 DEF At, StartInv
<1>3. \/ step = 1 /\ name = "clients"
      \/ step = 2 /\ name = "manager"
      \/ step = 3 /\ name = "oidc"
      \/ step = 4 /\ name = "saml"
      \/ step = 5 /\ name = "password"
      \/ step = 6 /\ name = "anonymous"
      \/ step = 7 /\ name = "proxy"
      \/ step = 8 /\ name = "templates"
      \/ step = 9 /\ name = "metrics"
      \/ step = 10 /\ name = "ui"
  BY <1>2 DEF Step
<1>4. \A a \in Authenticator : (a = name) <=> (StepOf[a] = step)
  BY <1>3 DEF Authenticator, StepOf
<1>5. QED
  BY <1>2, <1>4

\* The process ends: nothing else changes.
LEMMA FatalStep ==
  ASSUME StartInv, Fatal
  PROVE  StartInv'
BY DEF StartInv, Fatal, Passed, Configured, RoutesOfPassed

\* A step of no authenticator, or of one that is not configured, with other routes.
LEMMA OtherStep ==
  ASSUME StartInv, step \in 1..10, process = "starting", NEW patterns,
         \A a \in Authenticator : StepOf[a] = step => ~Configured(a),
         \A a \in Authenticator : LoginURL(a) \notin patterns,
         step' = step + 1, routes' = routes \cup patterns, process' # "listening",
         flags' = flags, authenticators' = authenticators, loginMethods' = authenticators
  PROVE  StartInv'
<1>1. \A a \in Authenticator : StepOf[a] \in Nat /\ (Configured(a)' <=> Configured(a))
  BY DEF Configured, Authenticator, StepOf
<1>2. \A a \in Authenticator : (StepOf[a] < step' /\ Configured(a)) <=> (StepOf[a] < step /\ Configured(a))
  BY <1>1
<1>3. Passed' = Passed
  BY <1>1, <1>2 DEF Passed
<1>4. RoutesOfPassed'
  BY DEF StartInv, RoutesOfPassed, LoginURL
<1>5. QED
  BY <1>3, <1>4 DEF StartInv

\* The step of an authenticator that is configured.
LEMMA AuthenticatorStep ==
  ASSUME StartInv, NEW a \in Authenticator, At(a), NEW patterns, NEW mayFail \in BOOLEAN,
         \A b \in Authenticator : LoginURL(b) \notin patterns,
         SetupAuthenticator(a, mayFail, patterns)
  PROVE  StartInv'
<1>1. /\ step \in 1..10 /\ process = "starting"
      /\ \A b \in Authenticator : (b = a) <=> (StepOf[b] = step)
  BY Numbered DEF Authenticator
<1>2. CASE ~Configured(a) /\ Skip
  <2> DEFINE P == {}
  <2>1. /\ step' = step + 1 /\ routes' = routes \cup P /\ process' # "listening"
        /\ flags' = flags /\ authenticators' = authenticators /\ loginMethods' = authenticators
    BY <1>1, <1>2 DEF Skip, StartInv
  <2>2. \A b \in Authenticator : StepOf[b] = step => ~Configured(b)
    BY <1>1, <1>2
  <2>3. \A b \in Authenticator : LoginURL(b) \notin P
    OBVIOUS
  <2> HIDE DEF P
  <2>4. QED
    BY <1>1, <2>1, <2>2, <2>3, OtherStep
<1>3. CASE Fatal
  BY <1>3, FatalStep
<1>4. CASE Configured(a) /\ HandleFunc({LoginURL(a)} \cup patterns) /\ RegisterAuthenticator(a)
  <2>1. /\ step' = step + 1 /\ routes' = routes \cup ({LoginURL(a)} \cup patterns) /\ flags' = flags
        /\ process' # "listening" /\ authenticators' = authenticators \cup {a} /\ loginMethods' = authenticators'
    BY <1>1, <1>4 DEF HandleFunc, RegisterAuthenticator
  <2>2. \A b \in Authenticator : StepOf[b] \in Nat /\ (Configured(b)' <=> Configured(b))
    BY <2>1 DEF Configured, Authenticator, StepOf
  <2>3. \A b \in Authenticator : (StepOf[b] < step' /\ Configured(b)) <=> (b = a \/ (StepOf[b] < step /\ Configured(b)))
    BY <1>1, <1>4, <2>1, <2>2
  <2>4. Passed' = Passed \cup {a}
    <3>1. Passed' = {b \in Authenticator : StepOf[b] < step' /\ Configured(b)}
      BY <2>2 DEF Passed
    <3>2. \A b \in Authenticator : b \in Passed <=> StepOf[b] < step /\ Configured(b)
      BY DEF Passed
    <3>3. \A b \in Authenticator : b \in Passed' <=> StepOf[b] < step' /\ Configured(b)
      BY <3>1
    <3>4. Passed \subseteq Authenticator /\ Passed' \subseteq Authenticator
      BY DEF Passed
    <3>5. \A b \in Authenticator : b \in Passed' <=> (b = a \/ b \in Passed)
      BY <2>3, <3>2, <3>3
    <3>6. QED
      BY <3>4, <3>5
  <2>5. \A b \in Authenticator : LoginURL(b) = LoginURL(a) <=> b = a
    BY DEF LoginURL
  <2>6. \A b \in Authenticator : LoginURL(b)' = LoginURL(b)
    BY DEF LoginURL
  <2>7. RoutesOfPassed'
    BY <2>1, <2>5, <2>6 DEF StartInv, RoutesOfPassed
  <2>8. QED
    BY <1>1, <2>1, <2>4, <2>7 DEF StartInv
<1>5. QED
  BY <1>2, <1>3, <1>4 DEF SetupAuthenticator

\* The steps that register other routes, and the one that registers none.
LEMMA PlainStep ==
  ASSUME StartInv, NEW name \in {"clients", "manager", "proxy", "templates", "metrics", "ui"}, At(name),
         NEW patterns, \A a \in Authenticator : LoginURL(a) \notin patterns,
         step' = step + 1, routes' = routes \cup patterns, process' # "listening",
         flags' = flags, authenticators' = authenticators, loginMethods' = authenticators
  PROVE  StartInv'
<1>1. /\ step \in 1..10 /\ process = "starting"
      /\ \A a \in Authenticator : (a = name) <=> (StepOf[a] = step)
  BY Numbered
<1>2. \A a \in Authenticator : StepOf[a] # step
  BY <1>1 DEF Authenticator
<1>3. QED
  BY <1>1, <1>2, OtherStep

\* Every step keeps the invariant.
LEMMA StartStep ==
  ASSUME StartInv, [StartNext]_startVars
  PROVE  StartInv'
<1>1. CASE SetupClients
  <2>1. CASE Fatal
    BY <2>1, FatalStep
  <2>2. CASE Skip
    <3>1. At("clients") /\ process = "starting"
      BY <1>1 DEF SetupClients, At
    <3> DEFINE P == {}
    <3>2. /\ step' = step + 1 /\ routes' = routes \cup P /\ process' # "listening"
          /\ flags' = flags /\ authenticators' = authenticators /\ loginMethods' = authenticators
      BY <2>2, <3>1 DEF Skip, StartInv
    <3>3. \A b \in Authenticator : LoginURL(b) \notin P
      OBVIOUS
    <3> HIDE DEF P
    <3>4. QED
      BY <3>1, <3>2, <3>3, PlainStep
  <2>3. QED
    BY <1>1, <2>1, <2>2 DEF SetupClients
<1>2. CASE NewAuthManager
  <2> DEFINE P == {<<"auth", "login_methods">>, <<"auth", "user_info">>}
  <2>1. At("manager") /\ process = "starting"
    BY <1>2 DEF NewAuthManager, At
  <2>2. /\ step' = step + 1 /\ routes' = routes \cup P /\ process' # "listening"
        /\ flags' = flags /\ authenticators' = authenticators /\ loginMethods' = authenticators
    BY <1>2, <2>1 DEF NewAuthManager, HandleFunc
  <2>3. \A a \in Authenticator : LoginURL(a) \notin P
    BY DEF Authenticator, LoginURL
  <2> HIDE DEF P
  <2>4. QED
    BY <2>1, <2>2, <2>3, PlainStep
<1>3. CASE SetupProxy
  <2> DEFINE P == {<<"proxy", p>> : p \in {"swagger", "kinds", "namespaces", "resources", "accessreview", ""}}
  <2>1. CASE Fatal
    BY <2>1, FatalStep
  <2>2. CASE HandleFunc(P) /\ UNCHANGED <<authenticators, loginMethods>>
    <3>1. At("proxy") /\ process = "starting"
      BY <1>3 DEF SetupProxy, At
    <3>2. /\ step' = step + 1 /\ routes' = routes \cup P /\ process' # "listening"
          /\ flags' = flags /\ authenticators' = authenticators /\ loginMethods' = authenticators
      BY <2>2, <3>1 DEF HandleFunc, StartInv
    <3>3. \A a \in Authenticator : LoginURL(a) \notin P
      BY DEF Authenticator, LoginURL
    <3> HIDE DEF P
    <3>4. QED
      BY <3>1, <3>2, <3>3, PlainStep
  <2>3. QED
    BY <1>3, <2>1, <2>2 DEF SetupProxy
<1>4. ASSUME NEW name \in {"templates", "metrics", "ui"}, At(name),
             NEW P, P \subseteq {<<"templates", "">>, <<"templates", "/">>, <<"metrics", "">>, <<"version", "">>, <<"", "">>},
             HandleFunc(P), UNCHANGED <<authenticators, loginMethods>>
      PROVE  StartInv'
  <2>1. /\ step' = step + 1 /\ routes' = routes \cup P /\ process' # "listening"
        /\ flags' = flags /\ authenticators' = authenticators /\ loginMethods' = authenticators
    BY <1>4 DEF HandleFunc, StartInv, At
  <2>2. \A a \in Authenticator : LoginURL(a) \notin P
    BY <1>4 DEF Authenticator, LoginURL
  <2>3. QED
    BY <1>4, <2>1, <2>2, PlainStep
<1>5. CASE SetupTemplates
  BY <1>4, <1>5 DEF SetupTemplates
<1>6. CASE SetupMetrics
  BY <1>4, <1>6, FatalStep DEF SetupMetrics
<1>7. CASE SetupUI
  BY <1>4, <1>7 DEF SetupUI
<1>8. CASE Listen
  <2>1. CASE Fatal
    BY <2>1, FatalStep
  <2>2. CASE process' = "listening" /\ UNCHANGED <<flags, step, routes, authenticators, loginMethods>>
    <3>1. Len(Step) = 10
      BY DEF Step
    <3>2. step = 11
      BY <1>8, <3>1 DEF Listen, StartInv
    <3>3. QED
      BY <2>2, <3>2 DEF StartInv, Passed, Configured, RoutesOfPassed
  <2>3. QED
    BY <1>8, <2>1, <2>2 DEF Listen
<1>9. CASE SetupOIDC \/ SetupPassword \/ SetupAnonymous
  <2>1. PICK a \in Authenticator, mayFail \in BOOLEAN : SetupAuthenticator(a, mayFail, {})
    BY <1>9 DEF SetupOIDC, SetupPassword, SetupAnonymous, Authenticator
  <2>2. At(a) /\ \A b \in Authenticator : LoginURL(b) \notin {}
    BY <2>1 DEF SetupAuthenticator
  <2>3. QED
    BY <2>1, <2>2, AuthenticatorStep
<1>10. CASE SetupSaml
  <2>1. SetupAuthenticator("saml", TRUE, {MetadataPath}) /\ At("saml") /\ "saml" \in Authenticator
    BY <1>10 DEF SetupSaml, SetupAuthenticator, Authenticator
  <2>2. \A b \in Authenticator : LoginURL(b) \notin {MetadataPath}
    BY DEF LoginURL, MetadataPath
  <2>3. QED
    BY <2>1, <2>2, AuthenticatorStep
<1>11. CASE UNCHANGED startVars
  BY <1>11 DEF startVars, StartInv, Passed, Configured, RoutesOfPassed
<1>12. QED
  BY <1>1, <1>2, <1>3, <1>5, <1>6, <1>7, <1>8, <1>9, <1>10, <1>11 DEF StartNext

\* A server that listens offers the authenticators its flags configure and no other, each
\* with its route (setupAuthenticators, RegisterAuthenticator).
THEOREM OffersConfigured == StartSpec => []OffersWhatIsConfigured
<1>1. StartInit => StartInv
  <2> SUFFICES ASSUME StartInit PROVE StartInv
    OBVIOUS
  <2>1. Passed = {}
    BY DEF StartInit, Passed, Authenticator, StepOf
  <2>2. QED
    BY <2>1 DEF StartInit, StartInv, RoutesOfPassed
<1>2. StartInv /\ [StartNext]_startVars => StartInv'
  BY StartStep
<1>3. StartInv => OffersWhatIsConfigured
  <2> SUFFICES ASSUME StartInv, process = "listening" PROVE OffersWhatIsConfigured
    BY DEF OffersWhatIsConfigured
  <2>1. \A a \in Authenticator : StepOf[a] < step
    BY DEF StartInv, Authenticator, StepOf
  <2>2. Passed = {a \in Authenticator : Configured(a)}
    BY <2>1 DEF Passed
  <2>3. QED
    BY <2>2 DEF StartInv, RoutesOfPassed, OffersWhatIsConfigured
<1>4. QED
  BY <1>1, <1>2, <1>3, PTL DEF StartSpec
-----------------------------------------------------------------------------
(* A connection on its way to the API server. *)

ProxySpec == ProxyInit /\ [][ProxyNext]_proxyVars

\* The chunks are counted, and no more is reported than copiers have ended.
ChunksCounted ==
  /\ sent \in [End -> 0..MaxChunks] /\ taken \in [End -> 0..MaxChunks]
  /\ \A e \in End : taken[e] <= sent[e]

Ended == {e \in End : copier[e] = "ended"}
ReportsCounted == errc = 0 \/ (errc = 1 /\ Ended # {}) \/ (errc = 2 /\ Ended = End)

ProxyInv ==
  /\ ProxyTypeOK /\ ChunksCounted /\ ReportsCounted
  /\ ActsAsUser /\ request.headers \in Carried
  /\ serving \in {"accepted", "dialed"} => \A e \in End : copier[e] = "off"
  /\ serving = "accepted" => \A e \in End : conn[e] = "none"
  /\ serving = "dialed" => conn["pub"] = "none"
  /\ serving = "returned" => \A e \in End : conn[e] # "open"

\* A copier that has something to report finds room in errc, also when nobody receives.
ReportNeverBlocks == \A e \in End : copier[e] = "report" => errc < ErrcCapacity

\* A handler that has returned has left no connection open.
ReturnedIsClosed == serving = "returned" => \A e \in End : conn[e] # "open"

\* An accepted connection satisfies the invariant.
LEMMA ProxyStart == ASSUME ProxyInit PROVE ProxyInv
<1> USE ProxyAssumption DEF ProxyAssumption, ProxyInv, ProxyTypeOK, ChunksCounted, ReportsCounted, Ended, End
<1>0. 0 \in 0..ErrcCapacity /\ 0 \in 0..MaxChunks /\ 0 <= MaxChunks
  OBVIOUS
<1>1. /\ conn \in [End -> {"none", "open", "closed"}] /\ copier \in [End -> {"off", "read", "write", "report", "ended"}]
      /\ \A e \in End : conn[e] = "none" /\ copier[e] = "off"
  BY DEF ProxyInit
<1>2. sent \in [End -> 0..MaxChunks] /\ taken \in [End -> 0..MaxChunks] /\ \A e \in End : sent[e] = 0 /\ taken[e] = 0
  BY <1>0, Zenon DEF ProxyInit
<1>3. /\ serving = "accepted" /\ ActsAsUser /\ request.headers \in Carried
      /\ gone = {} /\ errc = 0 /\ errc \in 0..ErrcCapacity
  BY <1>0 DEF ProxyInit, ActsAsUser
<1> QED BY <1>1, <1>2, <1>3

\* What becomes of headers on the way to the API server.
Headers(auth, user1, groups1, extra) == [auth |-> auth, user |-> user1, groups |-> groups1, extra |-> extra]

LEMMA Impersonated ==
  ASSUME NEW h, h = Headers(h.auth, h.user, h.groups, h.extra), NEW v, v = Impersonate(h)
  PROVE  v = Headers(h.auth, SessionUser, SessionGroups, h.extra)
BY DEF Headers, Impersonate

LEMMA Authorized ==
  ASSUME NEW h, h = Headers(h.auth, h.user, h.groups, h.extra), NEW v, v = Authorize(h)
  PROVE  v = Headers(IF BearerToken THEN "server" ELSE h.auth, h.user, h.groups, h.extra)
BY DEF Headers, Authorize

LEMMA Stripped ==
  ASSUME NEW h, h = Headers(h.auth, h.user, h.groups, h.extra), NEW v, v = [h EXCEPT !.auth = "none"]
  PROVE  v = Headers("none", h.user, h.groups, h.extra)
BY DEF Headers

\* The fields of headers.
LEMMA HeadersAre ==
  ASSUME NEW a, NEW b, NEW c, NEW d, NEW h, h = Headers(a, b, c, d)
  PROVE  h.auth = a /\ h.user = b /\ h.groups = c /\ h.extra = d
BY DEF Headers

\* Either way the API server sees the session.
LEMMA SeesSession ==
  ASSUME NEW h, h = Headers(h.auth, h.user, h.groups, h.extra),
         NEW v, v = FilterRequest(h) \/ v = Director(Impersonate(h))
  PROVE  v.user = SessionUser /\ v.groups = SessionGroups /\ v.extra = h.extra /\ (BearerToken => v.auth = "server")
<1>1. CASE v = FilterRequest(h)
  <2> DEFINE g == Authorize(h)
  <2>1. g = Headers(IF BearerToken THEN "server" ELSE h.auth, h.user, h.groups, h.extra)
    BY Authorized
  <2>2. v = Impersonate(g)
    BY <1>1 DEF FilterRequest
  <2> HIDE DEF g
  <2>3. g.auth = (IF BearerToken THEN "server" ELSE h.auth) /\ g.user = h.user /\ g.groups = h.groups /\ g.extra = h.extra
    BY <2>1, HeadersAre
  <2>4. v = Headers(g.auth, SessionUser, SessionGroups, g.extra)
    BY <2>1, <2>2, <2>3, Impersonated
  <2> QED BY <2>3, <2>4, HeadersAre
<1>2. CASE v = Director(Impersonate(h))
  <2> DEFINE g == Impersonate(h)
             k == [g EXCEPT !.auth = "none"]
  <2>1. g = Headers(h.auth, SessionUser, SessionGroups, h.extra)
    BY Impersonated
  <2>2. v = Authorize(k)
    BY <1>2 DEF Director
  <2> HIDE DEF g
  <2>3. g.auth = h.auth /\ g.user = SessionUser /\ g.groups = SessionGroups /\ g.extra = h.extra
    BY <2>1, HeadersAre
  <2>4. k = Headers("none", SessionUser, SessionGroups, h.extra)
    BY <2>1, <2>3, Stripped
  <2> HIDE DEF k
  <2>5. k.auth = "none" /\ k.user = SessionUser /\ k.groups = SessionGroups /\ k.extra = h.extra
    BY <2>4, HeadersAre
  <2>6. v = Headers(IF BearerToken THEN "server" ELSE k.auth, k.user, k.groups, k.extra)
    BY <2>2, <2>4, <2>5, Authorized
  <2> QED BY <2>5, <2>6, HeadersAre
<1> QED BY <1>1, <1>2

\* A step of the handler, of a copier or of a peer keeps the invariant.
LEMMA ProxyStep == ProxyInv /\ [ProxyNext]_proxyVars => ProxyInv'
<1> USE ProxyAssumption DEF ProxyAssumption, ProxyInv, ProxyTypeOK, ChunksCounted, ReportsCounted, Ended, End
<1> SUFFICES ASSUME ProxyInv, [ProxyNext]_proxyVars PROVE ProxyInv'
  OBVIOUS
<1> DEFINE Asked(h) == /\ h.user = SessionUser /\ h.groups = SessionGroups /\ h.extra = request.headers.extra
                       /\ BearerToken => h.auth = "server"
<1>a. Asked(FilterRequest(request.headers)) /\ Asked(Director(Impersonate(request.headers)))
  <2> DEFINE h == request.headers
  <2>1. h = Headers(h.auth, h.user, h.groups, h.extra)
    BY DEF Headers
  <2> HIDE DEF h
  <2> QED BY <2>1, SeesSession DEF h
<1>b. ASSUME seenBy' = seenBy, request' = request PROVE ActsAsUser' /\ (request.headers \in Carried)'
  BY <1>b DEF ActsAsUser
<1>c. ASSUME \/ seenBy' = FilterRequest(request.headers)
             \/ seenBy' = Director(Impersonate(request.headers)),
             request' = request
      PROVE  ActsAsUser' /\ (request.headers \in Carried)'
  BY <1>a, <1>c DEF ActsAsUser
<1>1. CASE Redirect BY <1>1, <1>b DEF Redirect, socketVars
<1>2. CASE ServeHTTP BY <1>2, <1>c DEF ServeHTTP, socketVars
<1>3. CASE ServeMultiWatch BY <1>3, <1>c DEF ServeMultiWatch, socketVars
<1>4. CASE Dial BY <1>4, <1>c DEF Dial
<1>5. CASE Upgrade BY <1>5, <1>b DEF Upgrade
<1>6. CASE Finish BY <1>6, <1>b DEF Finish
<1>7. ASSUME NEW e \in End, CopierRead(e) PROVE ProxyInv'
  BY <1>7, <1>b DEF CopierRead
<1>8. ASSUME NEW e \in End, CopierWrite(e) PROVE ProxyInv'
  BY <1>8, <1>b DEF CopierWrite
<1>9. ASSUME NEW e \in End, CopierReports(e) PROVE ProxyInv'
  BY <1>9, <1>b DEF CopierReports
<1>10. ASSUME NEW e \in End, PeerSends(e) PROVE ProxyInv'
  BY <1>10, <1>b DEF PeerSends
<1>11. ASSUME NEW e \in End, PeerCloses(e) PROVE ProxyInv'
  BY <1>11, <1>b DEF PeerCloses
<1>12. CASE UNCHANGED proxyVars BY <1>12, <1>b DEF proxyVars
<1> QED
  BY <1>1, <1>2, <1>3, <1>4, <1>5, <1>6, <1>7, <1>8, <1>9, <1>10, <1>11, <1>12 DEF ProxyNext, Copier

\* The inductive invariant of a connection, for any number of chunks and any capacity of
\* errc.
THEOREM ProxyInvariance == ProxySpec => []ProxyInv
<1>1. ProxyInit => ProxyInv BY ProxyStart
<1> QED BY <1>1, ProxyStep, PTL DEF ProxySpec

\* On each way to the API server a request is made as the user and with the groups of
\* the session, for any headers it carries.
THEOREM ActsAsUserAlways == ProxySpec => []ActsAsUser
<1>1. ProxyInv => ActsAsUser BY DEF ProxyInv
<1> QED BY <1>1, ProxyInvariance, PTL

\* With room for two reports in errc no goroutine of a socket blocks on its report: what
\* keeps a copier from leaking when the handler has taken the other one's report.
THEOREM RoomForReports ==
  ASSUME ErrcCapacity >= 2 PROVE ProxySpec => []ReportNeverBlocks
<1>1. ProxyInv => ReportNeverBlocks
  BY ProxyAssumption DEF ProxyAssumption, ProxyInv, ReportNeverBlocks, ReportsCounted, Ended, End
<1> QED BY <1>1, ProxyInvariance, PTL

\* No path through the handler, a dial or an upgrade that fails included, leaves a
\* connection open.
THEOREM ConnectionsClosed == ProxySpec => []ReturnedIsClosed
<1>1. ProxyInv => ReturnedIsClosed BY DEF ProxyInv, ReturnedIsClosed
<1> QED BY <1>1, ProxyInvariance, PTL
-----------------------------------------------------------------------------
(* Sums of natural numbers: the units they have together. *)

\* Which pairs are units.
LEMMA UnitsAre ==
  ASSUME NEW f
  PROVE  /\ \A x, i : <<x, i>> \in Units(f) <=> x \in DOMAIN f /\ i \in 1..f[x]
         /\ \A u \in Units(f) : u = <<u[1], u[2]>> /\ u[1] \in DOMAIN f /\ u[2] \in 1..f[u[1]]
<1>1. ASSUME NEW x \in DOMAIN f, NEW i \in 1..f[x] PROVE <<x, i>> \in Units(f)
  <2>1. <<x, i>> \in {x} \X (1..f[x])
    BY <1>1
  <2> QED BY <2>1, Zenon DEF Units
<1>2. ASSUME NEW u \in Units(f) PROVE u = <<u[1], u[2]>> /\ u[1] \in DOMAIN f /\ u[2] \in 1..f[u[1]]
  <2>1. PICK x \in DOMAIN f : u \in {x} \X (1..f[x])
    BY <1>2, Zenon DEF Units
  <2>2. u = <<u[1], u[2]>> /\ u[1] = x /\ u[2] \in 1..f[x]
    BY <2>1
  <2> QED BY <2>2
<1>3. ASSUME NEW x, NEW i, <<x, i>> \in Units(f) PROVE x \in DOMAIN f /\ i \in 1..f[x]
  <2>1. <<x, i>>[1] = x /\ <<x, i>>[2] = i
    OBVIOUS
  <2> QED BY <1>2, <1>3, <2>1
<1> QED BY <1>1, <1>2, <1>3

\* Numbers in a finite set have a sum.
LEMMA SumTyped ==
  ASSUME NEW D, IsFiniteSet(D), NEW f \in [D -> Nat]
  PROVE  IsFiniteSet(Units(f)) /\ SumOver(f) \in Nat
<1> DEFINE piece(x) == {x} \X (1..f[x])
           parts == [x \in D |-> piece(x)]
           all == {piece(x) : x \in D}
<1>1. \A x \in D : IsFiniteSet(piece(x))
  <2> SUFFICES ASSUME NEW x \in D PROVE IsFiniteSet({x} \X (1..f[x]))
    OBVIOUS
  <2>1. IsFiniteSet({x})
    BY FS_Singleton, Zenon
  <2>2. IsFiniteSet(1..f[x])
    <3>1. f[x] \in Int
      OBVIOUS
    <3> QED BY <3>1, FS_Interval
  <2> QED BY <2>1, <2>2, FS_Product, Zenon
<1>2. parts \in Surjection(D, all)
  <2> HIDE DEF piece
  <2> QED BY DEF Surjection
<1>3. IsFiniteSet(all)
  BY <1>2, FS_Surjection
<1>4. \A T \in all : IsFiniteSet(T)
  BY <1>1
<1>5. Units(f) = UNION all
  BY DEF Units
<1> HIDE DEF all
<1>6. IsFiniteSet(Units(f))
  BY <1>3, <1>4, <1>5, FS_UNION
<1> QED BY <1>6, FS_CardinalityType DEF SumOver

\* Numbers that are left out or 0 do not count.
LEMMA SumZeros ==
  ASSUME NEW f, NEW g, DOMAIN f \subseteq DOMAIN g, \A x \in DOMAIN f : g[x] = f[x], \A x \in DOMAIN g \ DOMAIN f : g[x] = 0
  PROVE  SumOver(g) = SumOver(f)
<1>1. ASSUME NEW u \in Units(g) PROVE u \in Units(f)
  <2>1. u = <<u[1], u[2]>> /\ u[1] \in DOMAIN g /\ u[2] \in 1..g[u[1]]
    BY <1>1, UnitsAre
  <2>2. u[1] \in DOMAIN f
    BY <2>1
  <2>3. <<u[1], u[2]>> \in Units(f)
    BY <2>1, <2>2, UnitsAre
  <2> QED BY <2>1, <2>3
<1>2. ASSUME NEW u \in Units(f) PROVE u \in Units(g)
  <2>1. u = <<u[1], u[2]>> /\ u[1] \in DOMAIN f /\ u[2] \in 1..f[u[1]]
    BY <1>2, UnitsAre
  <2>2. <<u[1], u[2]>> \in Units(g)
    BY <2>1, UnitsAre
  <2> QED BY <2>1, <2>2
<1>3. Units(f) = Units(g)
  BY <1>1, <1>2
<1> QED BY <1>3 DEF SumOver

\* The sum of one number.
LEMMA SumSingle ==
  ASSUME NEW x, NEW f \in [{x} -> Nat]
  PROVE  SumOver(f) = f[x]
<1>1. f[x] \in Nat /\ DOMAIN f = {x}
  OBVIOUS
<1>2. Units(f) = {x} \X (1..f[x])
  BY <1>1, Zenon DEF Units
<1>3. IsFiniteSet({x}) /\ Cardinality({x}) = 1
  BY FS_Singleton, Zenon
<1> DEFINE n == f[x]
<1>4. n \in Nat
  BY <1>1
<1> HIDE DEF n
<1>5. IsFiniteSet(1..n) /\ Cardinality(1..n) = n
  BY <1>4, FS_Interval
<1>6. Cardinality({x} \X (1..n)) = 1 * n
  <2>1. Cardinality({x} \X (1..n)) = Cardinality({x}) * Cardinality(1..n)
    BY <1>3, <1>5, FS_Product, Zenon
  <2> QED BY <1>3, <1>5, <2>1, Zenon
<1> QED BY <1>2, <1>4, <1>6 DEF SumOver, n

\* The sum over two sets, which may overlap.
LEMMA SumUnion ==
  ASSUME NEW A, NEW B, IsFiniteSet(A), IsFiniteSet(B), NEW f \in [A \cup B -> Nat], NEW g \in [A -> Nat], NEW h \in [B -> Nat],
         \A x \in A : f[x] = g[x], \A x \in B : f[x] = h[x]
  PROVE  /\ SumOver(f) <= SumOver(g) + SumOver(h)
         /\ A \cap B = {} => SumOver(f) = SumOver(g) + SumOver(h)
<1>1. ASSUME NEW u \in Units(f) PROVE u \in Units(g) \cup Units(h)
  <2>1. u = <<u[1], u[2]>> /\ u[1] \in A \cup B /\ u[2] \in 1..f[u[1]]
    BY <1>1, UnitsAre
  <2>2. <<u[1], u[2]>> \in Units(g) \/ <<u[1], u[2]>> \in Units(h)
    BY <2>1, UnitsAre
  <2> QED BY <2>1, <2>2
<1>2. ASSUME NEW u \in Units(g) PROVE u \in Units(f) /\ u[1] \in A
  <2>1. u = <<u[1], u[2]>> /\ u[1] \in A /\ u[2] \in 1..g[u[1]]
    BY <1>2, UnitsAre
  <2>2. <<u[1], u[2]>> \in Units(f)
    BY <2>1, UnitsAre
  <2> QED BY <2>1, <2>2
<1>3. ASSUME NEW u \in Units(h) PROVE u \in Units(f) /\ u[1] \in B
  <2>1. u = <<u[1], u[2]>> /\ u[1] \in B /\ u[2] \in 1..h[u[1]]
    BY <1>3, UnitsAre
  <2>2. <<u[1], u[2]>> \in Units(f)
    BY <2>1, UnitsAre
  <2> QED BY <2>1, <2>2
<1>4. Units(f) = Units(g) \cup Units(h)
  BY <1>1, <1>2, <1>3
<1>5. IsFiniteSet(Units(g)) /\ IsFiniteSet(Units(h)) /\ SumOver(g) \in Nat /\ SumOver(h) \in Nat
  BY SumTyped
<1> DEFINE both == Units(g) \cap Units(h)
<1>6. SumOver(f) = SumOver(g) + SumOver(h) - Cardinality(both)
  BY <1>4, <1>5, FS_Union DEF SumOver
<1>7. IsFiniteSet(both) /\ Cardinality(both) \in Nat
  BY <1>5, FS_Intersection, FS_CardinalityType
<1>8. A \cap B = {} => both = {}
  BY <1>2, <1>3
<1> HIDE DEF both
<1>9. A \cap B = {} => Cardinality(both) = 0
  BY <1>8, FS_EmptySet
<1> QED BY <1>5, <1>6, <1>7, <1>9

\* The sum of sums of two numbers each.
LEMMA SumPlus ==
  ASSUME NEW D, IsFiniteSet(D), NEW f \in [D -> Nat], NEW g \in [D -> Nat], NEW h \in [D -> Nat], \A x \in D : h[x] = f[x] + g[x]
  PROVE  SumOver(h) = SumOver(f) + SumOver(g)
<1> DEFINE rest == Units(h) \ Units(f)
           shift == [u \in Units(g) |-> <<u[1], u[2] + f[u[1]]>>]
<1>1. \A x \in D : f[x] \in Nat /\ g[x] \in Nat /\ h[x] \in Nat
  OBVIOUS
<1>2. ASSUME NEW u \in Units(f) PROVE u \in Units(h)
  <2>1. u = <<u[1], u[2]>> /\ u[1] \in D /\ u[2] \in 1..f[u[1]]
    BY <1>2, UnitsAre
  <2>2. u[2] \in 1..h[u[1]]
    BY <1>1, <2>1
  <2>3. <<u[1], u[2]>> \in Units(h)
    BY <2>1, <2>2, UnitsAre
  <2> QED BY <2>1, <2>3
<1>3. ASSUME NEW u \in Units(g) PROVE shift[u] \in rest
  <2>1. u[1] \in D /\ u[2] \in 1..g[u[1]]
    BY <1>3, UnitsAre
  <2>2. u[2] + f[u[1]] \in 1..h[u[1]] /\ u[2] + f[u[1]] \notin 1..f[u[1]]
    BY <1>1, <2>1
  <2>3. <<u[1], u[2] + f[u[1]]>> \in Units(h) /\ <<u[1], u[2] + f[u[1]]>> \notin Units(f)
    BY <2>1, <2>2, UnitsAre
  <2> QED BY <1>3, <2>3
<1>4. ASSUME NEW u \in Units(g), NEW v \in Units(g), shift[u] = shift[v] PROVE u = v
  <2>1. u = <<u[1], u[2]>> /\ u[1] \in D /\ u[2] \in 1..g[u[1]] /\ v = <<v[1], v[2]>> /\ v[1] \in D /\ v[2] \in 1..g[v[1]]
    BY <1>4, UnitsAre
  <2>2. <<u[1], u[2] + f[u[1]]>> = <<v[1], v[2] + f[v[1]]>>
    BY <1>4
  <2>3. u[1] = v[1] /\ u[2] + f[u[1]] = v[2] + f[v[1]]
    BY <2>2
  <2>4. u[2] = v[2]
    BY <1>1, <2>1, <2>3
  <2> QED BY <2>1, <2>3, <2>4
<1>5. ASSUME NEW u \in rest PROVE \E v \in Units(g) : shift[v] = u
  <2>1. u = <<u[1], u[2]>> /\ u[1] \in D /\ u[2] \in 1..h[u[1]]
    BY <1>5, UnitsAre
  <2>2. u[2] \notin 1..f[u[1]]
    BY <1>5, <2>1, UnitsAre
  <2> DEFINE i == u[2] - f[u[1]]
  <2>3. i \in 1..g[u[1]] /\ i + f[u[1]] = u[2]
    BY <1>1, <2>1, <2>2
  <2> HIDE DEF i
  <2>4. <<u[1], i>> \in Units(g)
    BY <2>1, <2>3, UnitsAre
  <2>5. shift[<<u[1], i>>] = <<u[1], i + f[u[1]]>>
    BY <2>4
  <2> QED BY <2>1, <2>3, <2>4, <2>5
<1>6. shift \in [Units(g) -> rest]
  BY <1>3
<1> HIDE DEF shift, rest
<1>7. shift \in Bijection(Units(g), rest)
  BY <1>4, <1>5, <1>6 DEF Bijection, Injection, Surjection, IsInjective
<1>8. IsFiniteSet(Units(f)) /\ IsFiniteSet(Units(g)) /\ IsFiniteSet(Units(h)) /\ SumOver(f) \in Nat /\ SumOver(g) \in Nat /\ SumOver(h) \in Nat
  BY SumTyped
<1>9. Cardinality(rest) = SumOver(g)
  BY <1>7, <1>8, FS_Bijection DEF ExistsBijection, SumOver
<1>10. Units(h) \cap Units(f) = Units(f)
  BY <1>2
<1>11. Cardinality(rest) = Cardinality(Units(h)) - Cardinality(Units(f))
  <2>1. Cardinality(Units(h) \ Units(f)) = Cardinality(Units(h)) - Cardinality(Units(h) \cap Units(f))
    BY <1>8, FS_Difference, Zenon
  <2> QED BY <1>10, <2>1, Zenon DEF rest
<1> QED BY <1>8, <1>9, <1>11 DEF SumOver

\* Numbers summed by a key of theirs have the same sum.
ByKey(w, key, K) == [k \in K |-> SumOver([p \in {q \in DOMAIN w : key[q] = k} |-> w[p]])]
LEMMA SumByKey ==
  ASSUME NEW P, IsFiniteSet(P), NEW w \in [P -> Nat], NEW K, NEW key, \A p \in P : key[p] \in K
  PROVE  SumOver(ByKey(w, key, K)) = SumOver(w)
<1> DEFINE v == ByKey(w, key, K)
           at(k) == {q \in P : key[q] = k}
           piece(k) == [p \in at(k) |-> w[p]]
<1>1. \A k \in K : IsFiniteSet(at(k)) /\ piece(k) \in [at(k) -> Nat]
  BY FS_Subset
<1>2. \A k \in K : IsFiniteSet(Units(piece(k)))
  BY <1>1, SumTyped
<1>3. DOMAIN v = K /\ \A k \in K : v[k] = Cardinality(Units(piece(k)))
  BY DEF SumOver, ByKey
<1> HIDE DEF v
<1>4. \A p \in P, k \in K : p \in at(k) <=> key[p] = k
  OBVIOUS
<1>5. \A k \in K : \A p, i : <<p, i>> \in Units(piece(k)) <=> p \in P /\ key[p] = k /\ i \in 1..w[p]
  <2> SUFFICES ASSUME NEW k \in K, NEW p, NEW i PROVE <<p, i>> \in Units(piece(k)) <=> p \in P /\ key[p] = k /\ i \in 1..w[p]
    OBVIOUS
  <2>1. DOMAIN piece(k) = at(k) /\ \A q \in at(k) : piece(k)[q] = w[q]
    OBVIOUS
  <2>2. p \in at(k) <=> p \in P /\ key[p] = k
    OBVIOUS
  <2> HIDE DEF at, piece
  <2> QED BY <2>1, <2>2, UnitsAre
<1>6. \A k \in K : \A u \in Units(piece(k)) : u = <<u[1], u[2]>>
  BY UnitsAre
<1> DEFINE U(k) == Units(piece(k))
<1>7. \A k \in K : ExistsBijection(1..Cardinality(U(k)), U(k))
  BY <1>2, FS_CardinalityType
<1> HIDE DEF at, piece
<1> DEFINE nth == [k \in K |-> CHOOSE b : b \in Bijection(1..Cardinality(U(k)), U(k))]
           place == [u \in Units(v) |-> nth[u[1]][u[2]]]
<1>8. \A k \in K : nth[k] \in Bijection(1..v[k], U(k))
  BY <1>3, <1>7 DEF ExistsBijection
<1> HIDE DEF nth
<1>9. ASSUME NEW u \in Units(v)
       PROVE  u = <<u[1], u[2]>> /\ u[1] \in K /\ u[2] \in 1..v[u[1]] /\ place[u] \in U(u[1]) /\ place[u] = nth[u[1]][u[2]]
  <2>1. u = <<u[1], u[2]>> /\ u[1] \in K /\ u[2] \in 1..v[u[1]]
    BY <1>3, <1>9, UnitsAre
  <2>2. nth[u[1]] \in [1..v[u[1]] -> U(u[1])]
    BY <1>8, <2>1 DEF Bijection, Injection
  <2> QED BY <1>9, <2>1, <2>2
<1>10. ASSUME NEW u \in Units(v) PROVE place[u] \in Units(w) /\ key[place[u][1]] = u[1]
  <2> DEFINE t == place[u]
  <2>1. u[1] \in K /\ t \in U(u[1])
    BY <1>9, <1>10
  <2> HIDE DEF t, place
  <2>2. t = <<t[1], t[2]>>
    BY <1>6, <2>1
  <2>3. t[1] \in P /\ key[t[1]] = u[1] /\ t[2] \in 1..w[t[1]]
    BY <1>5, <2>1, <2>2
  <2>4. <<t[1], t[2]>> \in Units(w)
    BY <2>3, UnitsAre
  <2> QED BY <2>2, <2>3, <2>4 DEF t
<1>11. ASSUME NEW t \in Units(w) PROVE \E u \in Units(v) : place[u] = t
  <2>1. t = <<t[1], t[2]>> /\ t[1] \in P /\ t[2] \in 1..w[t[1]]
    BY <1>11, UnitsAre
  <2> DEFINE k == key[t[1]]
  <2>2. k \in K /\ t \in U(k)
    BY <1>5, <2>1
  <2> HIDE DEF k
  <2>3. PICK i \in 1..v[k] : nth[k][i] = t
    BY <1>8, <2>2 DEF Bijection, Surjection
  <2>4. <<k, i>> \in Units(v)
    BY <1>3, <2>2, UnitsAre
  <2>5. place[<<k, i>>] = nth[k][i]
    BY <2>4
  <2> QED BY <2>3, <2>4, <2>5
<1>12. ASSUME NEW u \in Units(v), NEW t \in Units(v), place[u] = place[t] PROVE u = t
  <2>1. u[1] = t[1]
    BY <1>10, <1>12
  <2>2. /\ u = <<u[1], u[2]>> /\ u[1] \in K /\ u[2] \in 1..v[u[1]] /\ place[u] = nth[u[1]][u[2]]
        /\ t = <<t[1], t[2]>> /\ t[2] \in 1..v[t[1]] /\ place[t] = nth[t[1]][t[2]]
    BY <1>9, <1>12
  <2> HIDE DEF place
  <2>3. nth[u[1]] \in Bijection(1..v[u[1]], U(u[1]))
    BY <1>8, <2>2
  <2>4. \A i, j \in 1..v[u[1]] : nth[u[1]][i] = nth[u[1]][j] => i = j
    BY <2>3 DEF Bijection, Injection, IsInjective
  <2>5. u[2] = t[2]
    BY <1>12, <2>1, <2>2, <2>4
  <2> QED BY <2>1, <2>2, <2>5
<1>13. place \in [Units(v) -> Units(w)]
  BY <1>10
<1> HIDE DEF place
<1>14. place \in Bijection(Units(v), Units(w))
  BY <1>11, <1>12, <1>13 DEF Bijection, Injection, Surjection, IsInjective
<1>15. IsFiniteSet(Units(w))
  BY SumTyped
<1>16. place \in Injection(Units(v), Units(w)) /\ place \in Surjection(Units(v), Units(w))
  BY <1>14 DEF Bijection
<1> QED BY <1>15, <1>16, FS_Injection DEF SumOver, v

\* A sum times n, of numbers that are n times as small.
LEMMA SumScaled ==
  ASSUME NEW D, IsFiniteSet(D), NEW f \in [D -> Nat], NEW g \in [D -> Nat], NEW n \in Nat \ {0}, \A x \in D : n * f[x] <= g[x]
  PROVE  n * SumOver(f) <= SumOver(g)
<1> DEFINE S == Units(f) \X (1..n)
           to == [s \in S |-> <<s[1][1], n * (s[1][2] - 1) + s[2]>>]
<1>1. \A x \in D : f[x] \in Nat /\ g[x] \in Nat
  OBVIOUS
<1>2. ASSUME NEW s \in S
      PROVE  s = <<s[1], s[2]>> /\ s[1] = <<s[1][1], s[1][2]>> /\ s[1][1] \in D /\ s[1][2] \in 1..f[s[1][1]] /\ s[2] \in 1..n
  <2>1. s = <<s[1], s[2]>> /\ s[1] \in Units(f) /\ s[2] \in 1..n
    BY <1>2
  <2> QED BY <2>1, UnitsAre
<1>3. ASSUME NEW a \in Nat \ {0}, NEW b \in 1..n, NEW c \in Nat, a <= c PROVE n * (a - 1) + b \in 1..(n * c)
  <2>1. n * (a - 1) \in Nat
    OBVIOUS
  <2>2. n * (a - 1) + n = n * a
    OBVIOUS
  <2>3. n * a <= n * c
    BY <1>3
  <2>4. n * a \in Nat /\ n * c \in Nat
    OBVIOUS
  <2> QED BY <2>1, <2>2, <2>3, <2>4
<1>4. ASSUME NEW s \in S PROVE to[s] \in Units(g)
  <2> DEFINE x == s[1][1]  a == s[1][2]  b == s[2]
  <2>1. x \in D /\ a \in 1..f[x] /\ b \in 1..n
    BY <1>2, <1>4
  <2>2. to[s] = <<x, n * (a - 1) + b>>
    BY <1>4
  <2> HIDE DEF x, a, b, to
  <2>3. a \in Nat \ {0} /\ a <= f[x] /\ f[x] \in Nat /\ g[x] \in Nat
    BY <1>1, <2>1
  <2>4. n * (a - 1) + b \in 1..(n * f[x])
    BY <1>3, <2>1, <2>3
  <2> DEFINE m == n * f[x]
             i == n * (a - 1) + b
  <2>5. m <= g[x] /\ i \in 1..m
    BY <2>1, <2>4
  <2>6. m \in Int
    BY <2>3
  <2> HIDE DEF m, i
  <2>7. i \in 1..g[x]
    BY <2>3, <2>5, <2>6
  <2> QED BY <2>1, <2>2, <2>7, UnitsAre DEF i
<1>5. ASSUME NEW a \in Nat, NEW b \in 1..n, NEW c \in Nat, NEW d \in 1..n, n * a + b = n * c + d PROVE a = c /\ b = d
  <2>1. ASSUME NEW p \in Nat, NEW q \in Nat, p < q PROVE n * p + n <= n * q
    <3>1. n * (p + 1) <= n * q
      BY <2>1
    <3>2. n * (p + 1) = n * p + n
      OBVIOUS
    <3> QED BY <3>1, <3>2
  <2>2. n * a \in Nat /\ n * c \in Nat
    OBVIOUS
  <2>3. ~(a < c)
    <3> SUFFICES ASSUME a < c PROVE FALSE OBVIOUS
    <3>1. n * a + n <= n * c
      BY <2>1
    <3> QED BY <1>5, <2>2, <3>1
  <2>4. ~(c < a)
    <3> SUFFICES ASSUME c < a PROVE FALSE OBVIOUS
    <3>1. n * c + n <= n * a
      BY <2>1
    <3> QED BY <1>5, <2>2, <3>1
  <2>5. a = c
    BY <2>3, <2>4
  <2> QED BY <1>5, <2>2, <2>5
<1>6. ASSUME NEW s \in S, NEW t \in S, to[s] = to[t] PROVE s = t
  <2>1. /\ s = <<s[1], s[2]>> /\ s[1] = <<s[1][1], s[1][2]>> /\ s[1][1] \in D /\ s[1][2] \in 1..f[s[1][1]] /\ s[2] \in 1..n
        /\ t = <<t[1], t[2]>> /\ t[1] = <<t[1][1], t[1][2]>> /\ t[1][1] \in D /\ t[1][2] \in 1..f[t[1][1]] /\ t[2] \in 1..n
    BY <1>2, <1>6
  <2>2. <<s[1][1], n * (s[1][2] - 1) + s[2]>> = <<t[1][1], n * (t[1][2] - 1) + t[2]>>
    BY <1>6
  <2>3. s[1][1] = t[1][1] /\ n * (s[1][2] - 1) + s[2] = n * (t[1][2] - 1) + t[2]
    BY <2>2
  <2>4. s[1][2] \in Int /\ s[1][2] - 1 \in Nat /\ t[1][2] \in Int /\ t[1][2] - 1 \in Nat
    BY <1>1, <2>1
  <2>5. s[1][2] - 1 = t[1][2] - 1 /\ s[2] = t[2]
    BY <1>5, <2>1, <2>3, <2>4
  <2>6. s[1][2] = t[1][2]
    BY <2>4, <2>5
  <2> QED BY <2>1, <2>3, <2>5, <2>6
<1>7. to \in [S -> Units(g)]
  BY <1>4
<1> HIDE DEF to
<1>8. to \in Injection(S, Units(g))
  BY <1>6, <1>7 DEF Injection, IsInjective
<1>9. IsFiniteSet(Units(f)) /\ IsFiniteSet(Units(g)) /\ SumOver(f) \in Nat /\ SumOver(g) \in Nat
  BY SumTyped
<1>10. IsFiniteSet(1..n) /\ Cardinality(1..n) = n
  BY FS_Interval
<1>11. Cardinality(S) = SumOver(f) * n
  BY <1>9, <1>10, FS_Product DEF SumOver
<1> HIDE DEF S
<1>12. Cardinality(S) <= SumOver(g)
  BY <1>8, <1>9, FS_Injection DEF SumOver
<1>13. SumOver(f) * n = n * SumOver(f)
  BY <1>9
<1> QED BY <1>11, <1>12, <1>13
-----------------------------------------------------------------------------
-----------------------------------------------------------------------------
(* The loop of the metrics, for any nodes, pods and usage. *)

\* Statistics of some nodes or namespaces.
Tallies(parts) == IsFiniteSet(DOMAIN parts) /\ parts \in [DOMAIN parts -> [Stat -> Nat]]

\* What the model divides a statistic by before it is shown, and what a pod shows of it.
Factor(f) == IF f = "cpu" THEN NanoPerMilli ELSE 1
PodShown(f, p) == PodSummary(p)[Swapped(f)]

\* What a round has added up so far, before it is rounded for the cluster and the namespaces.
AddedUp(a) ==
  /\ a.cluster \in [Stat -> Nat] /\ Tallies(a.node) /\ Tallies(a.namespace)
  /\ DOMAIN a.pod \subseteq MetricPod
  /\ \A p \in DOMAIN a.pod : a.pod[p] = PodSummary(p) /\ NamespaceOf[p] \in DOMAIN a.namespace
  /\ \A f \in Stat \ {"cpu"} : Total(a.node, Swapped(f)) = a.cluster[f] /\ Total(a.namespace, f) = a.cluster[f]
  /\ NanoPerMilli * Total(a.node, "cpu") <= a.cluster["cpu"]
  /\ Cardinality(DOMAIN a.pod) <= a.cluster["pods"]
  /\ \A ns \in DOMAIN a.namespace : \A f \in Stat :
       Factor(f) * SumOver([p \in OfNamespace(DOMAIN a.pod, ns) |-> PodShown(f, p)]) <= a.namespace[ns][f]

\* A round that is under way is one of those the bound allows, adds up and counts no node
\* twice; what was published, answered and shown adds up.
MetricsInv ==
  /\ MetricsTypeOK
  /\ loop = "read" => aggregates.round <= MaxRounds
  /\ AddedUp(aggregates)
  /\ loop = "list" => DOMAIN aggregates.node = {}
  /\ loop = "read" => DOMAIN aggregates.node \cap toRead = {}
  /\ \A s \in {summary, answer, metricsShown} : s = NoSummary \/ AddsUp(s)

\* The sum of nothing.
LEMMA SumOfNone ==
  ASSUME NEW f, DOMAIN f = {}
  PROVE  SumOver(f) = 0
<1>1. Units(f) = {}
  BY UnitsAre
<1> QED BY <1>1, FS_EmptySet DEF SumOver

\* Rounding down.
LEMMA Rounded ==
  ASSUME NEW n \in Nat \ {0}, NEW b \in Nat
  PROVE  b \div n \in Nat /\ n * (b \div n) <= b /\ \A a \in Nat : n * a <= b => a <= b \div n
<1> DEFINE q == b \div n
           m == b % n
<1>1. q \in Nat /\ m \in 0..(n - 1) /\ b = n * q + m
  OBVIOUS
<1> HIDE DEF q, m
<1>2. n * q \in Nat
  BY <1>1
<1>3. ASSUME NEW a \in Nat, n * a <= b PROVE a <= q
  <2> SUFFICES ASSUME q + 1 <= a PROVE FALSE
    BY <1>1
  <2>1. n * (q + 1) <= n * a
    BY <1>1
  <2>2. n * (q + 1) = n * q + n
    BY <1>1
  <2>3. n * a \in Nat
    OBVIOUS
  <2> QED BY <1>1, <1>2, <1>3, <2>1, <2>2, <2>3
<1> QED BY <1>1, <1>2, <1>3 DEF q

\* The two swapped statistics are volumes.
LEMMA SwappedTwice ==
  ASSUME NEW f \in Stat
  PROVE  /\ Swapped(f) \in Stat /\ Swapped(Swapped(f)) = f
         /\ Swapped("cpu") = "cpu" /\ (f # "cpu" => Swapped(f) # "cpu")
         /\ Factor(f) \in Nat \ {0}
BY MetricsAssumption DEF MetricsAssumption, Stat, Swapped, Factor

\* The CPU of a pod, exact and as its containers are rounded.
LEMMA PodCpu ==
  ASSUME NEW p \in MetricPod
  PROVE  /\ Len(Containers[p]) \in Nat /\ Nano(p) \in Nat
         /\ PodSummary(p)["cpu"] \in Nat /\ NanoPerMilli * PodSummary(p)["cpu"] <= Nano(p)
<1> DEFINE C == Containers[p]
           M == Metered(p)
           f == [i \in M |-> C[i] \div NanoPerMilli]
           g == [i \in M |-> C[i]]
<1>0. NanoPerMilli \in Nat \ {0} /\ C \in Seq(Int)
  BY MetricsAssumption DEF MetricsAssumption
<1>1. Len(C) \in Nat /\ DOMAIN C = 1..Len(C) /\ \A i \in DOMAIN C : C[i] \in Int
  BY <1>0
<1>2. IsFiniteSet(DOMAIN C)
  <2> DEFINE k == Len(C)
  <2>1. k \in Nat /\ DOMAIN C = 1..k
    BY <1>1
  <2> HIDE DEF k
  <2>2. IsFiniteSet(1..k)
    BY <2>1, FS_Interval
  <2> QED BY <2>1, <2>2
<1>3. M \subseteq DOMAIN C /\ \A i \in M : C[i] \in Nat
  BY <1>1 DEF Metered
<1>4. IsFiniteSet(M)
  BY <1>2, <1>3, FS_Subset
<1>5. PodSummary(p)["cpu"] = SumOver(f) /\ Nano(p) = SumOver(g)
  BY DEF PodSummary, Nano, Stat
<1> HIDE DEF M, C
<1>6. \A i \in M : C[i] \div NanoPerMilli \in Nat /\ NanoPerMilli * (C[i] \div NanoPerMilli) <= C[i]
  BY <1>0, <1>3, Rounded
<1>7. f \in [M -> Nat] /\ g \in [M -> Nat] /\ \A i \in M : NanoPerMilli * f[i] <= g[i]
  BY <1>3, <1>6
<1> HIDE DEF f, g
<1>8. SumOver(f) \in Nat /\ SumOver(g) \in Nat /\ NanoPerMilli * SumOver(f) <= SumOver(g)
  BY <1>0, <1>4, <1>7, SumTyped, SumScaled
<1> QED BY <1>1, <1>5, <1>8 DEF C

\* What a pod counts for, and what it shows.
LEMMA PodAmounts ==
  ASSUME NEW p \in MetricPod
  PROVE  /\ Amount("pods", p) = 1
         /\ \A f \in Stat : /\ Amount(f, p) \in Nat /\ PodShown(f, p) \in Nat
                            /\ Factor(f) * PodShown(f, p) <= Amount(f, p)
<1>1. VolUsed[p] \in Nat /\ VolCapacity[p] \in Nat
  BY MetricsAssumption DEF MetricsAssumption
<1>2. Amount("pods", p) = 1 /\ Amount("cpu", p) = Nano(p)
  BY DEF Amount
<1>3. ASSUME NEW f \in Stat PROVE Amount(f, p) \in Nat
  BY <1>1, <1>3, PodCpu DEF Amount, Stat
<1>4. ASSUME NEW f \in Stat PROVE PodShown(f, p) \in Nat /\ Factor(f) * PodShown(f, p) <= Amount(f, p)
  <2>1. CASE f = "cpu"
    <3>1. PodShown("cpu", p) = PodSummary(p)["cpu"]
      BY SwappedTwice DEF PodShown, Stat
    <3> QED BY <1>2, <2>1, <3>1, PodCpu DEF Factor
  <2>2. CASE f # "cpu"
    <3>1. PodShown(f, p) = Amount(Swapped(Swapped(f)), p)
      BY <1>4, <2>2, SwappedTwice DEF PodShown, PodSummary
    <3>2. PodShown(f, p) = Amount(f, p)
      BY <1>4, <3>1, SwappedTwice
    <3>3. Factor(f) = 1
      BY <2>2 DEF Factor
    <3> QED BY <1>3, <1>4, <3>2, <3>3
  <2> QED BY <2>1, <2>2
<1> QED BY <1>2, <1>3, <1>4

\* The statistics of some pods, and their usage as they show it.
LEMMA StatsTyped ==
  ASSUME NEW pods \in SUBSET MetricPod
  PROVE  /\ IsFiniteSet(pods) /\ StatsOf(pods) \in [Stat -> Nat]
         /\ \A f \in Stat : /\ [p \in pods |-> Amount(f, p)] \in [pods -> Nat]
                            /\ StatsOf(pods)[f] = SumOver([p \in pods |-> Amount(f, p)])
         /\ StatsOf(pods)["pods"] = Cardinality(pods)
         /\ \A f \in Stat : /\ SumOver([p \in pods |-> PodShown(f, p)]) \in Nat
                            /\ Factor(f) * SumOver([p \in pods |-> PodShown(f, p)]) <= StatsOf(pods)[f]
<1>1. IsFiniteSet(pods) /\ NanoPerMilli \in Nat \ {0}
  BY MetricsAssumption, FS_Subset DEF MetricsAssumption
<1>2. \A f \in Stat : [p \in pods |-> Amount(f, p)] \in [pods -> Nat]
  BY PodAmounts
<1>3. \A f \in Stat : SumOver([p \in pods |-> Amount(f, p)]) \in Nat
  BY <1>1, <1>2, SumTyped
<1>4. \A f \in Stat : StatsOf(pods)[f] = SumOver([p \in pods |-> Amount(f, p)])
  BY DEF StatsOf
<1>5. StatsOf(pods) \in [Stat -> Nat]
  BY <1>3 DEF StatsOf
<1>6. StatsOf(pods)["pods"] = Cardinality(pods)
  <2> DEFINE one == [p \in pods |-> Amount("pods", p)]
  <2>1. one = [p \in pods |-> 1]
    BY PodAmounts
  <2>2. DOMAIN one = pods /\ \A p \in pods : one[p] = 1
    BY <2>1
  <2> HIDE DEF one
  <2>3. Units(one) = pods \X (1..1)
    <3>1. ASSUME NEW u \in Units(one) PROVE u \in pods \X (1..1)
      <4>1. u = <<u[1], u[2]>> /\ u[1] \in pods /\ u[2] \in 1..one[u[1]]
        BY <2>2, <3>1, UnitsAre
      <4>2. u[2] \in 1..1
        BY <2>2, <4>1
      <4>3. <<u[1], u[2]>> \in pods \X (1..1)
        BY <4>1, <4>2
      <4> QED BY <4>1, <4>3
    <3>2. ASSUME NEW u \in pods \X (1..1) PROVE u \in Units(one)
      <4>1. u = <<u[1], u[2]>> /\ u[1] \in pods /\ u[2] \in 1..1
        BY <3>2
      <4>2. u[2] \in 1..one[u[1]]
        BY <2>2, <4>1
      <4>3. <<u[1], u[2]>> \in Units(one)
        BY <2>2, <4>1, <4>2, UnitsAre
      <4> QED BY <4>1, <4>3
    <3> QED BY <3>1, <3>2
  <2>4. IsFiniteSet(1..1) /\ Cardinality(1..1) = 1
    <3>1. 1..1 = {1}
      OBVIOUS
    <3> QED BY <3>1, FS_Singleton, Zenon
  <2>5. Cardinality(pods \X (1..1)) = Cardinality(pods) * Cardinality(1..1)
    BY <1>1, <2>4, FS_Product, Zenon
  <2>6. Cardinality(pods) \in Nat
    BY <1>1, FS_CardinalityType
  <2>7. SumOver(one) = Cardinality(pods)
    BY <2>3, <2>4, <2>5, <2>6 DEF SumOver
  <2> QED BY <1>4, <2>7 DEF one, Stat
<1>7. ASSUME NEW st \in Stat
      PROVE  /\ SumOver([p \in pods |-> PodShown(st, p)]) \in Nat
             /\ Factor(st) * SumOver([p \in pods |-> PodShown(st, p)]) <= StatsOf(pods)[st]
  <2> DEFINE f == [p \in pods |-> PodShown(st, p)]
             g == [p \in pods |-> Amount(st, p)]
             n == Factor(st)
  <2>1. n \in Nat \ {0}
    BY <1>7, SwappedTwice
  <2> HIDE DEF n
  <2>2. f \in [pods -> Nat] /\ g \in [pods -> Nat] /\ \A p \in pods : n * f[p] <= g[p]
    BY <1>7, PodAmounts DEF n
  <2>3. StatsOf(pods)[st] = SumOver(g)
    BY <1>4, <1>7
  <2> HIDE DEF f, g
  <2>4. SumOver(f) \in Nat /\ n * SumOver(f) <= SumOver(g)
    BY <1>1, <2>1, <2>2, SumTyped, SumScaled
  <2> QED BY <2>3, <2>4 DEF f, n
<1> QED BY <1>1, <1>2, <1>4, <1>5, <1>6, <1>7

\* The totals of what has these types.
LEMMA TotalTyped ==
  ASSUME NEW parts, Tallies(parts), NEW f \in Stat
  PROVE  [x \in DOMAIN parts |-> parts[x][f]] \in [DOMAIN parts -> Nat] /\ Total(parts, f) \in Nat
<1>1. IsFiniteSet(DOMAIN parts) /\ [x \in DOMAIN parts |-> parts[x][f]] \in [DOMAIN parts -> Nat]
  BY DEF Tallies
<1> QED BY <1>1, SumTyped DEF Total

\* A node that was not counted adds its statistics to the total of the nodes.
LEMMA NodeAdded ==
  ASSUME NEW nodes, Tallies(nodes), NEW n, n \notin DOMAIN nodes, NEW s \in [Stat -> Nat],
         NEW more, more = [m \in DOMAIN nodes \cup {n} |-> IF m = n THEN s ELSE nodes[m]]
  PROVE  /\ Tallies(more)
         /\ \A f \in Stat : Total(more, f) = Total(nodes, f) + s[f]
<1> DEFINE D == DOMAIN nodes
<1>1. DOMAIN more = D \cup {n} /\ more \in [D \cup {n} -> [Stat -> Nat]] /\ nodes \in [D -> [Stat -> Nat]]
  BY DEF Tallies
<1>2. IsFiniteSet({n}) /\ IsFiniteSet(D) /\ IsFiniteSet(D \cup {n})
  BY FS_Singleton, FS_AddElement DEF Tallies
<1>3. ASSUME NEW f \in Stat PROVE Total(more, f) = Total(nodes, f) + s[f]
  <2> DEFINE all == [x \in D \cup {n} |-> more[x][f]]
             old == [x \in D |-> nodes[x][f]]
             added == [x \in {n} |-> s[f]]
  <2>1. all \in [D \cup {n} -> Nat] /\ old \in [D -> Nat] /\ added \in [{n} -> Nat] /\ added[n] = s[f]
    BY <1>1, <1>3
  <2>2. (\A x \in D : all[x] = old[x]) /\ (\A x \in {n} : all[x] = added[x]) /\ D \cap {n} = {}
    OBVIOUS
  <2>3. Total(more, f) = SumOver(all) /\ Total(nodes, f) = SumOver(old)
    BY <1>1 DEF Total
  <2> HIDE DEF all, old, added, D
  <2>4. SumOver(all) = SumOver(old) + SumOver(added)
    BY <1>2, <2>1, <2>2, SumUnion
  <2>5. SumOver(added) = s[f]
    BY <2>1, SumSingle
  <2> QED BY <2>3, <2>4, <2>5
<1> QED BY <1>1, <1>2, <1>3 DEF Tallies

\* The namespaces after the pods of a node are counted, and before.
Grown(before, after, pods) ==
  /\ Tallies(after)
  /\ DOMAIN after = DOMAIN before \cup {NamespaceOf[p] : p \in pods}
  /\ \A ns \in DOMAIN after, f \in Stat :
       after[ns][f] = (IF ns \in DOMAIN before THEN before[ns][f] ELSE 0) + StatsOf(OfNamespace(pods, ns))[f]
  /\ \A f \in Stat : Total(after, f) = Total(before, f) + StatsOf(pods)[f]

\* Pods that are counted by their namespaces add their statistics to the total of these.
LEMMA NamespacesAdded ==
  ASSUME NEW before, Tallies(before), NEW pods \in SUBSET MetricPod,
         NEW after, after = ByNamespace(before, pods)
  PROVE  Grown(before, after, pods)
<1> DEFINE D == DOMAIN before
           E == D \cup {NamespaceOf[p] : p \in pods}
<1>1. \A ns \in E : OfNamespace(pods, ns) \in SUBSET MetricPod
  BY DEF OfNamespace
<1>2. \A ns \in E : StatsOf(OfNamespace(pods, ns)) \in [Stat -> Nat]
  BY <1>1, StatsTyped
<1>3. after = [ns \in E |-> Plus(IF ns \in D THEN before[ns] ELSE None, StatsOf(OfNamespace(pods, ns)))]
  BY DEF ByNamespace
<1> HIDE DEF E
<1>4. DOMAIN after = E
  BY <1>3
<1>5. \A ns \in E : /\ after[ns] = Plus(IF ns \in D THEN before[ns] ELSE None, StatsOf(OfNamespace(pods, ns)))
                    /\ after[ns] \in [Stat -> Nat]
                    /\ \A f \in Stat : after[ns][f] = (IF ns \in D THEN before[ns][f] ELSE 0) + StatsOf(OfNamespace(pods, ns))[f]
  <2> SUFFICES ASSUME NEW ns \in E
               PROVE  /\ after[ns] = Plus(IF ns \in D THEN before[ns] ELSE None, StatsOf(OfNamespace(pods, ns)))
                      /\ after[ns] \in [Stat -> Nat]
                      /\ \A f \in Stat : after[ns][f] = (IF ns \in D THEN before[ns][f] ELSE 0) + StatsOf(OfNamespace(pods, ns))[f]
    OBVIOUS
  <2> DEFINE a == IF ns \in D THEN before[ns] ELSE None
             b == StatsOf(OfNamespace(pods, ns))
  <2>1. after[ns] = Plus(a, b)
    BY <1>3
  <2>2. a \in [Stat -> Nat] /\ b \in [Stat -> Nat] /\ \A f \in Stat : a[f] = IF ns \in D THEN before[ns][f] ELSE 0
    BY <1>2 DEF None, Tallies
  <2> HIDE DEF a, b
  <2>3. Plus(a, b) \in [Stat -> Nat] /\ \A f \in Stat : Plus(a, b)[f] = a[f] + b[f]
    BY <2>2 DEF Plus
  <2> QED BY <2>1, <2>2, <2>3 DEF a, b
<1>6. after \in [E -> [Stat -> Nat]]
  BY <1>3, <1>5
<1>7. IsFiniteSet(E)
  <2> DEFINE N == {NamespaceOf[p] : p \in pods}
  <2>1. N \subseteq Namespace /\ IsFiniteSet(Namespace)
    BY MetricsAssumption DEF MetricsAssumption
  <2>2. IsFiniteSet(N)
    BY <2>1, FS_Subset
  <2> HIDE DEF N
  <2>3. IsFiniteSet(D \cup N)
    BY <2>2, FS_Union DEF Tallies
  <2> QED BY <2>3 DEF E, N
<1>8. ASSUME NEW f \in Stat PROVE Total(after, f) = Total(before, f) + StatsOf(pods)[f]
  <2> DEFINE all == [ns \in E |-> after[ns][f]]
             old == [ns \in D |-> before[ns][f]]
             wide == [ns \in E |-> IF ns \in D THEN before[ns][f] ELSE 0]
             w == [p \in pods |-> Amount(f, p)]
             added == ByKey(w, NamespaceOf, E)
  <2>1. w \in [pods -> Nat] /\ IsFiniteSet(pods) /\ StatsOf(pods)[f] = SumOver(w)
    BY <1>8, StatsTyped
  <2>2. \A ns \in E : added[ns] = StatsOf(OfNamespace(pods, ns))[f]
    <3> SUFFICES ASSUME NEW ns \in E PROVE added[ns] = StatsOf(OfNamespace(pods, ns))[f]
      OBVIOUS
    <3> DEFINE here == {q \in pods : NamespaceOf[q] = ns}
    <3>1. [p \in here |-> w[p]] = [p \in here |-> Amount(f, p)]
      OBVIOUS
    <3>2. OfNamespace(pods, ns) = here
      BY DEF OfNamespace
    <3>3. StatsOf(here)[f] = SumOver([p \in here |-> Amount(f, p)])
      BY <1>8 DEF StatsOf
    <3>4. added[ns] = SumOver([p \in here |-> w[p]])
      BY DEF ByKey
    <3> HIDE DEF here, added, w
    <3> QED BY <3>1, <3>2, <3>3, <3>4
  <2>3. all \in [E -> Nat] /\ wide \in [E -> Nat] /\ D \subseteq E /\ old \in [D -> Nat]
    BY <1>6, <1>8 DEF E, Tallies
  <2>4. \A ns \in E : added[ns] \in Nat
    BY <1>2, <1>8, <2>2
  <2>5. added \in [E -> Nat]
    BY <2>4 DEF ByKey
  <2>6. \A ns \in E : all[ns] = wide[ns] + added[ns]
    BY <1>5, <1>8, <2>2
  <2>7. \A p \in pods : NamespaceOf[p] \in E
    BY DEF E
  <2>8. SumOver(added) = SumOver(w)
    <3> HIDE DEF w
    <3> QED BY <2>1, <2>7, SumByKey
  <2>9. Total(after, f) = SumOver(all) /\ Total(before, f) = SumOver(old)
    BY <1>4 DEF Total
  <2>10. DOMAIN wide = E /\ DOMAIN old = D /\ (\A x \in D : wide[x] = old[x]) /\ (\A x \in E \ D : wide[x] = 0)
    BY <2>3
  <2> HIDE DEF all, old, wide, added, w, D
  <2>11. SumOver(wide) = SumOver(old)
    BY <2>3, <2>10, SumZeros
  <2>12. SumOver(all) = SumOver(wide) + SumOver(added)
    BY <1>7, <2>3, <2>5, <2>6, SumPlus
  <2> QED BY <2>1, <2>8, <2>9, <2>11, <2>12
<1> QED BY <1>4, <1>5, <1>6, <1>7, <1>8 DEF E, Tallies, Grown

\* The loop starts in a state of the invariant.
LEMMA NothingAdded == ASSUME NEW n PROVE AddedUp(EmptySummary(n))
<1> DEFINE a == EmptySummary(n)
<1>1. a.cluster = None /\ a.node = [m \in {} |-> None] /\ a.namespace = [m \in {} |-> None] /\ a.pod = [p \in {} |-> None]
  BY DEF EmptySummary
<1> HIDE DEF a
<1>2. DOMAIN a.node = {} /\ DOMAIN a.namespace = {} /\ DOMAIN a.pod = {}
  BY <1>1
<1>3. a.cluster \in [Stat -> Nat] /\ \A f \in Stat : a.cluster[f] = 0
  BY <1>1 DEF None
<1>4. Tallies(a.node) /\ Tallies(a.namespace)
  <2>1. a.node \in [{} -> [Stat -> Nat]] /\ a.namespace \in [{} -> [Stat -> Nat]]
    BY <1>1
  <2> QED BY <1>2, <2>1, FS_EmptySet DEF Tallies
<1>5. \A f \in Stat : Total(a.node, f) = 0 /\ Total(a.namespace, f) = 0
  BY <1>2, SumOfNone DEF Total
<1>6. Cardinality(DOMAIN a.pod) = 0
  BY <1>2, FS_EmptySet
<1>7. NanoPerMilli * 0 = 0
  BY MetricsAssumption DEF MetricsAssumption
<1>8. "pods" \in Stat /\ "containers" \in Stat /\ "cpu" \in Stat
  BY DEF Stat
<1>9. NanoPerMilli * Total(a.node, "cpu") <= a.cluster["cpu"]
  BY <1>3, <1>5, <1>7, <1>8
<1>10. \A f \in Stat : Swapped(f) \in Stat
  BY SwappedTwice
<1> QED BY <1>2, <1>3, <1>4, <1>5, <1>6, <1>8, <1>9, <1>10 DEF AddedUp, a

\* What reading a node makes of a round.
Reading(a, b, n, pods, usage) ==
  /\ b.cluster = Plus(a.cluster, NodeStats(pods, usage))
  /\ b.node = [m \in DOMAIN a.node \cup {n} |-> IF m = n THEN NodeSummary(pods, usage) ELSE a.node[m]]
  /\ b.namespace = ByNamespace(a.namespace, pods)
  /\ b.pod = [p \in DOMAIN a.pod \cup pods |-> PodSummary(p)]

\* Reading a node keeps the sums: its pods are counted once for the cluster, the node and
\* their namespaces, and its rounded usage is no more than what is added to the cluster's.
LEMMA ReadAddsUp ==
  ASSUME NEW a, AddedUp(a), NEW n, n \notin DOMAIN a.node, NEW pods \in SUBSET MetricPod, NEW usage \in Nat, NEW b,
         Reading(a, b, n, pods, usage)
  PROVE  AddedUp(b)
<1> DEFINE N == NanoPerMilli
           s == NodeStats(pods, usage)
           t == NodeSummary(pods, usage)
           st == StatsOf(pods)
<1>0. N \in Nat \ {0} /\ "pods" \in Stat /\ "containers" \in Stat /\ "cpu" \in Stat
  BY MetricsAssumption DEF MetricsAssumption, Stat
<1>1. st \in [Stat -> Nat] /\ st["pods"] = Cardinality(pods) /\ IsFiniteSet(pods) /\ Cardinality(pods) \in Nat
  BY StatsTyped, FS_CardinalityType
<1>2. usage \div N \in Nat /\ N * (usage \div N) <= usage
  BY <1>0, Rounded
<1> HIDE DEF N
<1>3. s \in [Stat -> Nat] /\ (\A f \in Stat \ {"cpu"} : s[f] = st[f]) /\ s["cpu"] = usage
  BY <1>0, <1>1 DEF NodeStats
<1> HIDE DEF s, st
<1>4. t \in [Stat -> Nat] /\ (\A f \in Stat \ {"cpu"} : t[Swapped(f)] = st[f]) /\ t["cpu"] = usage \div N
  <2>1. \A f \in Stat : t[f] = IF f = "cpu" THEN usage \div N ELSE st[Swapped(f)]
    BY DEF NodeSummary, N, st
  <2>2. DOMAIN t = Stat /\ t = [f \in Stat |-> t[f]]
    BY DEF NodeSummary
  <2> HIDE DEF t
  <2>3. \A f \in Stat : t[f] \in Nat
    BY <1>1, <1>2, <2>1, SwappedTwice
  <2>4. t \in [Stat -> Nat]
    BY <2>2, <2>3
  <2>5. ASSUME NEW f \in Stat \ {"cpu"} PROVE t[Swapped(f)] = st[f]
    <3>1. Swapped(f) \in Stat /\ Swapped(f) # "cpu" /\ Swapped(Swapped(f)) = f
      BY <2>5, SwappedTwice
    <3>2. t[Swapped(f)] = st[Swapped(Swapped(f))]
      BY <2>1, <3>1
    <3> QED BY <3>1, <3>2
  <2> QED BY <1>0, <2>1, <2>4, <2>5
<1> HIDE DEF t
<1>5. a.cluster \in [Stat -> Nat] /\ Tallies(a.node) /\ Tallies(a.namespace)
  BY DEF AddedUp
<1>6. b.cluster \in [Stat -> Nat] /\ \A f \in Stat : b.cluster[f] = a.cluster[f] + s[f]
  BY <1>3, <1>5 DEF Plus, s, Reading
<1>7. Tallies(b.node) /\ \A f \in Stat : Total(b.node, f) = Total(a.node, f) + t[f]
  <2>1. b.node = [m \in DOMAIN a.node \cup {n} |-> IF m = n THEN t ELSE a.node[m]]
    BY DEF t, Reading
  <2> QED BY <1>4, <1>5, <2>1, NodeAdded
<1>8. /\ Tallies(b.namespace) /\ DOMAIN b.namespace = DOMAIN a.namespace \cup {NamespaceOf[p] : p \in pods}
      /\ \A ns \in DOMAIN b.namespace, f \in Stat :
           b.namespace[ns][f] = (IF ns \in DOMAIN a.namespace THEN a.namespace[ns][f] ELSE 0) + StatsOf(OfNamespace(pods, ns))[f]
      /\ \A f \in Stat : Total(b.namespace, f) = Total(a.namespace, f) + st[f]
  <2>1. Grown(a.namespace, b.namespace, pods)
    BY <1>5, NamespacesAdded DEF Reading
  <2> QED BY <2>1 DEF Grown, st
<1>9. \A f \in Stat : Total(a.node, f) \in Nat /\ Total(a.namespace, f) \in Nat
  BY <1>5, TotalTyped
<1>10. ASSUME NEW f \in Stat \ {"cpu"} PROVE Total(b.node, Swapped(f)) = b.cluster[f] /\ Total(b.namespace, f) = b.cluster[f]
  <2>1. f \in Stat /\ Swapped(f) \in Stat /\ t[Swapped(f)] = st[f] /\ s[f] = st[f]
    BY <1>3, <1>4, <1>10, SwappedTwice
  <2>2. Total(a.node, Swapped(f)) = a.cluster[f] /\ Total(a.namespace, f) = a.cluster[f]
    BY <1>10 DEF AddedUp
  <2>3. b.cluster[f] = a.cluster[f] + st[f]
    BY <1>6, <2>1
  <2>4. Total(b.node, Swapped(f)) = a.cluster[f] + st[f]
    BY <1>7, <2>1, <2>2
  <2>5. Total(b.namespace, f) = a.cluster[f] + st[f]
    BY <1>8, <2>1, <2>2
  <2> QED BY <2>3, <2>4, <2>5
<1>11. N * Total(b.node, "cpu") <= b.cluster["cpu"]
  <2> DEFINE x == Total(a.node, "cpu")
             y == usage \div N
             c == a.cluster["cpu"]
  <2>1. x \in Nat /\ y \in Nat /\ c \in Nat /\ N * x <= c /\ N * y <= usage
    BY <1>0, <1>2, <1>5, <1>9 DEF AddedUp, N
  <2>2. Total(b.node, "cpu") = x + y /\ b.cluster["cpu"] = c + usage
    BY <1>0, <1>3, <1>4, <1>6, <1>7
  <2> HIDE DEF x, y, c
  <2>3. N * (x + y) = N * x + N * y /\ N * x \in Nat /\ N * y \in Nat
    BY <1>0, <2>1
  <2> QED BY <2>1, <2>2, <2>3
<1>12. DOMAIN b.pod = DOMAIN a.pod \cup pods /\ DOMAIN b.pod \subseteq MetricPod
  BY DEF AddedUp, Reading
<1>13. IsFiniteSet(DOMAIN a.pod) /\ Cardinality(DOMAIN a.pod) \in Nat
  BY MetricsAssumption, FS_Subset, FS_CardinalityType DEF MetricsAssumption, AddedUp
<1>14. Cardinality(DOMAIN b.pod) <= b.cluster["pods"]
  <2> DEFINE x == Cardinality(DOMAIN a.pod)
             y == Cardinality(pods)
             z == Cardinality(DOMAIN a.pod \cap pods)
  <2>1. Cardinality(DOMAIN a.pod \cup pods) = x + y - z
    BY <1>1, <1>13, FS_Union
  <2>2. z \in Nat
    BY <1>1, FS_Intersection, FS_CardinalityType
  <2>3. x <= a.cluster["pods"] /\ a.cluster["pods"] \in Nat
    BY <1>0, <1>5 DEF AddedUp
  <2>4. b.cluster["pods"] = a.cluster["pods"] + y
    BY <1>0, <1>1, <1>3, <1>6
  <2> HIDE DEF x, y, z
  <2>5. x \in Nat /\ y \in Nat
    BY <1>1, <1>13 DEF x, y
  <2> QED BY <1>12, <2>1, <2>2, <2>3, <2>4, <2>5
<1>15. ASSUME NEW ns \in DOMAIN b.namespace, NEW f \in Stat
       PROVE  Factor(f) * SumOver([p \in OfNamespace(DOMAIN b.pod, ns) |-> PodShown(f, p)]) <= b.namespace[ns][f]
  <2> DEFINE K == Factor(f)
             A == OfNamespace(DOMAIN a.pod, ns)
             B == OfNamespace(pods, ns)
             old == [p \in A |-> PodShown(f, p)]
             more == [p \in B |-> PodShown(f, p)]
             all == [p \in A \cup B |-> PodShown(f, p)]
  <2>0. K \in Nat \ {0}
    BY <1>15, SwappedTwice
  <2>1. OfNamespace(DOMAIN b.pod, ns) = A \cup B
    BY <1>12 DEF OfNamespace
  <2>2. A \subseteq MetricPod /\ B \subseteq MetricPod /\ A \subseteq DOMAIN a.pod
    BY DEF OfNamespace, AddedUp
  <2>3. IsFiniteSet(A) /\ IsFiniteSet(B)
    BY <2>2, StatsTyped
  <2>4. old \in [A -> Nat] /\ more \in [B -> Nat] /\ all \in [A \cup B -> Nat]
    BY <1>15, <2>2, PodAmounts
  <2>5. (\A p \in A : all[p] = old[p]) /\ \A p \in B : all[p] = more[p]
    OBVIOUS
  <2>6. SumOver(more) \in Nat /\ K * SumOver(more) <= StatsOf(B)[f] /\ StatsOf(B)[f] \in Nat
    BY <1>15, <2>2, StatsTyped
  <2>7. SumOver(all) = SumOver([p \in OfNamespace(DOMAIN b.pod, ns) |-> PodShown(f, p)])
    BY <2>1
  <2> DEFINE c == IF ns \in DOMAIN a.namespace THEN a.namespace[ns][f] ELSE 0
  <2>8. b.namespace[ns][f] = c + StatsOf(B)[f]
    BY <1>8, <1>15
  <2>9. c \in Nat
    BY <1>5, <1>15 DEF Tallies
  <2>10. K * SumOver(old) <= c
    <3>1. CASE ns \in DOMAIN a.namespace
      BY <1>15, <3>1 DEF AddedUp
    <3>2. CASE ns \notin DOMAIN a.namespace
      <4>1. A = {}
        BY <3>2 DEF OfNamespace, AddedUp
      <4>2. DOMAIN old = {}
        BY <4>1
      <4>3. SumOver(old) = 0
        BY <4>2, SumOfNone
      <4>4. K * 0 = 0
        BY <2>0
      <4> QED BY <3>2, <4>3, <4>4
    <3> QED BY <3>1, <3>2
  <2> HIDE DEF A, B, old, more, all, c, K
  <2>11. SumOver(all) <= SumOver(old) + SumOver(more)
    BY <2>3, <2>4, <2>5, SumUnion
  <2>12. SumOver(all) \in Nat /\ SumOver(old) \in Nat
    <3>1. IsFiniteSet(A \cup B)
      BY <2>3, FS_Union
    <3> QED BY <2>3, <2>4, <3>1, SumTyped
  <2> DEFINE x == SumOver(old)
             y == SumOver(more)
             z == SumOver(all)
  <2>13. x \in Nat /\ y \in Nat /\ z \in Nat /\ z <= x + y /\ K * x <= c /\ K * y <= StatsOf(B)[f]
    BY <2>6, <2>10, <2>11, <2>12
  <2> HIDE DEF x, y, z
  <2>14. K * z <= K * (x + y) /\ K * (x + y) = K * x + K * y
    BY <2>0, <2>13
  <2>15. K * x \in Nat /\ K * y \in Nat /\ K * z \in Nat
    BY <2>0, <2>13
  <2>16. K * z <= c + StatsOf(B)[f]
    BY <2>6, <2>9, <2>13, <2>14, <2>15
  <2> QED BY <2>7, <2>8, <2>16 DEF z, K
<1>16. \A p \in DOMAIN b.pod : b.pod[p] = PodSummary(p) /\ NamespaceOf[p] \in DOMAIN b.namespace
  BY <1>8, <1>12 DEF AddedUp, Reading
<1> QED BY <1>6, <1>7, <1>8, <1>10, <1>11, <1>12, <1>14, <1>15, <1>16 DEF AddedUp, N

\* A round that added up is published as a summary that adds up.
LEMMA PublishedAddsUp ==
  ASSUME NEW a, AddedUp(a)
  PROVE  AddsUp(Summarized(a))
<1> DEFINE N == NanoPerMilli
           s == Summarized(a)
<1>0. N \in Nat \ {0} /\ "pods" \in Stat /\ "containers" \in Stat /\ "cpu" \in Stat
  BY MetricsAssumption DEF MetricsAssumption, Stat
<1>1. /\ s.cluster = MakeSummary(a.cluster) /\ s.node = a.node /\ s.pod = a.pod
      /\ s.namespace = [ns \in DOMAIN a.namespace |-> MakeSummary(a.namespace[ns])]
  BY DEF Summarized
<1> HIDE DEF s
<1>2. a.cluster \in [Stat -> Nat] /\ Tallies(a.node) /\ Tallies(a.namespace)
  BY DEF AddedUp
<1>3. ASSUME NEW m \in [Stat -> Nat]
      PROVE  /\ \A f \in Stat \ {"cpu"} : MakeSummary(m)[f] = m[f]
             /\ MakeSummary(m)["cpu"] = m["cpu"] \div NanoPerMilli
  BY <1>0 DEF MakeSummary
<1>4. \A ns \in DOMAIN a.namespace : a.namespace[ns] \in [Stat -> Nat]
  BY <1>2 DEF Tallies
<1>5. ASSUME NEW f \in Stat \ {"cpu"} PROVE Total(s.node, Swapped(f)) = s.cluster[f] /\ Total(s.namespace, f) = s.cluster[f]
  <2>1. s.cluster[f] = a.cluster[f]
    BY <1>1, <1>2, <1>3
  <2>2. DOMAIN s.namespace = DOMAIN a.namespace /\ \A ns \in DOMAIN a.namespace : s.namespace[ns][f] = a.namespace[ns][f]
    BY <1>1, <1>3, <1>4
  <2>3. [ns \in DOMAIN s.namespace |-> s.namespace[ns][f]] = [ns \in DOMAIN a.namespace |-> a.namespace[ns][f]]
    BY <2>2
  <2>4. Total(s.namespace, f) = Total(a.namespace, f)
    BY <2>3 DEF Total
  <2> QED BY <1>1, <2>1, <2>4 DEF AddedUp
<1>6. s.cluster["cpu"] >= Total(s.node, "cpu")
  <2> DEFINE x == Total(a.node, "cpu")
             c == a.cluster["cpu"]
  <2>1. x \in Nat /\ c \in Nat /\ N * x <= c
    BY <1>0, <1>2, TotalTyped DEF AddedUp
  <2>2. s.cluster["cpu"] = c \div N /\ Total(s.node, "cpu") = x
    BY <1>1, <1>2, <1>3
  <2> HIDE DEF x, c, N
  <2>3. x <= c \div N /\ c \div N \in Nat
    BY <1>0, <2>1, Rounded
  <2> QED BY <2>1, <2>2, <2>3
<1>7. Cardinality(DOMAIN s.pod) <= s.cluster["pods"]
  <2>1. s.cluster["pods"] = a.cluster["pods"]
    BY <1>0, <1>1, <1>2, <1>3
  <2> QED BY <1>1, <2>1 DEF AddedUp
<1>8. ASSUME NEW ns \in DOMAIN s.namespace, NEW f \in Stat
      PROVE  s.namespace[ns][f] >= SumOver([p \in OfNamespace(DOMAIN s.pod, ns) |-> s.pod[p][Swapped(f)]])
  <2> DEFINE A == OfNamespace(DOMAIN a.pod, ns)
             x == SumOver([p \in A |-> PodShown(f, p)])
             c == a.namespace[ns][f]
             K == Factor(f)
  <2>1. ns \in DOMAIN a.namespace /\ K \in Nat \ {0}
    BY <1>1, <1>8, SwappedTwice
  <2>2. A \subseteq MetricPod /\ A \subseteq DOMAIN a.pod
    BY DEF OfNamespace, AddedUp
  <2>3. x \in Nat
    BY <1>8, <2>2, StatsTyped
  <2>4. c \in Nat /\ K * x <= c
    BY <1>4, <1>8, <2>1 DEF AddedUp
  <2>5. s.namespace[ns][f] = c \div K
    <3>1. CASE f = "cpu"
      <4>1. K = NanoPerMilli
        BY <3>1 DEF Factor
      <4> QED BY <1>1, <1>3, <1>4, <2>1, <3>1, <4>1
    <3>2. CASE f # "cpu"
      <4>1. K = 1 /\ s.namespace[ns][f] = c
        BY <1>1, <1>3, <1>4, <1>8, <2>1, <3>2 DEF Factor
      <4>2. c \div 1 = c
        BY <2>4
      <4> QED BY <4>1, <4>2
    <3> QED BY <3>1, <3>2
  <2>6. [p \in OfNamespace(DOMAIN s.pod, ns) |-> s.pod[p][Swapped(f)]] = [p \in A |-> PodShown(f, p)]
    <3>1. \A p \in A : s.pod[p][Swapped(f)] = PodShown(f, p)
      BY <1>1, <2>2 DEF AddedUp, PodShown
    <3>2. OfNamespace(DOMAIN s.pod, ns) = A
      BY <1>1
    <3> HIDE DEF A
    <3> QED BY <3>1, <3>2
  <2>7. SumOver([p \in OfNamespace(DOMAIN s.pod, ns) |-> s.pod[p][Swapped(f)]]) = x
    BY <2>6, Zenon
  <2> HIDE DEF x, c, K
  <2>8. x <= c \div K /\ c \div K \in Nat
    BY <2>1, <2>3, <2>4, Rounded
  <2> QED BY <2>3, <2>5, <2>7, <2>8
<1> QED BY <1>5, <1>6, <1>7, <1>8 DEF AddsUp, s

\* The loop starts with nothing read, published or shown.
LEMMA MetricsStart == MetricsInit => MetricsInv
<1> SUFFICES ASSUME MetricsInit PROVE MetricsInv
  OBVIOUS
<1>1. AddedUp(aggregates)
  BY NothingAdded DEF MetricsInit
<1>2. aggregates.round = 1 /\ DOMAIN aggregates.node = {}
  BY DEF MetricsInit, EmptySummary
<1> QED BY <1>1, <1>2, MetricsAssumption DEF MetricsAssumption, MetricsInit, MetricsInv, MetricsTypeOK

\* A step of the loop, of a handler or of the browser keeps it.
LEMMA MetricsStep == MetricsInv /\ [MetricsNext]_metricVars => MetricsInv'
<1> SUFFICES ASSUME MetricsInv, [MetricsNext]_metricVars PROVE MetricsInv'
  OBVIOUS
<1> USE MetricsAssumption DEF MetricsAssumption, MetricsInv, MetricsTypeOK, uiVars
<1>1. CASE ListNodes BY <1>1 DEF ListNodes
<1>2. CASE PublishSummary
  <2>1. AddsUp(summary')
    BY <1>2, PublishedAddsUp DEF PublishSummary
  <2>2. AddedUp(aggregates') /\ aggregates'.round = aggregates.round + 1 /\ DOMAIN aggregates'.node = {}
    <3>1. aggregates' = EmptySummary(aggregates.round + 1)
      BY <1>2 DEF PublishSummary
    <3>2. AddedUp(aggregates')
      BY <3>1, NothingAdded
    <3> QED BY <3>1, <3>2 DEF EmptySummary
  <2>3. loop' = "list" /\ loop = "read" /\ UNCHANGED <<toRead, killSwitch, readers, call, answer, metricsShown>>
    BY <1>2 DEF PublishSummary
  <2> QED BY <2>1, <2>2, <2>3
<1>3. CASE Close BY <1>3 DEF Close
<1>4. CASE Stop BY <1>4 DEF Stop
<1>5. ASSUME NEW n \in toRead, SkipNode(n) PROVE MetricsInv'
  BY <1>5 DEF SkipNode
<1>6. ASSUME NEW n \in toRead, NEW pods \in SUBSET MetricPod, NEW usage \in NodeUsage, ReadNode(n, pods, usage) PROVE MetricsInv'
  <2>1. /\ aggregates'.round = aggregates.round
        /\ Reading(aggregates, aggregates', n, pods, usage)
        /\ DOMAIN aggregates'.node = DOMAIN aggregates.node \cup {n}
    BY <1>6 DEF ReadNode, Reading
  <2>2. /\ loop = "read" /\ toRead' = toRead \ {n}
        /\ UNCHANGED <<loop, summary, killSwitch, readers, call, answer, metricsShown>>
    BY <1>6 DEF ReadNode
  <2>3. n \notin DOMAIN aggregates.node /\ usage \in Nat
    BY <2>2
  <2>4. AddedUp(aggregates')
    <3>1. AddedUp(aggregates)
      BY DEF MetricsInv
    <3> QED BY <1>6, <2>1, <2>3, <3>1, ReadAddsUp
  <2> QED BY <2>1, <2>2, <2>4
<1>7. ASSUME NEW n \in toRead, NEW pods \in SUBSET MetricPod, PanicOnPod(n, pods) PROVE MetricsInv'
  BY <1>7 DEF PanicOnPod
<1>8. CASE RequestMetrics BY <1>8 DEF RequestMetrics
<1>9. CASE BeginMetrics BY <1>9 DEF BeginMetrics
<1>10. CASE EndMetrics BY <1>10 DEF EndMetrics
<1>11. CASE ReceiveMetrics BY <1>11 DEF ReceiveMetrics
<1>12. CASE LoseMetrics BY <1>12 DEF LoseMetrics
<1>13. CASE UNCHANGED metricVars BY <1>13 DEF metricVars
<1> QED
  BY <1>1, <1>2, <1>3, <1>4, <1>5, <1>6, <1>7, <1>8, <1>9, <1>10, <1>11, <1>12, <1>13 DEF MetricsNext
-----------------------------------------------------------------------------
(* Sessions. *)

Live(t) == ParseSessionToken(t)

\* The tokens that some login granted, at any age.
GrantedToken ==
  {[user |-> l.user, groups |-> Join(GroupsOf(l) \cup AuthenticatedGroups), left |-> n] : l \in Login, n \in 0..SessionTimeout}
AnyToken == GrantedToken \cup {NoToken, DeadToken}

\* The identities that some login granted.
GrantedIdentity == {[user |-> l.user, groups |-> Groups(Join(GroupsOf(l) \cup AuthenticatedGroups))] : l \in Login}

CallType ==
  [stage : {"idle", "sent", "answered", "lost"}, what : {"", "mount", "poll", "fetch", "socket"}, login : Login \cup {NoUser},
   cookie : AnyToken, age : 0..MaxDelay, as : GrantedIdentity \cup {NoUser}, set : AnyToken]
-----------------------------------------------------------------------------
(* The inductive invariant. *)

Types ==
  /\ cookie \in AnyToken /\ quiet \in 0..Half
  /\ calls \in [Slot -> CallType]
  /\ calls["login"].stage = "sent" => calls["login"].login \in Login

\* The cookie of the browser is no older than the one a call on its way carries, or was
\* set while the call was on its way.
SentTimely(c, k) ==
  c.stage = "sent" /\ Live(c.cookie) /\ Live(k) =>
    k.left >= c.cookie.left \/ k.left + c.age + MaxDelay >= SessionTimeout

\* The cookie of an answer is as new as the call; a call that was served and renewed
\* nothing found a cookie with half its time left.
AnswerTimely(c, k) ==
  c.stage = "answered" =>
    /\ Live(c.set) => c.set.left + c.age >= SessionTimeout
    /\ c.as # NoUser /\ c.what # "socket" /\ c.set = NoToken /\ Live(k) => k.left + c.age >= Half

Timely ==
  /\ Live(cookie) => cookie.left + quiet >= Half
  /\ \A s \in Slot : SentTimely(calls[s], cookie) /\ AnswerTimely(calls[s], cookie)

SessionInv == Types /\ Timely
-----------------------------------------------------------------------------
(* Tokens. *)

\* A half is at most what a delayed renewal leaves.
LEMMA HalfBound ==
  /\ Half \in Nat /\ Half <= SessionTimeout
  /\ \A n \in Nat : n + MaxDelay >= SessionTimeout => n >= Half
  /\ \A n \in Nat, a \in 0..MaxDelay : n + a + MaxDelay >= SessionTimeout => n + a >= Half
<1> DEFINE T == SessionTimeout  D == MaxDelay  H == T \div 2
<1>1. T \in Nat /\ D \in Nat /\ 4 * D <= T
  BY SessionAssumption
<1>2. H \in Nat /\ 2 * H <= T
  BY <1>1, Z3
<1>3. D + H <= T
  BY <1>1, <1>2, Z3
<1> HIDE DEF H
<1>4. QED
  BY <1>1, <1>2, <1>3 DEF Half, H

\* A live token was granted by a login.
LEMMA LiveGranted ==
  ASSUME NEW t \in AnyToken, Live(t)
  PROVE  /\ t \in GrantedToken
         /\ t.left \in 0..SessionTimeout
         /\ Identity(t) \in GrantedIdentity
<1>1. t \in GrantedToken
  BY DEF AnyToken, Live, ParseSessionToken
<1>2. PICK l \in Login, n \in 0..SessionTimeout :
        t = [user |-> l.user, groups |-> Join(GroupsOf(l) \cup AuthenticatedGroups), left |-> n]
  BY <1>1 DEF GrantedToken
<1>3. t.user = l.user /\ t.groups = Join(GroupsOf(l) \cup AuthenticatedGroups) /\ t.left = n
  BY <1>2
<1>4. Identity(t) = [user |-> l.user, groups |-> Groups(Join(GroupsOf(l) \cup AuthenticatedGroups))]
  BY <1>3 DEF Identity
<1>5. QED
  BY <1>1, <1>3, <1>4 DEF GrantedIdentity

\* A granted token is live.
LEMMA GrantedLive ==
  ASSUME NEW t \in GrantedToken PROVE Live(t)
<1>1. PICK l \in Login, n \in 0..SessionTimeout :
        t = [user |-> l.user, groups |-> Join(GroupsOf(l) \cup AuthenticatedGroups), left |-> n]
  BY DEF GrantedToken
<1>2. [user |-> l.user, groups |-> Join(GroupsOf(l) \cup AuthenticatedGroups), left |-> n] \notin {NoToken, DeadToken}
  BY SessionAssumption, Zenon
<1> QED BY <1>1, <1>2 DEF Live, ParseSessionToken

\* A token made for a login is granted, whatever is left of it.
LEMMA MadeGranted ==
  ASSUME NEW l \in Login, NEW n \in 0..SessionTimeout
  PROVE  [user |-> l.user, groups |-> Join(GroupsOf(l) \cup AuthenticatedGroups), left |-> n] \in GrantedToken
<1> DEFINE t(x, m) == [user |-> x.user, groups |-> Join(GroupsOf(x) \cup AuthenticatedGroups), left |-> m]
<1>1. GrantedToken = {t(x, m) : x \in Login, m \in 0..SessionTimeout}
  BY DEF GrantedToken
<1> HIDE DEF t
<1>2. t(l, n) \in GrantedToken
  BY <1>1
<1>3. QED
  BY <1>2 DEF t

\* A login makes a granted token with all its time.
LEMMA Fresh ==
  ASSUME NEW l \in Login
  PROVE  LET t == NewSessionToken(l.user, GroupsOf(l))
         IN t \in GrantedToken /\ t.left = SessionTimeout /\ Identity(t) \in GrantedIdentity
<1> DEFINE t == NewSessionToken(l.user, GroupsOf(l))
<1>1. SessionTimeout \in 0..SessionTimeout
  BY SessionAssumption
<1>2. t \in GrantedToken
  BY <1>1, MadeGranted DEF NewSessionToken
<1>3. t.left = SessionTimeout
  BY DEF NewSessionToken
<1>4. Identity(t) \in GrantedIdentity
  BY <1>2, LiveGranted, GrantedLive DEF AnyToken
<1>5. QED
  BY <1>2, <1>3, <1>4

\* A renewal keeps the user and the groups.
LEMMA Renewal ==
  ASSUME NEW t \in AnyToken
  PROVE  LET k == KeepSessionAlive(t)
         IN \/ k = NoToken /\ (Live(t) => t.left >= Half)
            \/ Live(t) /\ k \in GrantedToken /\ k.left = SessionTimeout
<1>1. CASE Live(t) /\ t.left < Half
  <2>1. PICK l \in Login, n \in 0..SessionTimeout :
          t = [user |-> l.user, groups |-> Join(GroupsOf(l) \cup AuthenticatedGroups), left |-> n]
    BY <1>1, LiveGranted DEF GrantedToken
  <2>2. KeepSessionAlive(t) = [user |-> l.user, groups |-> Join(GroupsOf(l) \cup AuthenticatedGroups), left |-> SessionTimeout]
    BY <1>1, <2>1 DEF Live, KeepSessionAlive, WithClaims, NewSessionToken
  <2>3. QED
    BY <1>1, <2>2, MadeGranted, SessionAssumption
<1>2. CASE Live(t) /\ ~(t.left < Half)
  <2>1. t.left >= Half
    BY <1>2, LiveGranted, HalfBound, SessionAssumption
  <2>2. QED
    BY <1>2, <2>1 DEF Live, KeepSessionAlive
<1>3. CASE ~Live(t)
  BY <1>3 DEF Live, KeepSessionAlive
<1>4. QED
  BY <1>1, <1>2, <1>3

\* A tick takes one unit of a token, and none turns into no token.
LEMMA Aging ==
  ASSUME NEW t \in AnyToken
  PROVE  /\ Older(t) \in AnyToken
         /\ Live(Older(t)) => Live(t) /\ Older(t).left + 1 = t.left
         /\ Older(t) = NoToken => t = NoToken
<1>1. CASE ~Live(t)
  BY <1>1 DEF Older, Live
<1>2. CASE Live(t)
  <2>1. PICK l \in Login, n \in 0..SessionTimeout :
          t = [user |-> l.user, groups |-> Join(GroupsOf(l) \cup AuthenticatedGroups), left |-> n]
    BY <1>2, LiveGranted DEF GrantedToken
  <2>2. CASE n = 0
    BY <1>2, <2>1, <2>2, SessionAssumption DEF Older, Live, AnyToken, ParseSessionToken
  <2>3. CASE n # 0
    <3>1. Older(t) = [user |-> l.user, groups |-> Join(GroupsOf(l) \cup AuthenticatedGroups), left |-> n - 1]
      BY <1>2, <2>1, <2>3 DEF Older, Live
    <3>2. n - 1 \in 0..SessionTimeout /\ (n - 1) + 1 = n
      BY <2>3, SessionAssumption
    <3>3. Older(t) \in GrantedToken
      BY <3>1, <3>2, MadeGranted
    <3>4. QED
      BY <1>2, <2>1, <3>1, <3>2, <3>3, GrantedLive DEF Live, ParseSessionToken, AnyToken
  <2>4. QED
    BY <2>2, <2>3
<1>3. QED
  BY <1>1, <1>2

\* No token outlives a restart.
LEMMA Unsigning ==
  ASSUME NEW t \in AnyToken
  PROVE  Unsigned(t) \in AnyToken /\ ~Live(Unsigned(t))
BY DEF Unsigned, AnyToken, Live, ParseSessionToken
-----------------------------------------------------------------------------
(* Steps that change one call, load the page, or hand over an answer. *)

\* What an idle call is, and one that is lost.
LEMMA IdleCall ==
  /\ Idle \in CallType /\ Idle.stage = "idle"
  /\ \A k : SentTimely(Idle, k) /\ AnswerTimely(Idle, k)
  /\ Idle.set = NoToken /\ Lost.set = NoToken
  /\ Lost \in CallType /\ Lost.stage = "lost"
  /\ \A k : SentTimely(Lost, k) /\ AnswerTimely(Lost, k)
<1>1. Idle \in CallType
  BY SessionAssumption DEF Idle, CallType, AnyToken
<1>2. Idle.stage = "idle" /\ Idle.set = NoToken
  BY DEF Idle
<1>3. Lost \in CallType /\ Lost.stage = "lost" /\ Lost.set = NoToken
  BY <1>1, <1>2 DEF Lost, CallType
<1>4. QED
  BY <1>1, <1>2, <1>3 DEF SentTimely, AnswerTimely

\* The age of a call is a number of ticks.
LEMMA CallAge ==
  ASSUME NEW c \in CallType
  PROVE  c.age \in 0..MaxDelay /\ c.age \in Nat
<1>1. c.age \in 0..MaxDelay
  BY DEF CallType
<1>2. QED
  BY <1>1, SessionAssumption

\* A call that is sent with the cookie of the browser.
LEMMA SentCall ==
  ASSUME NEW k \in AnyToken, NEW what \in {"mount", "poll", "fetch", "socket"}
  PROVE  LET c == [Idle EXCEPT !.stage = "sent", !.what = what, !.cookie = k]
         IN c \in CallType /\ SentTimely(c, k) /\ AnswerTimely(c, k)
<1> DEFINE c == [Idle EXCEPT !.stage = "sent", !.what = what, !.cookie = k]
<1>1. c \in CallType /\ c.stage = "sent" /\ c.cookie = k
  BY IdleCall DEF CallType
<1>2. Live(k) => k.left \in Nat
  BY LiveGranted, SessionAssumption
<1> HIDE DEF c
<1>3. SentTimely(c, k) /\ AnswerTimely(c, k)
  BY <1>1, <1>2 DEF SentTimely, AnswerTimely
<1>4. QED
  BY <1>1, <1>3 DEF c

\* A step that changes one call only.
LEMMA OneCall ==
  ASSUME SessionInv, NEW s \in Slot, NEW c \in CallType,
         SentTimely(c, cookie), AnswerTimely(c, cookie),
         s = "login" /\ c.stage = "sent" => c.login \in Login,
         calls' = [calls EXCEPT ![s] = c], cookie' = cookie, quiet' = quiet
  PROVE  SessionInv'
<1>1. calls \in [Slot -> CallType]
  BY DEF SessionInv, Types
<1>2. calls' \in [Slot -> CallType] /\ \A r \in Slot : calls'[r] = IF r = s THEN c ELSE calls[r]
  BY <1>1
<1>3. Types'
  BY <1>2 DEF SessionInv, Types, Slot
<1>4. \A r \in Slot : SentTimely(calls'[r], cookie) /\ AnswerTimely(calls'[r], cookie)
  BY <1>2 DEF SessionInv, Timely
<1>5. Timely'
  BY <1>4 DEF SessionInv, Timely, SentTimely, AnswerTimely, Live, ParseSessionToken
<1>6. QED
  BY <1>3, <1>5 DEF SessionInv

\* The page is loaded with a cookie.
LEMMA Mounting ==
  ASSUME SessionInv, NEW k \in AnyToken, cookie' = k, calls' = Mounted(k),
         quiet' \in 0..Half, Live(k) => k.left + quiet' >= Half
  PROVE  SessionInv'
<1> DEFINE c == [Idle EXCEPT !.stage = "sent", !.what = "mount", !.cookie = k]
<1>1. c \in CallType /\ SentTimely(c, k) /\ AnswerTimely(c, k)
  BY SentCall
<1>2. \A r \in Slot : calls'[r] = IF r = "session" THEN c ELSE Idle
  BY DEF Mounted
<1>3. calls' \in [Slot -> CallType]
  BY <1>1, IdleCall DEF Mounted
<1> HIDE DEF c
<1>4. Types'
  BY <1>2, <1>3, IdleCall DEF Types, Slot
<1>5. \A r \in Slot : SentTimely(calls'[r], k) /\ AnswerTimely(calls'[r], k)
  BY <1>1, <1>2, IdleCall
<1>6. Timely'
  BY <1>5 DEF Timely, SentTimely, AnswerTimely, Live, ParseSessionToken
<1>7. QED
  BY <1>4, <1>6 DEF SessionInv

\* The answer of a call arrives, with or without a cookie.
LEMMA Arrival ==
  ASSUME SessionInv, NEW s \in Slot, Arrive(s)
  PROVE  SessionInv'
<1> DEFINE c == calls[s]
<1>1. c \in CallType /\ c.stage = "answered" /\ AnswerTimely(c, cookie) /\ cookie \in AnyToken
  BY DEF SessionInv, Types, Timely, Arrive
<1>2. c.set \in AnyToken /\ c.age \in 0..MaxDelay
  BY <1>1 DEF CallType
<1>3. \A r \in Slot : calls'[r] = IF r = s THEN Idle ELSE calls[r]
  BY DEF Arrive, SessionInv, Types
<1>4. Types'
  <2>1. calls' \in [Slot -> CallType]
    BY IdleCall DEF Arrive, SessionInv, Types
  <2>2. cookie' \in AnyToken
    BY <1>1, <1>2 DEF Arrive
  <2>3. quiet' \in 0..Half
    BY <1>2, HalfBound, SessionAssumption DEF Arrive, SessionInv, Types
  <2>4. QED
    BY <2>1, <2>2, <2>3, <1>3, IdleCall DEF SessionInv, Types, Slot
<1>5. CASE c.set = NoToken
  <2>1. cookie' = cookie
    BY <1>5 DEF Arrive
  <2>2. \A r \in Slot : SentTimely(calls'[r], cookie) /\ AnswerTimely(calls'[r], cookie)
    BY <1>3, IdleCall DEF SessionInv, Timely
  <2>3. Live(cookie) => cookie.left + quiet' >= Half
    <3>1. CASE quiet' = quiet
      BY <3>1 DEF SessionInv, Timely
    <3>2. CASE quiet' # quiet
      BY <3>2, <1>1, <1>5 DEF Arrive, AnswerTimely
    <3>3. QED
      BY <3>1, <3>2
  <2>4. Timely'
    BY <2>1, <2>2, <2>3 DEF Timely, SentTimely, AnswerTimely, Live, ParseSessionToken
  <2>5. QED
    BY <1>4, <2>4 DEF SessionInv
<1>6. CASE c.set # NoToken
  <2>1. cookie' = c.set
    BY <1>6 DEF Arrive
  <2>2. Live(c.set) => c.set.left \in Nat /\ c.set.left + c.age >= SessionTimeout
    BY <1>1, <1>2, LiveGranted, SessionAssumption DEF AnswerTimely
  <2>3. Live(c.set) => c.set.left + MaxDelay >= SessionTimeout /\ c.set.left >= Half
    BY <1>2, <2>2, HalfBound, SessionAssumption
  <2>4. ASSUME NEW r \in Slot
        PROVE  SentTimely(calls'[r], c.set) /\ AnswerTimely(calls'[r], c.set)
    <3>1. CASE r = s
      BY <3>1, <1>3, IdleCall
    <3>2. CASE r # s
      <4>a. calls'[r] = calls[r] /\ calls[r] \in CallType /\ AnswerTimely(calls[r], cookie)
        BY <3>2, <1>3 DEF SessionInv, Types, Timely
      <4>b. calls[r].age \in Nat
        BY <4>a, CallAge
      <4>1. /\ calls'[r] = calls[r] /\ calls[r] \in CallType /\ calls[r].age \in Nat
            /\ AnswerTimely(calls[r], cookie)
        BY <4>a, <4>b
      <4>2. SentTimely(calls[r], c.set)
        BY <4>1, <2>2, <2>3, SessionAssumption DEF SentTimely
      <4>3. AnswerTimely(calls[r], c.set)
        BY <4>1, <2>2, <2>3, HalfBound DEF AnswerTimely
      <4>4. QED
        BY <4>1, <4>2, <4>3
    <3>3. QED
      BY <3>1, <3>2
  <2>5. quiet' \in Nat
    BY <1>4, HalfBound DEF Types
  <2>6. Live(c.set) => c.set.left + quiet' >= Half
    BY <2>2, <2>3, <2>5, HalfBound
  <2>7. Timely'
    BY <2>1, <2>4, <2>6 DEF Timely, SentTimely, AnswerTimely, Live, ParseSessionToken
  <2>8. QED
    BY <1>4, <2>7 DEF SessionInv
<1>7. QED
  BY <1>5, <1>6

\* A tick ages the cookie, every call and every cookie on its way.
LEMMA Ticking ==
  ASSUME SessionInv, Tick
  PROVE  SessionInv'
<1>1. cookie \in AnyToken /\ calls \in [Slot -> CallType] /\ quiet \in 0..Half
  BY DEF SessionInv, Types
<1>2. /\ cookie' \in AnyToken
      /\ Live(cookie') => Live(cookie) /\ cookie'.left + 1 = cookie.left /\ cookie'.left \in Nat /\ cookie.left \in Nat
  <2>1. cookie' = Older(cookie)
    BY DEF Tick
  <2>2. QED
    BY <1>1, <2>1, Aging, LiveGranted, SessionAssumption
<1>3. quiet' \in 0..Half /\ quiet \in Nat /\ (quiet' = Half \/ quiet' = quiet + 1)
  <2>1. quiet' = IF quiet = Half THEN Half ELSE quiet + 1
    BY DEF Tick
  <2>2. Half \in Nat
    BY HalfBound
  <2>3. QED
    BY <1>1, <2>1, <2>2
<1>4. ASSUME NEW r \in Slot
      PROVE  /\ calls'[r] \in CallType
             /\ calls'[r].stage = calls[r].stage /\ calls'[r].login = calls[r].login
             /\ SentTimely(calls'[r], cookie') /\ AnswerTimely(calls'[r], cookie')
  <2> DEFINE c == calls[r]  d == calls'[r]
  <2>1. c \in CallType
    BY <1>1
  <2>2. d = [c EXCEPT !.cookie = Older(c.cookie), !.set = Older(c.set),
                      !.age = IF c.stage \in Over THEN 0 ELSE c.age + 1]
    BY DEF Tick
  <2>3. c.cookie \in AnyToken /\ c.set \in AnyToken /\ c.age \in 0..MaxDelay
    BY <2>1 DEF CallType
  <2>4. (IF c.stage \in Over THEN 0 ELSE c.age + 1) \in 0..MaxDelay
    <3>1. c.stage \in Over \/ c.age < MaxDelay
      BY DEF Tick
    <3>2. MaxDelay \in Nat
      BY SessionAssumption
    <3> HIDE DEF c
    <3>3. QED
      BY <2>3, <3>1, <3>2
  <2>5. Older(c.cookie) \in AnyToken /\ Older(c.set) \in AnyToken
    BY <2>3, Aging
  <2>6. d \in CallType
    BY <2>1, <2>2, <2>4, <2>5 DEF CallType
  <2>7. /\ d.stage = c.stage /\ d.what = c.what /\ d.login = c.login /\ d.as = c.as
        /\ d.cookie = Older(c.cookie) /\ d.set = Older(c.set)
        /\ c.stage \notin Over => d.age = c.age + 1
    BY <2>1, <2>2 DEF CallType
  <2>8. SentTimely(c, cookie) /\ AnswerTimely(c, cookie)
    BY DEF SessionInv, Timely
  <2>9. c.age \in Nat /\ MaxDelay \in Nat /\ SessionTimeout \in Nat
    BY <2>3, SessionAssumption
  <2> HIDE DEF c, d
  <2>10. SentTimely(d, cookie')
    <3>1. SUFFICES ASSUME d.stage = "sent", Live(d.cookie), Live(cookie')
                   PROVE  cookie'.left >= d.cookie.left \/ cookie'.left + d.age + MaxDelay >= SessionTimeout
      BY DEF SentTimely
    <3>2. Live(c.cookie) /\ d.cookie.left + 1 = c.cookie.left /\ d.cookie.left \in Nat
      BY <2>3, <2>5, <2>7, <3>1, Aging, LiveGranted, SessionAssumption
    <3>3. cookie.left >= c.cookie.left \/ cookie.left + c.age + MaxDelay >= SessionTimeout
      BY <1>2, <2>7, <2>8, <3>1, <3>2 DEF SentTimely
    <3>4. d.age = c.age + 1
      BY <2>7, <3>1 DEF Over
    <3>5. QED
      BY <1>2, <2>9, <3>1, <3>2, <3>3, <3>4
  <2>11. AnswerTimely(d, cookie')
    <3>1. SUFFICES ASSUME d.stage = "answered"
                   PROVE  /\ Live(d.set) => d.set.left + d.age >= SessionTimeout
                          /\ d.as # NoUser /\ d.what # "socket" /\ d.set = NoToken /\ Live(cookie')
                               => cookie'.left + d.age >= Half
      BY DEF AnswerTimely
    <3>2. d.age = c.age + 1
      BY <2>7, <3>1 DEF Over
    <3>3. ASSUME Live(d.set) PROVE d.set.left + d.age >= SessionTimeout
      <4>1. Live(c.set) /\ d.set.left + 1 = c.set.left /\ d.set.left \in Nat
        BY <2>3, <2>5, <2>7, <3>3, Aging, LiveGranted, SessionAssumption
      <4>2. c.set.left + c.age >= SessionTimeout
        BY <2>7, <2>8, <3>1, <4>1 DEF AnswerTimely
      <4>3. QED
        BY <2>9, <3>2, <4>1, <4>2
    <3>4. ASSUME d.as # NoUser, d.what # "socket", d.set = NoToken, Live(cookie')
          PROVE  cookie'.left + d.age >= Half
      <4>1. c.set = NoToken
        BY <2>3, <2>7, <3>4, Aging
      <4>2. cookie.left + c.age >= Half
        BY <1>2, <2>7, <2>8, <3>1, <3>4, <4>1 DEF AnswerTimely
      <4>3. QED
        BY <1>2, <2>9, <3>2, <3>4, <4>2
    <3>5. QED
      BY <3>3, <3>4
  <2>12. QED
    BY <2>6, <2>7, <2>10, <2>11 DEF c, d
<1>5. Types'
  <2>1. calls' \in [Slot -> CallType]
    BY <1>4 DEF Tick
  <2>2. QED
    BY <1>2, <1>3, <1>4, <2>1 DEF SessionInv, Types, Slot
<1>6. Live(cookie') => cookie'.left + quiet' >= Half
  BY <1>2, <1>3, HalfBound DEF SessionInv, Timely
<1>7. Timely'
  BY <1>4, <1>6 DEF Timely, SentTimely, AnswerTimely, Live, ParseSessionToken
<1>8. QED
  BY <1>5, <1>7 DEF SessionInv

\* A restart ends every session.
LEMMA Restarting ==
  ASSUME SessionInv, Restart
  PROVE  SessionInv'
<1>1. cookie \in AnyToken /\ calls \in [Slot -> CallType] /\ quiet \in 0..Half
  BY DEF SessionInv, Types
<1>2. cookie' \in AnyToken /\ ~Live(cookie') /\ quiet' = quiet
  BY <1>1, Unsigning DEF Restart
<1>3. PICK dropped \in SUBSET Slot :
        calls' = [s \in Slot |-> IF s \in dropped THEN Dropped(s)
                                 ELSE [calls[s] EXCEPT !.cookie = Unsigned(@), !.set = Unsigned(@)]]
  BY DEF Restart
<1>4. ASSUME NEW r \in Slot
      PROVE  /\ calls'[r] \in CallType
             /\ calls'[r].stage = "sent" => calls[r].stage = "sent" /\ calls'[r].login = calls[r].login
             /\ ~Live(calls'[r].set)
  <2> DEFINE c == calls[r]
             d == calls'[r]
  <2>1. CASE r \in dropped
    <3>1. d = Idle \/ d = Lost
      BY <1>3, <2>1 DEF Dropped
    <3>2. d.set = NoToken
      BY <3>1, IdleCall
    <3> HIDE DEF d
    <3>3. d \in CallType /\ d.stage # "sent" /\ ~Live(d.set)
      BY <3>1, <3>2, IdleCall DEF Live, ParseSessionToken
    <3> QED BY <3>3 DEF d
  <2>2. CASE r \notin dropped
    <3>1. c \in CallType /\ d = [c EXCEPT !.cookie = Unsigned(c.cookie), !.set = Unsigned(c.set)]
      BY <1>1, <1>3, <2>2
    <3>2. c.cookie \in AnyToken /\ c.set \in AnyToken
      BY <3>1 DEF CallType
    <3>3. Unsigned(c.cookie) \in AnyToken /\ Unsigned(c.set) \in AnyToken /\ ~Live(Unsigned(c.set))
      BY <3>2, Unsigning
    <3> HIDE DEF c, d
    <3>4. d \in CallType /\ d.stage = c.stage /\ d.login = c.login /\ d.set = Unsigned(c.set)
      BY <3>1, <3>3 DEF CallType
    <3> QED BY <3>3, <3>4 DEF c, d
  <2> QED BY <2>1, <2>2
<1>5. Types'
  <2>1. calls' \in [Slot -> CallType]
    BY <1>3, <1>4
  <2> QED BY <1>1, <1>2, <1>4, <2>1 DEF SessionInv, Types, Slot
<1>6. Timely'
  BY <1>2, <1>4 DEF Timely, SentTimely, AnswerTimely, Live, ParseSessionToken
<1>7. QED
  BY <1>5, <1>6 DEF SessionInv
-----------------------------------------------------------------------------
(* The theorems. *)

\* The call of a token is answered: who it runs as, and the cookie it sets.
LEMMA Answered ==
  ASSUME SessionInv, NEW s \in Slot, calls[s].stage = "sent",
         NEW as \in GrantedIdentity \cup {NoUser}, NEW set \in AnyToken,
         Live(set) => set.left = SessionTimeout,
         as # NoUser /\ calls[s].what # "socket" /\ set = NoToken
           => Live(calls[s].cookie) /\ calls[s].cookie.left >= Half,
         Answer(s, as, set), cookie' = cookie, quiet' = quiet
  PROVE  SessionInv'
<1> DEFINE b == calls[s]
           c == [b EXCEPT !.stage = "answered", !.cookie = NoToken, !.as = as, !.set = set]
<1>1. b \in CallType /\ calls \in [Slot -> CallType] /\ cookie \in AnyToken /\ SentTimely(b, cookie)
  BY DEF SessionInv, Types, Timely
<1>2. calls' = [calls EXCEPT ![s] = c]
  BY <1>1 DEF Answer
<1>3. /\ c \in CallType /\ c.stage = "answered" /\ c.what = b.what
      /\ c.age = b.age /\ c.as = as /\ c.set = set
  BY <1>1 DEF CallType, AnyToken
<1>4. b.stage = "sent" /\ b.age \in 0..MaxDelay /\ b.age \in Nat
  BY <1>1, CallAge
<1>5. as # NoUser /\ b.what # "socket" /\ set = NoToken => Live(b.cookie) /\ b.cookie.left >= Half
  OBVIOUS
<1>6. Live(b.cookie) => b.cookie.left \in Nat
  <2>1. b.cookie \in AnyToken
    BY <1>1 DEF CallType
  <2>2. QED
    BY <2>1, LiveGranted, SessionAssumption
<1>7. Live(cookie) => cookie.left \in Nat
  BY <1>1, LiveGranted, SessionAssumption
<1> HIDE DEF b, c
<1>8. SentTimely(c, cookie)
  BY <1>3 DEF SentTimely
<1>9. Live(set) => set.left + c.age >= SessionTimeout
  BY <1>3, <1>4, SessionAssumption
<1>10. ASSUME as # NoUser, b.what # "socket", set = NoToken, Live(cookie)
       PROVE  cookie.left + b.age >= Half
  <2>1. cookie.left >= b.cookie.left \/ cookie.left + b.age + MaxDelay >= SessionTimeout
    BY <1>1, <1>4, <1>5, <1>10 DEF SentTimely
  <2>2. CASE cookie.left >= b.cookie.left
    <3>1. Live(b.cookie) /\ b.cookie.left >= Half /\ Half \in Nat
      BY <1>5, <1>10, HalfBound
    <3>2. b.cookie.left \in Nat /\ cookie.left \in Nat
      BY <3>1, <1>6, <1>7, <1>10
    <3>3. QED
      BY <2>2, <3>1, <3>2, <1>4
  <2>3. CASE cookie.left + b.age + MaxDelay >= SessionTimeout
    BY <2>3, <1>4, <1>7, <1>10, HalfBound
  <2>4. QED
    BY <2>1, <2>2, <2>3
<1>11. AnswerTimely(c, cookie)
  BY <1>3, <1>9, <1>10 DEF AnswerTimely
<1>12. QED
  BY <1>2, <1>3, <1>8, <1>11, OneCall

\* Who a call with a token runs as, and the cookie of its answer (UserInfo, AuthDelegate).
LEMMA Served ==
  ASSUME SessionInv, NEW s \in Slot, calls[s].stage = "sent",
         Answer(s, IF Live(calls[s].cookie) THEN Identity(calls[s].cookie) ELSE NoUser,
                KeepSessionAlive(calls[s].cookie)),
         cookie' = cookie, quiet' = quiet
  PROVE  SessionInv'
<1> DEFINE t == calls[s].cookie
           as == IF Live(t) THEN Identity(t) ELSE NoUser
           set == KeepSessionAlive(t)
<1>1. t \in AnyToken
  BY DEF SessionInv, Types, CallType
<1>2. as \in GrantedIdentity \cup {NoUser}
  BY <1>1, LiveGranted
<1>3. \/ set = NoToken /\ (Live(t) => t.left >= Half)
      \/ set \in GrantedToken /\ set.left = SessionTimeout
  BY <1>1, Renewal
<1>4. ~Live(NoToken)
  BY DEF Live, ParseSessionToken
<1>5. set \in AnyToken /\ (Live(set) => set.left = SessionTimeout)
  BY <1>3, <1>4 DEF AnyToken
<1>6. as # NoUser => Live(t)
  OBVIOUS
<1>7. Answer(s, as, set)
  OBVIOUS
<1> HIDE DEF as, set
<1>8. as # NoUser /\ calls[s].what # "socket" /\ set = NoToken => Live(t) /\ t.left >= Half
  BY <1>3, <1>6, GrantedLive, <1>4
<1>9. QED
  BY <1>2, <1>5, <1>7, <1>8, Answered

\* The upgrade of a socket drops the cookie.
LEMMA CookieLost ==
  ASSUME SessionInv, NEW s \in Slot, calls[s].stage = "sent", calls[s].what = "socket",
         Answer(s, IF Live(calls[s].cookie) THEN Identity(calls[s].cookie) ELSE NoUser, NoToken),
         cookie' = cookie, quiet' = quiet
  PROVE  SessionInv'
<1> DEFINE t == calls[s].cookie
           as == IF Live(t) THEN Identity(t) ELSE NoUser
<1>1. t \in AnyToken
  BY DEF SessionInv, Types, CallType
<1>2. as \in GrantedIdentity \cup {NoUser}
  BY <1>1, LiveGranted
<1>3. ~Live(NoToken) /\ NoToken \in AnyToken
  BY DEF Live, ParseSessionToken, AnyToken
<1>4. Answer(s, as, NoToken)
  OBVIOUS
<1> HIDE DEF as
<1>5. QED
  BY <1>2, <1>3, <1>4, Answered

\* The initial states.
LEMMA SessionStart == SessionInit => SessionInv
<1> SUFFICES ASSUME SessionInit PROVE SessionInv
  OBVIOUS
<1>1. NoToken \in AnyToken /\ ~Live(NoToken)
  BY DEF AnyToken, Live, ParseSessionToken
<1> DEFINE c == [Idle EXCEPT !.stage = "sent", !.what = "mount", !.cookie = NoToken]
<1>2. c \in CallType /\ SentTimely(c, NoToken) /\ AnswerTimely(c, NoToken)
  BY <1>1, SentCall
<1>3. calls \in [Slot -> CallType] /\ \A r \in Slot : calls[r] = IF r = "session" THEN c ELSE Idle
  BY <1>2, IdleCall DEF SessionInit, Mounted
<1> HIDE DEF c
<1>4. Types
  BY <1>1, <1>3, IdleCall, HalfBound DEF SessionInit, Types, Slot
<1>5. Timely
  BY <1>1, <1>2, <1>3, IdleCall DEF SessionInit, Timely
<1>6. QED
  BY <1>4, <1>5 DEF SessionInv

\* Every step keeps the invariant.
LEMMA SessionStep ==
  ASSUME SessionInv, [SessionNext]_sessionVars
  PROVE  SessionInv'
<1>1. ASSUME cookie' = cookie, calls' = calls, quiet' = quiet PROVE SessionInv'
  BY <1>1 DEF SessionInv, Types, Timely, SentTimely, AnswerTimely, Live, ParseSessionToken
<1>2. ASSUME NEW l \in Login, LoginAndMount(l) PROVE SessionInv'
  <2> DEFINE t == NewSessionToken(l.user, GroupsOf(l))
  <2>1. t \in AnyToken /\ t.left = SessionTimeout
    BY Fresh DEF AnyToken
  <2>2. cookie' = t /\ calls' = Mounted(t) /\ quiet' = 0
    BY <1>2 DEF LoginAndMount, Mount
  <2>3. t.left + quiet' >= Half /\ quiet' \in 0..Half
    BY <2>1, <2>2, HalfBound, SessionAssumption
  <2> HIDE DEF t
  <2>4. QED
    BY <2>1, <2>2, <2>3, Mounting
<1>3. cookie \in AnyToken /\ calls \in [Slot -> CallType]
  BY DEF SessionInv, Types
<1>4. CASE UserInfo
  <2>1. /\ calls["session"].stage = "sent" /\ cookie' = cookie /\ quiet' = quiet
        /\ Answer("session", IF Live(calls["session"].cookie) THEN Identity(calls["session"].cookie) ELSE NoUser,
                  KeepSessionAlive(calls["session"].cookie))
    BY <1>4 DEF UserInfo, Live
  <2>2. QED
    BY <2>1, Served DEF Slot
<1>5. CASE AuthDelegate
  <2> DEFINE t == calls["api"].cookie  lost == calls["api"].what = "socket" \/ ~Live(t)
  <2>1. calls["api"].stage = "sent" /\ cookie' = cookie /\ quiet' = quiet
    BY <1>5 DEF AuthDelegate
  <2>2. ~Live(t) => KeepSessionAlive(t) = NoToken
    BY DEF KeepSessionAlive, Live
  <2>3. CASE calls["api"].what = "socket"
    <3>1. Answer("api", IF Live(t) THEN Identity(t) ELSE NoUser, NoToken)
      BY <1>5, <2>3 DEF AuthDelegate, Live
    <3>2. QED
      BY <2>1, <2>3, <3>1, CookieLost DEF Slot
  <2>4. CASE calls["api"].what # "socket"
    <3>1. Answer("api", IF Live(t) THEN Identity(t) ELSE NoUser, KeepSessionAlive(t))
      BY <1>5, <2>2, <2>4 DEF AuthDelegate, Live
    <3>2. QED
      BY <2>1, <3>1, Served DEF Slot
  <2>5. QED
    BY <2>3, <2>4
<1>6. CASE PasswordLogin
  <2> DEFINE l == calls["login"].login  t == NewSessionToken(l.user, GroupsOf(l))
  <2>1. calls["login"].stage = "sent" /\ cookie' = cookie /\ quiet' = quiet
    BY <1>6 DEF PasswordLogin
  <2>2. l \in Login
    BY <2>1 DEF SessionInv, Types
  <2>3. t \in AnyToken /\ t # NoToken /\ t.left = SessionTimeout /\ Identity(t) \in GrantedIdentity
    BY <2>2, Fresh, GrantedLive DEF AnyToken, Live, ParseSessionToken
  <2>4. NoToken \in AnyToken /\ ~Live(NoToken)
    BY DEF AnyToken, Live, ParseSessionToken
  <2>5. Answer("login", Identity(t), t) \/ Answer("login", NoUser, NoToken)
    BY <1>6 DEF PasswordLogin
  <2> HIDE DEF t
  <2>6. QED
    BY <2>1, <2>3, <2>4, <2>5, Answered DEF Slot
<1>7. CASE Receive
  BY <1>7, Arrival DEF Receive, ReceiveUserInfo, ReceiveApi, ReceiveLogin, Slot
<1>8. CASE SwaggerAnswered \/ SwaggerFails \/ HandleLogout
  BY <1>1, <1>8 DEF SwaggerAnswered, SwaggerFails, HandleLogout
<1>9. CASE \E s \in Slot : FetchFails(s)
  BY <1>9, OneCall, IdleCall DEF FetchFails, Dropped
<1>10. CASE UpdateSession
  <2> DEFINE c == [Idle EXCEPT !.stage = "sent", !.what = "poll", !.cookie = cookie]
  <2>1. calls' = [calls EXCEPT !["session"] = c] /\ cookie' = cookie /\ quiet' = quiet
    BY <1>10 DEF UpdateSession, Send
  <2>2. c \in CallType /\ SentTimely(c, cookie) /\ AnswerTimely(c, cookie)
    BY <1>3, SentCall
  <2> HIDE DEF c
  <2>3. QED
    BY <2>1, <2>2, OneCall DEF Slot
<1>11. ASSUME NEW what \in {"fetch", "socket"}, CallApi(what) PROVE SessionInv'
  <2> DEFINE c == [Idle EXCEPT !.stage = "sent", !.what = what, !.cookie = cookie]
  <2>1. calls' = [calls EXCEPT !["api"] = c] /\ cookie' = cookie /\ quiet' = quiet
    BY <1>11 DEF CallApi, Send
  <2>2. c \in CallType /\ SentTimely(c, cookie) /\ AnswerTimely(c, cookie)
    BY <1>3, SentCall
  <2> HIDE DEF c
  <2>3. QED
    BY <2>1, <2>2, OneCall DEF Slot
<1>12. ASSUME NEW l \in Login, HandleLogin(l) PROVE SessionInv'
  <2> DEFINE c == [Idle EXCEPT !.stage = "sent", !.login = l]
  <2>1. calls' = [calls EXCEPT !["login"] = c] /\ cookie' = cookie /\ quiet' = quiet
    BY <1>12 DEF HandleLogin
  <2>2. c \in CallType /\ c.login = l /\ c.stage = "sent" /\ c.cookie = NoToken
    BY IdleCall DEF CallType, Idle
  <2> HIDE DEF c
  <2>3. SentTimely(c, cookie) /\ AnswerTimely(c, cookie)
    BY <2>2 DEF SentTimely, AnswerTimely, Live, ParseSessionToken
  <2>4. QED
    BY <2>1, <2>2, <2>3, OneCall DEF Slot
<1>13. CASE ReloadPage
  BY <1>3, <1>13, Mounting DEF ReloadPage, Mount, SessionInv, Types, Timely
<1>14. CASE OidcStart
  <2>1. calls' = [s \in Slot |-> Idle] /\ cookie' = cookie /\ quiet' = quiet
    BY <1>14 DEF OidcStart
  <2>2. \A s \in Slot : calls'[s] = Idle
    BY <2>1
  <2>3. Types'
    BY <2>1, <2>2, IdleCall DEF SessionInv, Types, Slot
  <2>4. Timely'
    BY <2>1, <2>2, IdleCall DEF SessionInv, Timely, SentTimely, AnswerTimely, Live, ParseSessionToken
  <2>5. QED
    BY <2>3, <2>4 DEF SessionInv
<1>15. CASE Tick
  BY <1>15, Ticking
<1>16. CASE Restart
  BY <1>16, Restarting
<1>17. CASE UNCHANGED sessionVars
  BY <1>1, <1>17 DEF sessionVars
<1>18. QED
  BY <1>2, <1>4, <1>5, <1>6, <1>7, <1>8, <1>9, <1>10, <1>11, <1>12, <1>13, <1>14, <1>15, <1>16, <1>17
     DEF SessionNext, Handle, AnonymousLogin, SamlLogin, OidcCallback

\* The invariant holds in every behaviour.
THEOREM SessionsTimely == SessionSpec => []SessionInv
<1>1. SessionInv /\ [SessionNext]_sessionVars => SessionInv'
  BY SessionStep
<1>2. QED
  BY <1>1, SessionStart, PTL DEF SessionSpec

\* A request runs as one login: its user and the groups that survive the comma of
\* Join and Split, however often its token was renewed (NewAuthDelegate,
\* keepSessionAlive), for any logins, any groups and any names.
THEOREM ServedAsGrantedAlways == SessionSpec => []ServedAsGranted
<1>1. SessionInv => ServedAsGranted
  <2> SUFFICES ASSUME SessionInv, NEW s \in Slot, calls[s].as # NoUser
               PROVE  \E l \in Login :
                        LET names == GroupsOf(l) \cup AuthenticatedGroups IN
                        /\ calls[s].as.user = l.user
                        /\ \A name \in names : (\E piece \in name : name = {piece}) => name \in calls[s].as.groups
                        /\ \A group \in calls[s].as.groups :
                             \/ \E name \in names : \E piece \in name : group = {piece}
                             \/ names = {} /\ group = {""}
    BY DEF ServedAsGranted
  <2> DEFINE as == calls[s].as
  <2>1. as \in GrantedIdentity
    BY DEF SessionInv, Types, CallType
  <2>2. PICK l \in Login : as = [user |-> l.user, groups |-> Groups(Join(GroupsOf(l) \cup AuthenticatedGroups))]
    BY <2>1 DEF GrantedIdentity
  <2> DEFINE names == GroupsOf(l) \cup AuthenticatedGroups
  <2>3. as.user = l.user /\ as.groups = Groups(Join(names))
    BY <2>2
  <2> HIDE DEF as
  <2> SUFFICES /\ \A name \in names : (\E piece \in name : name = {piece}) => name \in as.groups
               /\ \A group \in as.groups :
                    \/ \E name \in names : \E piece \in name : group = {piece}
                    \/ names = {} /\ group = {""}
    BY <2>3 DEF as
  <2> HIDE DEF names
  <2>4. CASE names = {}
    <3>1. as.groups = {{""}}
      BY <2>3, <2>4 DEF Join, Groups
    <3> QED BY <2>4, <3>1
  <2>5. CASE names # {}
    <3>1. as.groups = {{piece} : piece \in UNION names}
      BY <2>3, <2>5 DEF Join, Groups
    <3> QED BY <3>1
  <2> QED BY <2>4, <2>5
<1>2. QED
  BY <1>1, SessionsTimely, PTL

\* Whoever had a request served within half a timeout has a cookie that lasts for the rest
\* of that half, for any timeout and any delay of a call up to a quarter of it, in
\* whatever order answers and the cookies they set arrive (keepSessionAlive).
THEOREM ActiveStaysSignedInAlways == SessionSpec => []ActiveStaysSignedIn
<1>1. SessionInv => ActiveStaysSignedIn
  BY DEF SessionInv, Timely, ActiveStaysSignedIn, Live
<1>2. QED
  BY <1>1, SessionsTimely, PTL

\* The store of the page: what it knows of the session, and whom it waits to show.
AppTypes ==
  /\ page \in {"app", "away"} /\ askingUser \in BOOLEAN /\ initialized \in BOOLEAN
  /\ user \in Users \cup {NoUser} /\ starting \in Users \cup {NoUser}
  /\ swagger \in {"none", "sent", "loaded", "rejected"}

\* Who an answer names is the user of a login.
LEMMA NamedUser ==
  ASSUME SessionInv, NEW s \in Slot, calls[s].as # NoUser
  PROVE  calls[s].as.user \in Users
<1>1. calls[s].as \in GrantedIdentity
  BY DEF SessionInv, Types, CallType
<1>2. PICK l \in Login : calls[s].as = [user |-> l.user, groups |-> Groups(Join(GroupsOf(l) \cup AuthenticatedGroups))]
  BY <1>1 DEF GrantedIdentity
<1> QED BY <1>2 DEF Users

\* initializeSession and what awaits it keep the types.
LEMMA InitializeTypes ==
  ASSUME AppTypes, NEW u \in Users \cup {NoUser}, InitializeSession(u), page' = page, askingUser' \in BOOLEAN
  PROVE  AppTypes'
BY DEF AppTypes, InitializeSession

\* A step of the session keeps the types of the store.
LEMMA AppStep == SessionInv /\ AppTypes /\ [SessionNext]_sessionVars => AppTypes'
<1> SUFFICES ASSUME SessionInv, AppTypes, [SessionNext]_sessionVars PROVE AppTypes'
  OBVIOUS
<1>1. ASSUME UNCHANGED <<page, appVars>> PROVE AppTypes'
  BY <1>1 DEF AppTypes, appVars
<1>2. CASE Handle
  BY <1>1, <1>2 DEF Handle, UserInfo, AuthDelegate, PasswordLogin
<1>3. CASE ReceiveUserInfo
  <2> DEFINE u == IF calls["session"].as = NoUser THEN NoUser ELSE calls["session"].as.user
  <2>1. u \in Users \cup {NoUser}
    BY NamedUser DEF Slot
  <2>2. page' = page /\ askingUser' = FALSE
    BY <1>3 DEF ReceiveUserInfo
  <2>3. CASE InitializeSession(u)
    BY <2>1, <2>2, <2>3, InitializeTypes
  <2>4. CASE InvalidateSession
    BY <2>2, <2>4 DEF AppTypes, InvalidateSession
  <2>5. CASE UNCHANGED <<user, initialized, swagger, starting>>
    BY <2>2, <2>5 DEF AppTypes
  <2> QED BY <1>3, <2>3, <2>4, <2>5 DEF ReceiveUserInfo
<1>4. CASE ReceiveApi
  BY <1>4 DEF ReceiveApi, InvalidateSession, AppTypes
<1>5. CASE ReceiveLogin
  <2>1. CASE calls["login"].as # NoUser /\ InitializeSession(calls["login"].as.user)
    BY <1>5, <2>1, NamedUser, InitializeTypes DEF ReceiveLogin, Slot, AppTypes
  <2>2. CASE UNCHANGED <<user, initialized, swagger, starting>>
    BY <1>5, <2>2 DEF ReceiveLogin, AppTypes
  <2> QED BY <1>5, <2>1, <2>2 DEF ReceiveLogin
<1>6. CASE SwaggerAnswered \/ SwaggerFails \/ HandleLogout
  BY <1>6 DEF SwaggerAnswered, SwaggerFails, HandleLogout, InvalidateSession, AppTypes
<1>7. ASSUME NEW s \in Slot, FetchFails(s) PROVE AppTypes'
  BY <1>1, <1>7 DEF FetchFails
<1>8. CASE UpdateSession
  BY <1>8 DEF UpdateSession, AppTypes
<1>9. ASSUME NEW k, Mount(k) PROVE AppTypes'
  BY <1>9 DEF Mount, AppTypes
<1>10. CASE ReloadPage
  BY <1>9, <1>10 DEF ReloadPage
<1>11. CASE OidcStart
  BY <1>11 DEF OidcStart, AppTypes, appVars
<1>12. ASSUME NEW what \in {"fetch", "socket"}, CallApi(what) PROVE AppTypes'
  BY <1>1, <1>12 DEF CallApi
<1>13. ASSUME NEW l \in Login, HandleLogin(l) \/ AnonymousLogin(l) \/ SamlLogin(l) \/ OidcCallback(l) PROVE AppTypes'
  BY <1>1, <1>9, <1>13 DEF HandleLogin, AnonymousLogin, SamlLogin, OidcCallback, LoginAndMount
<1>14. CASE Tick \/ Restart
  BY <1>1, <1>14 DEF Tick, Restart
<1>15. CASE UNCHANGED sessionVars
  BY <1>1, <1>15 DEF sessionVars, appVars
<1> QED
  BY <1>2, <1>3, <1>4, <1>5, <1>6, <1>7, <1>8, <1>10, <1>11, <1>12, <1>13, <1>14, <1>15 DEF SessionNext, Receive
-----------------------------------------------------------------------------
(* The parts together. *)

ServerInv == SessionInv /\ AppTypes /\ ProxyInv /\ MetricsInv /\ IInv

\* The invariants of the parts hold together, whichever takes steps.
THEOREM ServerInvariance == ServerSpec => []ServerInv
<1>1. ServerInit => ServerInv
  <2> SUFFICES ASSUME ServerInit PROVE ServerInv
    OBVIOUS
  <2>1. AppTypes
    BY DEF ServerInit, SessionInit, AppTypes
  <2> QED
    BY <2>1, SessionStart, ProxyStart, MetricsStart, KindsStart DEF ServerInit, ServerInv
<1>2. ServerInv /\ [ServerNext]_<<part, serverVars>> => ServerInv'
  <2> SUFFICES ASSUME ServerInv, [ServerNext]_<<part, serverVars>> PROVE ServerInv'
    OBVIOUS
  <2>1. /\ [SessionNext]_sessionVars /\ [ProxyNext]_proxyVars
        /\ [MetricsNext]_metricVars /\ [Next]_vars
    BY DEF ServerNext, serverVars, kindVars
  <2> QED
    BY <2>1, SessionStep, AppStep, ProxyStep, MetricsStep, KindsStep DEF ServerInv
<1> QED BY <1>1, <1>2, PTL DEF ServerSpec

\* The types of every part of the server, for any logins, timeouts, capacities, nodes,
\* readers and kinds.
THEOREM ServerTypes == ServerSpec => []ServerTypeOK
<1>1. ServerInv => ServerTypeOK
  <2> SUFFICES ASSUME ServerInv PROVE ServerTypeOK
    OBVIOUS
  <2>1. AnyToken \subseteq Token
    <3>1. ASSUME NEW t \in GrantedToken PROVE t \in Token
      <4>1. PICK l \in Login, n \in 0..SessionTimeout :
              t = [user |-> l.user, groups |-> Join(GroupsOf(l) \cup AuthenticatedGroups), left |-> n]
        BY <3>1 DEF GrantedToken
      <4> DEFINE gs == Join(GroupsOf(l) \cup AuthenticatedGroups)
      <4>2. l.user \in Users /\ gs \in {Join(GroupsOf(m) \cup AuthenticatedGroups) : m \in Login}
        BY DEF Users
      <4> HIDE DEF gs
      <4> QED BY <4>1, <4>2 DEF Token, gs
    <3> QED BY <3>1 DEF AnyToken, Token
  <2>2. calls \in [Slot -> CallType] /\ cookie \in AnyToken /\ quiet \in 0..Half
    BY DEF ServerInv, SessionInv, Types
  <2>3. ASSUME NEW s \in Slot
        PROVE  /\ calls[s].stage \in {"idle", "sent", "answered", "lost"} /\ calls[s].age \in 0..MaxDelay
               /\ calls[s].cookie \in Token /\ calls[s].set \in Token
    BY <2>1, <2>2 DEF CallType
  <2>4. SessionTypeOK
    BY <2>1, <2>2, <2>3 DEF ServerInv, SessionTypeOK, AppTypes
  <2> QED BY <2>4 DEF ServerInv, ServerTypeOK, ProxyInv, MetricsInv, IInv
<1> QED BY <1>1, ServerInvariance, PTL

\* What the browser shows of the metrics adds up, volumes included as the code swaps their
\* capacity and use, for any nodes, namespaces, pods and containers, whatever the nodes report and whichever of them cannot be read.
THEOREM SummaryAddsUpAlways == ServerSpec => []SummaryAddsUp
<1>1. ServerInv => SummaryAddsUp
  BY DEF ServerInv, MetricsInv, SummaryAddsUp
<1> QED BY <1>1, ServerInvariance, PTL
=============================================================================
