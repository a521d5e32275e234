------------------------------ MODULE Session ------------------------------
(***************************************************************************)
(* Sessions: the token manager and the authenticators of the server        *)
(* (pkg/auth) with the component of the browser that follows the session   *)
(* (Authenticated.js, state/actions/session.js, state/reducers/session.js).*)
(* A session lives only in a signed token that the browser keeps as a      *)
(* cookie: the server stores none, and its key is new at every start.      *)
(* Calls carry the cookie of the moment they are sent; their answers, and  *)
(* the cookies these set, arrive in any order. Times are relative: what is *)
(* left of a token and the age of a call, so the clock needs no bound.     *)
(***************************************************************************)
EXTENDS Naturals, Sequences

\* Groups are compared as sets. A name is the set of the parts between its commas, so
\* {p} is a name without a comma.
CONSTANTS Login,                \* who may log in: records [method, user, groups, unnamed], where
                                \* groups are those of the file, the flag or the provider, and
                                \* unnamed the values of SAML attributes that have no friendly name
          NoUser,               \* no user: null in the store, absent in an answer
          NoToken,              \* no cookie
          DeadToken,            \* any token that is expired or signed with the key of an earlier start
          AuthenticatedGroups,  \* --authenticated-groups
          SessionTimeout,       \* --session-timeout, in ticks
          MaxDelay              \* bounds the ticks between a call and its answer

\* strings.Join with a comma: the parts of all the names; of no name the empty string.
Join(groups) == IF groups = {} THEN {""} ELSE UNION groups

\* The groups an authenticator passes to NewSessionToken. resolveUserAndGroups replaces
\* what it found by one fixed group; NewSamlHandler stores neither the attribute of the
\* groups nor its delimiter, so the attributes with an empty name are taken, undivided.
GroupsOf(login) ==
  CASE login.method = "oidc" -> {{"system:masters"}}
    [] login.method = "saml" -> login.unnamed
    [] OTHER -> login.groups

ASSUME SessionAssumption ==
  /\ \A l \in Login : l.user # NoUser /\ l.method \in {"password", "anonymous", "oidc", "saml"}
  /\ SessionTimeout \in Nat /\ MaxDelay \in Nat
  /\ 4 * MaxDelay <= SessionTimeout
  /\ NoToken # DeadToken
  /\ \A l \in Login : \A n \in 0..SessionTimeout :
       [user |-> l.user, groups |-> Join(GroupsOf(l) \cup AuthenticatedGroups), left |-> n] \notin {NoToken, DeadToken}

VARIABLES cookie,     \* the session cookie of the browser
          page,       \* "app", or "away" at an OIDC provider
          calls,      \* the fetches of the page
          askingUser,   \* Authenticated.fetching
          user,       \* store.session.user
          initialized, \* store.session.initialized
          swagger,    \* what a session starts with (swagger, namespaces): "none", "sent", "loaded", "rejected"
          starting,   \* the user of the last initializeSession that awaits it
          quiet       \* ticks since the page sent the newest call that was served and whose
                      \* answer arrived, up to half a timeout

sessionVars == <<cookie, page, calls, askingUser, user, initialized, swagger, starting, quiet>>
appVars == <<askingUser, user, initialized, swagger, starting>>

Users == {l.user : l \in Login}
Half == SessionTimeout \div 2
Slot == {"session", "api", "login"}
Idle == [stage |-> "idle", what |-> "", login |-> NoUser, cookie |-> NoToken, age |-> 0, as |-> NoUser, set |-> NoToken]

\* A poll whose promise was rejected: no continuation runs, askingUser stays as it is.
Lost == [Idle EXCEPT !.stage = "lost"]
Over == {"idle", "lost"}
-----------------------------------------------------------------------------
(* The tokens of the server. *)

\* A token without the groups the renewed one had.
WithoutClaims(token, claims) == token

\* The claims of the renewed token, all but the times, replace the new ones.
WithClaims(token, claims) == [token EXCEPT !.groups = claims.groups]

\* A new token: the groups of the user and those of everyone who is signed in.
NewSessionToken(u, groups) ==
  [user |-> u, groups |-> Join(groups \cup AuthenticatedGroups), left |-> SessionTimeout]

\* SessionToken.Groups splits what NewSessionToken joined: every part is a name.
Groups(joined) == {{part} : part \in joined}

\* jwt.Parse: signed with the key of this start, and not expired (a token may be used in
\* the second in which it expires).
ParseSessionToken(token) == token \notin {NoToken, DeadToken}

\* Renewed only when it is about to expire.
KeepAliveLate(token) ==
  IF ParseSessionToken(token) /\ token.left = 0
    THEN WithClaims(NewSessionToken(token.user, {}), token) ELSE NoToken

\* A session that is more than half expired is renewed: the cookie of the answer.
KeepSessionAlive(token) ==
  IF ParseSessionToken(token) /\ token.left < Half
    THEN WithClaims(NewSessionToken(token.user, {}), token) ELSE NoToken

\* A tick of the clock, and a new key, for a token.
Older(token) ==
  IF ~ParseSessionToken(token) THEN token
  ELSE IF token.left = 0 THEN DeadToken ELSE [token EXCEPT !.left = @ - 1]
Unsigned(token) == IF token = NoToken THEN token ELSE DeadToken
-----------------------------------------------------------------------------
(* The page. *)

Send(slot, what, with) ==
  calls' = [calls EXCEPT ![slot] = [Idle EXCEPT !.stage = "sent", !.what = what, !.cookie = with]]

\* The page is loaded: a new store, and componentDidMount asks who the user is.
Mounted(with) ==
  [s \in Slot |-> IF s = "session" THEN [Idle EXCEPT !.stage = "sent", !.what = "mount", !.cookie = with] ELSE Idle]

Mount(with) ==
  /\ page' = "app" /\ cookie' = with /\ calls' = Mounted(with)
  /\ askingUser' = TRUE /\ user' = NoUser /\ initialized' = FALSE
  /\ swagger' = "none" /\ starting' = NoUser

\* The user comes with no cookie.
SessionInit ==
  /\ cookie = NoToken /\ page = "app" /\ calls = Mounted(NoToken)
  /\ askingUser = TRUE /\ user = NoUser /\ initialized = FALSE
  /\ swagger = "none" /\ starting = NoUser /\ quiet = Half

\* The page is loaded again, or opened after a login at a provider that failed.
ReloadPage == Mount(cookie) /\ UNCHANGED quiet

\* INITIALIZE, or an await of the swagger request first. A rejected one throws.
InitializeSession(u) ==
  CASE swagger = "loaded"   -> /\ user' = u /\ initialized' = TRUE
                               /\ UNCHANGED <<swagger, starting>>
    [] swagger = "rejected" -> UNCHANGED <<user, initialized, swagger, starting>>
    [] OTHER                -> /\ swagger' = "sent" /\ starting' = u
                               /\ UNCHANGED <<user, initialized>>

\* The swagger answer arrives, a model or an error status: every initializeSession
\* that waits goes on, in their order.
SwaggerAnswered ==
  /\ page = "app" /\ swagger = "sent"
  /\ swagger' \in {"loaded", "none"}
  /\ user' = starting /\ initialized' = TRUE /\ starting' = NoUser
  /\ UNCHANGED <<page, cookie, calls, askingUser, quiet>>

\* The swagger request fails: its promise stays under its name, see Requests.
SwaggerFails ==
  /\ page = "app" /\ swagger = "sent"
  /\ swagger' = "rejected" /\ starting' = NoUser
  /\ UNCHANGED <<page, cookie, calls, askingUser, user, initialized, quiet>>

\* INVALIDATE and a push to the first page.
InvalidateSession ==
  user' = NoUser /\ initialized' = TRUE /\ UNCHANGED <<swagger, starting>>

\* Header.handleLogout: the cookie stays.
HandleLogout ==
  /\ page = "app" /\ user # NoUser
  /\ InvalidateSession
  /\ UNCHANGED <<page, cookie, calls, askingUser, quiet>>

\* The poll that runs every 30 seconds while the page is visible.
UpdateSession ==
  /\ page = "app" /\ ~askingUser /\ user # NoUser
  /\ askingUser' = TRUE
  /\ Send("session", "poll", cookie)
  /\ UNCHANGED <<page, cookie, user, initialized, swagger, starting, quiet>>

\* Any fetch of a page, or a socket it opens.
CallApi(what) ==
  /\ page = "app" /\ user # NoUser /\ calls["api"].stage = "idle"
  /\ Send("api", what, cookie)
  /\ UNCHANGED <<page, cookie, appVars, quiet>>

\* The login dialog is open.
DialogOpen == page = "app" /\ initialized /\ user = NoUser

HandleLogin(login) ==
  /\ login.method = "password"
  /\ DialogOpen /\ calls["login"].stage = "idle"
  /\ calls' = [calls EXCEPT !["login"] = [Idle EXCEPT !.stage = "sent", !.login = login]]
  /\ UNCHANGED <<page, cookie, appVars, quiet>>
-----------------------------------------------------------------------------
(* The server handles a call. *)

Answer(slot, as, set) ==
  calls' = [calls EXCEPT ![slot].stage = "answered", ![slot].cookie = NoToken,
                         ![slot].as = as, ![slot].set = set]

\* The identity a request runs with: the claims of its token.
Identity(token) == [user |-> token.user, groups |-> Groups(token.groups)]

\* /auth/user_info
UserInfo ==
  LET token == calls["session"].cookie IN
  /\ calls["session"].stage = "sent"
  /\ Answer("session", IF ParseSessionToken(token) THEN Identity(token) ELSE NoUser, KeepSessionAlive(token))
  /\ UNCHANGED <<page, cookie, appVars, quiet>>

\* NewAuthDelegate: the delegate runs as the user of the token, or 401. A socket is
\* upgraded with headers of its own: the renewed cookie is lost.
AuthDelegate ==
  LET call == calls["api"] IN
  /\ call.stage = "sent"
  /\ \/ /\ ParseSessionToken(call.cookie)
        /\ Answer("api", Identity(call.cookie), IF call.what = "socket" THEN NoToken ELSE KeepSessionAlive(call.cookie))
     \/ /\ ~ParseSessionToken(call.cookie)
        /\ Answer("api", NoUser, NoToken)
  /\ UNCHANGED <<page, cookie, appVars, quiet>>

\* completeAuthentication: the user's token in a cookie.
PasswordLogin ==
  LET login == calls["login"].login
      token == NewSessionToken(login.user, GroupsOf(login)) IN
  /\ calls["login"].stage = "sent"
  /\ \/ Answer("login", Identity(token), token)
     \/ Answer("login", NoUser, NoToken)   \* the password does not match
  /\ UNCHANGED <<page, cookie, appVars, quiet>>

\* A link of the dialog or an assertion that the identity provider has the browser
\* post, also when no login was started: the answer sets the cookie and leads to the page.
LoginAndMount(login) ==
  /\ Mount(NewSessionToken(login.user, GroupsOf(login)))
  /\ quiet' = 0

AnonymousLogin(login) == login.method = "anonymous" /\ DialogOpen /\ LoginAndMount(login)

SamlLogin(login) == login.method = "saml" /\ LoginAndMount(login)

\* Without a code the handler leads on to the provider, with a new state in a cookie.
OidcStart ==
  /\ DialogOpen /\ \E l \in Login : l.method = "oidc"
  /\ page' = "away" /\ calls' = [s \in Slot |-> Idle]
  /\ UNCHANGED <<cookie, appVars, quiet>>

\* The provider leads back with a code and the state of the login started last; every
\* other state, and a code that cannot be exchanged, verified or resolved, is refused,
\* which leaves the user with ReloadPage. So does a provider that names groups: their
\* list is not of the type resolveUserAndGroups asserts, and the handler panics.
OidcCallback(login) ==
  login.method = "oidc" /\ page = "away" /\ login.groups = {} /\ LoginAndMount(login)
-----------------------------------------------------------------------------
(* An answer arrives. *)

\* The cookie of the answer replaces the one in the browser.
Arrive(slot) ==
  LET call == calls[slot] IN
  /\ call.stage = "answered"
  /\ calls' = [calls EXCEPT ![slot] = Idle]
  /\ cookie' = IF call.set = NoToken THEN cookie ELSE call.set
  /\ quiet' = IF call.as = NoUser \/ call.what = "socket" \/ call.age > quiet THEN quiet ELSE call.age

\* The flag is reset only at the mount.
ReceiveUserInfoKeepFlag ==
  LET call == calls["session"] IN
  /\ Arrive("session")
  /\ askingUser' = (askingUser /\ call.what = "poll")
  /\ \/ call.what = "mount" /\ InitializeSession(IF call.as = NoUser THEN NoUser ELSE call.as.user)
     \/ call.what = "poll" /\ call.as = NoUser /\ InvalidateSession
     \/ call.what = "poll" /\ call.as # NoUser /\ UNCHANGED <<user, initialized, swagger, starting>>
  /\ UNCHANGED page

\* At the mount every answer initializes the session. Later one without a user ends it.
ReceiveUserInfo ==
  LET call == calls["session"] IN
  /\ Arrive("session")
  /\ askingUser' = FALSE
  /\ \/ call.what = "mount" /\ InitializeSession(IF call.as = NoUser THEN NoUser ELSE call.as.user)
     \/ call.what = "poll" /\ call.as = NoUser /\ InvalidateSession
     \/ call.what = "poll" /\ call.as # NoUser /\ UNCHANGED <<user, initialized, swagger, starting>>
  /\ UNCHANGED page

\* A 401 ends the session.
ReceiveApi ==
  LET ended == calls["api"].as = NoUser /\ calls["api"].what = "fetch" IN
  /\ Arrive("api")
  /\ \/ ended /\ InvalidateSession
     \/ ~ended /\ UNCHANGED <<user, initialized, swagger, starting>>
  /\ UNCHANGED <<page, askingUser>>

ReceiveLogin ==
  LET as == calls["login"].as IN
  /\ Arrive("login")
  /\ \/ as # NoUser /\ InitializeSession(as.user)
     \/ as = NoUser /\ UNCHANGED <<user, initialized, swagger, starting>>
  /\ UNCHANGED <<page, askingUser>>

\* The promise of a fetch rejects: no continuation runs.
Dropped(slot) == IF slot = "session" THEN Lost ELSE Idle

FetchFails(slot) ==
  /\ calls[slot].stage \notin Over
  /\ calls' = [calls EXCEPT ![slot] = Dropped(slot)]
  /\ UNCHANGED <<page, cookie, appVars, quiet>>

Tick ==
  /\ \A s \in Slot : calls[s].stage \in Over \/ calls[s].age < MaxDelay
  /\ cookie' = Older(cookie)
  /\ calls' = [s \in Slot |-> [calls[s] EXCEPT !.cookie = Older(@), !.set = Older(@),
                                               !.age = IF calls[s].stage \in Over THEN 0 ELSE @ + 1]]
  /\ quiet' = IF quiet = Half THEN Half ELSE quiet + 1
  /\ UNCHANGED <<page, appVars>>

\* NewAuthManager: a new key, which no token of before is signed with. The connections
\* of the old process are dropped, and with them the calls they carried; a call may also
\* reach the new process, and an answer the browser before its connection ends.
Restart ==
  /\ cookie' = Unsigned(cookie)
  /\ \E dropped \in SUBSET {s \in Slot : calls[s].stage \notin Over} :
       calls' = [s \in Slot |->
                  IF s \in dropped THEN Dropped(s)
                  ELSE [calls[s] EXCEPT !.cookie = Unsigned(@), !.set = Unsigned(@)]]
  /\ UNCHANGED <<page, appVars, quiet>>

Handle == UserInfo \/ AuthDelegate \/ PasswordLogin
Receive == ReceiveUserInfo \/ ReceiveApi \/ ReceiveLogin

SessionNext ==
  \/ Handle \/ Receive \/ SwaggerAnswered \/ SwaggerFails
  \/ \E s \in Slot : FetchFails(s)
  \/ UpdateSession \/ HandleLogout \/ ReloadPage \/ OidcStart
  \/ \E what \in {"fetch", "socket"} : CallApi(what)
  \/ \E l \in Login : HandleLogin(l) \/ AnonymousLogin(l) \/ SamlLogin(l) \/ OidcCallback(l)
  \/ Tick \/ Restart

SessionSpec == SessionInit /\ [][SessionNext]_sessionVars
-----------------------------------------------------------------------------
Token == [user : Users, groups : {Join(GroupsOf(l) \cup AuthenticatedGroups) : l \in Login},
          left : 0..SessionTimeout] \cup {NoToken, DeadToken}

\* Every variable has its type.
SessionTypeOK ==
  /\ cookie \in Token /\ page \in {"app", "away"} /\ quiet \in 0..Half
  /\ askingUser \in BOOLEAN /\ initialized \in BOOLEAN /\ {user, starting} \subseteq Users \cup {NoUser}
  /\ swagger \in {"none", "sent", "loaded", "rejected"}
  /\ \A s \in Slot : /\ calls[s].stage \in {"idle", "sent", "answered", "lost"} /\ calls[s].age \in 0..MaxDelay
                     /\ {calls[s].cookie, calls[s].set} \subseteq Token

\* A request runs as one login: its user and, however often the token was renewed, the
\* groups its authenticator granted and those of everyone. A name without a comma is
\* served as it is; of a name with commas, which NewSessionToken joins with the others,
\* only the parts are served, and nothing else (NewAuthDelegate, keepSessionAlive,
\* SessionToken.Groups).
ServedAsGranted ==
  \A s \in Slot : calls[s].as # NoUser =>
    \E l \in Login :
      LET names == GroupsOf(l) \cup AuthenticatedGroups IN
      /\ calls[s].as.user = l.user
      /\ \A name \in names : (\E part \in name : name = {part}) => name \in calls[s].as.groups
      /\ \A group \in calls[s].as.groups :
           \/ \E name \in names : \E part \in name : group = {part}
           \/ names = {} /\ group = {""}

\* Whoever has sent a request that was served less than half a timeout ago is still
\* signed in (a socket aside), in whatever order the answers and the cookies they set
\* arrive, as long as a call takes no more than a quarter of the timeout and the server
\* is not restarted.
ActiveStaysSignedIn ==
  ParseSessionToken(cookie) => cookie.left + quiet >= Half

\* A user shown whose cookie the server no longer takes is not shown for ever: the
\* poll notices a session that has expired or that a restart ended, unless the poll
\* itself is lost, after which Authenticated never polls again.
EndNoticed ==
  (user # NoUser /\ ~ParseSessionToken(cookie))
    ~> (user = NoUser \/ ParseSessionToken(cookie) \/ calls["session"].stage = "lost")
=============================================================================
