------------------------------ MODULE ApiProxy ------------------------------
(***************************************************************************)
(* One connection to the server on its way to the API server: the listener *)
(* that splits plain HTTP from TLS (split_listener.go), the choice between *)
(* the reverse proxy, the multi-watch and the socket proxy (proxy.go), and *)
(* the two copiers of a proxied socket (ws.go).                            *)
(***************************************************************************)
EXTENDS Naturals

CONSTANTS Tls,           \* whether the server has a certificate
          BearerToken,   \* whether the server has a token of its own for the API server
          SessionUser, SessionGroups,  \* the user and the groups of the session
          Carried,       \* the headers a request may carry: records [auth, user, groups, extra]
          Nobody,        \* no user, no request
          ErrcCapacity,  \* the capacity of errc
          MaxChunks      \* bounds the chunks sent per direction

ASSUME ProxyAssumption ==
  /\ ErrcCapacity \in Nat /\ MaxChunks \in Nat
  /\ \A h \in Carried : h = [auth |-> h.auth, user |-> h.user, groups |-> h.groups, extra |-> h.extra]

VARIABLES request,  \* [kind, tls, proto, headers]: what the browser asks for, and how
          serving,  \* how far the handler is
          conn,     \* the connections of the handler: "none", "open" or "closed"
          seenBy,   \* the headers of what the API server was sent, or Nobody
          gone,     \* the ends whose peer has closed
          sent, taken,  \* the chunks of each direction, sent and read
          copier, errc

proxyVars == <<request, serving, conn, seenBy, gone, sent, taken, copier, errc>>
socketVars == <<gone, sent, taken, copier, errc>>

End == {"pub", "backend"}
Other(end) == IF end = "pub" THEN "backend" ELSE "pub"

\* A direction is named after the end it is read from.
ProxyInit ==
  /\ request \in [kind : {"http", "multiwatch", "socket"}, tls : BOOLEAN, proto : {"http", "https", ""},
                   headers : Carried]
  /\ serving = "accepted" /\ seenBy = Nobody /\ gone = {} /\ errc = 0
  /\ conn = [e \in End |-> "none"]
  /\ sent = [e \in End |-> 0] /\ taken = [e \in End |-> 0]
  /\ copier = [e \in End |-> "off"]
-----------------------------------------------------------------------------
(* The headers that matter to the API server: the authorization ("none", the request's  *)
(* "own" or that of the "server") and the impersonation, by which the request of the    *)
(* browser may carry a user, groups and Impersonate-Extra headers of its own.           *)

\* The groups of the session are added to those the request carries.
ImpersonateAlso(headers) == [headers EXCEPT !.user = SessionUser, !.groups = @ \cup SessionGroups]

\* SessionToken.Impersonate: the user and the groups of the session replace those the
\* request carries.
Impersonate(headers) == [headers EXCEPT !.user = SessionUser, !.groups = SessionGroups]

\* The server's own token, if it has one, replaces the authorization of the request.
Authorize(headers) == IF BearerToken THEN [headers EXCEPT !.auth = "server"] ELSE headers

\* The Director copies the three kinds of impersonation headers into the new headers of
\* the dialer and adds the token; the request's own authorization is not taken over.
Director(headers) == Authorize([headers EXCEPT !.auth = "none"])

\* filterRequest for the reverse proxy, whose request starts with all the headers.
FilterRequest(headers) == Impersonate(Authorize(headers))

\* redirectHandler, in a server with a certificate.
Redirected == Tls /\ (~request.tls \/ request.proto = "http")

Redirect ==
  /\ serving = "accepted" /\ Redirected
  /\ serving' = "returned"
  /\ UNCHANGED <<request, conn, seenBy, socketVars>>

\* ProxyRequest: a plain request is filtered and sent on by the reverse proxy.
ServeHTTP ==
  /\ serving = "accepted" /\ ~Redirected /\ request.kind = "http"
  /\ seenBy' = FilterRequest(request.headers)
  /\ serving' = "returned"
  /\ UNCHANGED <<request, conn, socketVars>>

\* A multi-watch dials with the headers of the Director: the rest is WatchProxy.
ServeMultiWatch ==
  /\ serving = "accepted" /\ ~Redirected /\ request.kind = "multiwatch"
  /\ seenBy' = Director(Impersonate(request.headers))
  /\ serving' = "returned"
  /\ UNCHANGED <<request, conn, socketVars>>

\* Dial: chunks that come with the answer of the handshake stay in the reader of the
\* dialer, where the copier does not look.
Dial ==
  /\ serving = "accepted" /\ ~Redirected /\ request.kind = "socket"
  /\ seenBy' = Director(Impersonate(request.headers))
  /\ \/ /\ serving' = "dialed" /\ conn' = [conn EXCEPT !["backend"] = "open"]
        /\ \E n \in 0..MaxChunks : sent' = [sent EXCEPT !["backend"] = n] /\ taken' = [taken EXCEPT !["backend"] = n]
     \/ serving' = "returned" /\ UNCHANGED <<conn, sent, taken>>
  /\ UNCHANGED <<request, gone, copier, errc>>

\* Upgrade of the request; when it fails the deferred Close is all that is left.
Upgrade ==
  /\ serving = "dialed"
  /\ \/ /\ serving' = "copying" /\ conn' = [conn EXCEPT !["pub"] = "open"]
        /\ copier' = [e \in End |-> "read"]
     \/ serving' = "returned" /\ conn' = [conn EXCEPT !["backend"] = "closed"] /\ UNCHANGED copier
  /\ UNCHANGED <<request, seenBy, gone, sent, taken, errc>>

\* <-errc and the deferred closes.
Finish ==
  /\ serving = "copying" /\ errc > 0
  /\ errc' = errc - 1
  /\ conn' = [e \in End |-> "closed"]
  /\ serving' = "returned"
  /\ UNCHANGED <<request, seenBy, gone, sent, taken, copier>>
-----------------------------------------------------------------------------
(* io.Copy from one end to the other. *)

CopierRead(e) ==
  /\ copier[e] = "read"
  /\ \/ /\ conn[e] = "open" /\ taken[e] < sent[e]
        /\ taken' = [taken EXCEPT ![e] = @ + 1]
        /\ copier' = [copier EXCEPT ![e] = "write"]
     \/ /\ conn[e] = "closed" \/ (e \in gone /\ taken[e] = sent[e])
        /\ copier' = [copier EXCEPT ![e] = "report"]
        /\ UNCHANGED taken
  /\ UNCHANGED <<request, serving, conn, seenBy, gone, sent, errc>>

CopierWrite(e) ==
  /\ copier[e] = "write"
  /\ \/ /\ conn[Other(e)] = "open" /\ Other(e) \notin gone
        /\ copier' = [copier EXCEPT ![e] = "read"]
     \/ /\ conn[Other(e)] = "closed" \/ Other(e) \in gone
        /\ copier' = [copier EXCEPT ![e] = "report"]
  /\ UNCHANGED <<request, serving, conn, seenBy, gone, sent, taken, errc>>

\* A report without a buffer waits for the handler.
CopierReportsUnbuffered(e) ==
  /\ copier[e] = "report" /\ errc = 0 /\ serving = "copying"
  /\ errc' = 1
  /\ copier' = [copier EXCEPT ![e] = "ended"]
  /\ UNCHANGED <<request, serving, conn, seenBy, gone, sent, taken>>

CopierReports(e) ==
  /\ copier[e] = "report" /\ errc < ErrcCapacity
  /\ errc' = errc + 1
  /\ copier' = [copier EXCEPT ![e] = "ended"]
  /\ UNCHANGED <<request, serving, conn, seenBy, gone, sent, taken>>

Copier(e) == CopierRead(e) \/ CopierWrite(e) \/ CopierReports(e)

\* The peer of an end sends a chunk, or goes away.
PeerSends(e) ==
  /\ conn[e] = "open" /\ e \notin gone /\ sent[e] < MaxChunks
  /\ sent' = [sent EXCEPT ![e] = @ + 1]
  /\ UNCHANGED <<request, serving, conn, seenBy, gone, taken, copier, errc>>

PeerCloses(e) ==
  /\ conn[e] = "open" /\ e \notin gone
  /\ gone' = gone \cup {e}
  /\ UNCHANGED <<request, serving, conn, seenBy, sent, taken, copier, errc>>

ProxyNext ==
  \/ Redirect \/ ServeHTTP \/ ServeMultiWatch \/ Dial \/ Upgrade \/ Finish
  \/ \E e \in End : Copier(e) \/ PeerSends(e) \/ PeerCloses(e)
-----------------------------------------------------------------------------
\* Every variable has its type.
ProxyTypeOK ==
  /\ serving \in {"accepted", "dialed", "copying", "returned"}
  /\ conn \in [End -> {"none", "open", "closed"}] /\ gone \subseteq End
  /\ errc \in 0..ErrcCapacity /\ copier \in [End -> {"off", "read", "write", "report", "ended"}]
  /\ \A e \in End : taken[e] <= sent[e] /\ sent[e] <= MaxChunks

\* On each of the three ways, whatever impersonation headers the request of the browser
\* carries, what the API server is asked is asked with the user and the groups of the
\* session and no others, and with the server's own token when it has one
\* (filterRequest, Director, Impersonate). Extra headers are those of the request.
ActsAsUser ==
  seenBy # Nobody =>
    /\ seenBy.user = SessionUser /\ seenBy.groups = SessionGroups
    /\ BearerToken => seenBy.auth = "server"
    /\ seenBy.extra = request.headers.extra

\* When either end of a socket goes away, the handler returns, both connections are
\* closed and both goroutines end: errc has room for the report nobody receives.
SocketReleased ==
  (serving = "copying" /\ gone # {}) ~>
    (serving = "returned" /\ \A e \in End : conn[e] = "closed" /\ copier[e] = "ended")
=============================================================================
