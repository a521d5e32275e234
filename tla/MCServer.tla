----------------------------- MODULE MCServer -----------------------------
(***************************************************************************)
(* Small instances of the parts of the server that share no state: its     *)
(* start, the session of a browser, a proxied request, the metrics and the *)
(* cache of kinds.  In a behaviour one part takes steps, the others stay   *)
(* as they start, in one state.                                            *)
(***************************************************************************)
EXTENDS Session, Startup, ApiProxy, Metrics, KindsCache

CONSTANTS u1, u2, p1, p2, p3, nsA, nsB

VARIABLE part   \* the part that takes steps

ServerLogin == {[method |-> "password", user |-> u1, groups |-> {{"system:masters"}}, unnamed |-> {}],
                [method |-> "anonymous", user |-> u2, groups |-> {{"cn"}, {"dc"}}, unnamed |-> {}],
                [method |-> "oidc", user |-> u1, groups |-> {}, unnamed |-> {}],
                [method |-> "saml", user |-> u2, groups |-> {{"named"}}, unnamed |-> {{"cn", "dc"}}]}
NoGroups == {}
NoHeaders == [auth |-> "none", user |-> Nobody, groups |-> {}, extra |-> FALSE]
ServerCarried == {NoHeaders, [auth |-> "own", user |-> u2, groups |-> {{"carried"}}, extra |-> TRUE]}
ServerGroups == {{"file"}}
ServerNamespaceOf == [p \in {p1, p2, p3} |-> IF p = p2 THEN nsB ELSE nsA]
ServerContainers == [p \in {p1, p2, p3} |-> CASE p = p1 -> <<3, 3>> [] p = p2 -> <<1, -1>> [] p = p3 -> <<>>]
ServerVolCapacity == [p \in {p1, p2, p3} |-> CASE p = p1 -> 3 [] p = p2 -> 2 [] p = p3 -> 0]
ServerVolUsed == [p \in {p1, p2, p3} |-> IF p = p1 THEN 1 ELSE 0]

kindVars == vars
serverVars == <<sessionVars, startVars, proxyVars, metricVars, kindVars>>

ServerInit ==
  /\ part \in {"session", "start", "proxy", "metrics", "kinds"}
  /\ SessionInit /\ MetricsInit
  /\ StartInit /\ (part # "start" => flags = {})
  /\ ProxyInit /\ (part # "proxy" => request = [kind |-> "http", tls |-> FALSE, proto |-> "", headers |-> NoHeaders])
  /\ Init /\ (part # "kinds" => kinds = [n \in Name |-> Nil])

ServerNext ==
  /\ UNCHANGED part
  /\ \/ part = "session" /\ SessionNext /\ UNCHANGED <<startVars, proxyVars, metricVars, kindVars>>
     \/ part = "start" /\ StartNext /\ UNCHANGED <<sessionVars, proxyVars, metricVars, kindVars>>
     \/ part = "proxy" /\ ProxyNext /\ UNCHANGED <<sessionVars, startVars, metricVars, kindVars>>
     \/ part = "metrics" /\ MetricsNext /\ UNCHANGED <<sessionVars, startVars, proxyVars, kindVars>>
     \/ part = "kinds" /\ Next /\ UNCHANGED <<sessionVars, startVars, proxyVars, metricVars>>

(* The server answers the poll, the browser handles the answer and its     *)
(* timer sends the next, one of them at a time; the scheduler runs the     *)
(* goroutines of a socket; the kinds are updated when nobody reads them,   *)
(* and every reader leaves that does not block for ever.                   *)
ServerSpec ==
  /\ ServerInit /\ [][ServerNext]_<<part, serverVars>>
  /\ WF_sessionVars(part = "session" /\ (UserInfo \/ ReceiveUserInfo \/ UpdateSession))
  /\ WF_proxyVars(part = "proxy" /\ Finish)
  /\ \A e \in End : WF_proxyVars(part = "proxy" /\ Copier(e))
  /\ WF_kindVars(part = "kinds" /\ Update)
  /\ \A r \in Reader : WF_kindVars(part = "kinds" /\ RUnlock(r))

(* The types of every part, whichever takes steps.                         *)
ServerTypeOK == SessionTypeOK /\ ProxyTypeOK /\ MetricsTypeOK /\ TypeOK
=============================================================================
