---------------------------- MODULE AccessAnswer ----------------------------
(***************************************************************************)
(* What GET /proxy/_/accessreview promises, without goroutines: a request  *)
(* names a scope; reviews are made, first in that scope, then in every     *)
(* namespace when the cluster refused; the answer grants exactly what some *)
(* review allowed, and only after every review has been made.              *)
(***************************************************************************)
CONSTANTS Check, Namespace, Cluster

VARIABLES status,      \* "idle", "asked", "answered"
          scope,       \* the scope asked for
          namespaces,  \* the namespaces of the cluster at the request
          verdict,     \* what each review said
          granted      \* the answer: the checks granted

vars == <<status, scope, namespaces, verdict, granted>>

Review == Check \X (Namespace \cup {Cluster})

\* Nothing remains to be asked about c.
Settled(c) ==
  /\ verdict[<<c, scope>>] # "none"
  /\ scope = Cluster /\ verdict[<<c, Cluster>>] = "denied"
       => \A n \in namespaces : verdict[<<c, n>>] # "none"

Allowed == {c \in Check : \E s \in Namespace \cup {Cluster} : verdict[<<c, s>>] = "allowed"}

Init ==
  /\ status = "idle"
  /\ scope = Cluster
  /\ namespaces = {}
  /\ verdict = [r \in Review |-> "none"]
  /\ granted = {}

Ask(s, N) ==
  /\ status = "idle"
  /\ status' = "asked"
  /\ scope' = s
  /\ namespaces' = N
  /\ UNCHANGED <<verdict, granted>>

\* A review is made once: in the scope asked for, or in a namespace after the
\* cluster has refused.
Decide(c, s, v) ==
  /\ status = "asked"
  /\ verdict[<<c, s>>] = "none"
  /\ \/ s = scope
     \/ /\ scope = Cluster
        /\ s \in namespaces
        /\ verdict[<<c, Cluster>>] = "denied"
  /\ verdict' = [verdict EXCEPT ![<<c, s>>] = v]
  /\ UNCHANGED <<status, scope, namespaces, granted>>

Answer ==
  /\ status = "asked"
  /\ \A c \in Check : Settled(c)
  /\ status' = "answered"
  /\ granted' = Allowed
  /\ UNCHANGED <<scope, namespaces, verdict>>

\* The next request, or a server that comes up again.
Reset ==
  /\ status' = "idle"
  /\ scope' = Cluster
  /\ namespaces' = {}
  /\ verdict' = [r \in Review |-> "none"]
  /\ granted' = {}

Next ==
  \/ \E s \in Namespace \cup {Cluster}, N \in SUBSET Namespace : Ask(s, N)
  \/ \E c \in Check, s \in Namespace \cup {Cluster}, v \in {"allowed", "denied", "error"} :
       Decide(c, s, v)
  \/ Answer
  \/ Reset

Spec == Init /\ [][Next]_vars
=============================================================================
