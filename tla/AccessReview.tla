---------------------------- MODULE AccessReview ----------------------------
(***************************************************************************)
(* GET /proxy/_/accessreview: permissionsForResource starts one getAccess  *)
(* goroutine per check; a check refused for the cluster goes on in every   *)
(* namespace. The grants travel over a bounded channel to the handler,     *)
(* which ranges over it until a fourth party, the goroutine that waits for *)
(* the wait group, closes it.                                              *)
(***************************************************************************)
EXTENDS Naturals, FiniteSets

CONSTANTS Check,      \* the checks made: [sub |-> subresource, verb |-> verb]
          Namespace, Cluster,
          Cap         \* cap(permissions)

\* The five checks of permissionsForResource.
AllChecks ==
  {[sub |-> "", verb |-> v] : v \in {"get", "put", "delete"}}
    \cup {[sub |-> s, verb |-> "get"] : s \in {"log", "exec"}}

ASSUME AccessReviewAssumption ==
  /\ Check \subseteq AllChecks
  /\ IsFiniteSet(Namespace)
  /\ Cluster \notin Namespace
  /\ Cap \in Nat \ {0}

Scope == Namespace \cup {Cluster}
Task  == Check \X Scope

VARIABLES
  pc,           \* where permissionsForResource is
  scope,        \* the namespace of the request, Cluster if it names none
  namespaces,   \* the namespaces of the cluster
  known,        \* GetKind found the kind of the request
  wg,           \* the counter of the wait group
  permissions,  \* the grants in the channel, named by their task
  closed,       \* the channel is closed
  stage,        \* where each getAccess goroutine is
  verdict,      \* what its review said
  result        \* the flags of kindPermissions that are set

vars == <<pc, scope, namespaces, known, wg, permissions, closed, stage, verdict, result>>

Live == {t \in Task : stage[t] \in {"reviewing", "answered", "finishing"}}

\* The kind of the request is reviewed for these, the kind Pod for the others.
OfKind(c) == c.sub = ""

\* A permission is told apart by its verb alone.
FlagByVerb(c) == c.verb

\* The flag of kindPermissions that a permission sets.
Flag(c) ==
  IF c.sub = "log" /\ c.verb = "get" THEN "logs"
  ELSE IF c.sub = "exec" /\ c.verb = "get" THEN "exec"
  ELSE c.verb
-----------------------------------------------------------------------------
Init ==
  /\ pc = "idle"
  /\ scope = Cluster
  /\ namespaces = {}
  /\ known = TRUE
  /\ wg = 0
  /\ permissions = {}
  /\ closed = FALSE
  /\ stage = [t \in Task |-> "idle"]
  /\ verdict = [t \in Task |-> "none"]
  /\ result = {}

\* A request for a kind, with or without a namespace: the namespaces are listed,
\* the kind is looked up, wg.Add(5) and the goroutines are started.  k tells
\* whether the lookup found the kind.
Request(s, N, k) ==
  /\ pc = "idle"
  /\ pc' = "collecting"
  /\ scope' = s
  /\ namespaces' = N
  /\ known' = k
  /\ wg' = Cardinality(Check)
  /\ stage' = [t \in Task |-> IF t[2] = s THEN "reviewing" ELSE "idle"]
  /\ UNCHANGED <<permissions, closed, verdict, result>>

\* One turn of the range over the channel.
Receive(t) ==
  /\ pc = "collecting"
  /\ t \in permissions
  /\ permissions' = permissions \ {t}
  /\ result' = result \cup {Flag(t[1])}
  /\ UNCHANGED <<pc, scope, namespaces, known, wg, closed, stage, verdict>>

\* The range ends when the channel is closed and empty.
Answer ==
  /\ pc = "collecting"
  /\ closed /\ permissions = {}
  /\ pc' = "answered"
  /\ UNCHANGED <<scope, namespaces, known, wg, permissions, closed, stage, verdict, result>>

\* The closer does not wait for the goroutines started later.
CloseFirstRound ==
  /\ pc = "collecting"
  /\ ~closed
  /\ \A c \in Check : stage[<<c, scope>>] = "done"
  /\ closed' = TRUE
  /\ UNCHANGED <<pc, scope, namespaces, known, wg, permissions, stage, verdict, result>>

\* wg.Wait() returns in the closing goroutine, which closes the channel.
Close ==
  /\ pc = "collecting"
  /\ ~closed
  /\ wg = 0
  /\ closed' = TRUE
  /\ UNCHANGED <<pc, scope, namespaces, known, wg, permissions, stage, verdict, result>>

\* Everything of the request, or of the process, is gone.
Clean ==
  /\ pc' = "idle"
  /\ scope' = Cluster
  /\ namespaces' = {}
  /\ known' = TRUE
  /\ wg' = 0
  /\ permissions' = {}
  /\ closed' = FALSE
  /\ stage' = [t \in Task |-> "idle"]
  /\ verdict' = [t \in Task |-> "none"]
  /\ result' = {}

Return  == pc = "answered" /\ Clean
Restart == pc = "crashed" /\ Clean
-----------------------------------------------------------------------------
\* kubeKind.Plural of a kind that was not found: the nil dereference ends the
\* process, since nothing recovers in a goroutine.
Panic(t) ==
  /\ pc = "collecting"
  /\ stage[t] = "reviewing"
  /\ OfKind(t[1]) /\ ~known
  /\ pc' = "crashed"
  /\ UNCHANGED <<scope, namespaces, known, wg, permissions, closed, stage, verdict, result>>

\* The SelfSubjectAccessReview is answered.
Review(t, v) ==
  /\ pc = "collecting"
  /\ stage[t] = "reviewing"
  /\ OfKind(t[1]) => known
  /\ stage' = [stage EXCEPT ![t] = "answered"]
  /\ verdict' = [verdict EXCEPT ![t] = v]
  /\ UNCHANGED <<pc, scope, namespaces, known, wg, permissions, closed, result>>

\* Not allowed for the cluster: ask in the namespaces.
Descends(t) == verdict[t] = "denied" /\ t[2] = Cluster

\* wg.Add(1) instead of wg.Add(len(namespaces)).
DescendCountingOne(t) ==
  /\ pc = "collecting"
  /\ stage[t] = "answered"
  /\ Descends(t)
  /\ wg' = wg + (IF namespaces = {} THEN 0 ELSE 1)
  /\ stage' = [u \in Task |-> IF u = t THEN "finishing"
                              ELSE IF u[1] = t[1] /\ u[2] \in namespaces THEN "reviewing"
                              ELSE stage[u]]
  /\ UNCHANGED <<pc, scope, namespaces, known, permissions, closed, verdict, result>>

\* wg.Add(len(namespaces)), then one goroutine per namespace.
Descend(t) ==
  /\ pc = "collecting"
  /\ stage[t] = "answered"
  /\ Descends(t)
  /\ wg' = wg + Cardinality(namespaces)
  /\ stage' = [u \in Task |-> IF u = t THEN "finishing"
                              ELSE IF u[1] = t[1] /\ u[2] \in namespaces THEN "reviewing"
                              ELSE stage[u]]
  /\ UNCHANGED <<pc, scope, namespaces, known, permissions, closed, verdict, result>>

\* results <- Permission{...}: waits for room.
Send(t) ==
  /\ pc = "collecting"
  /\ stage[t] = "answered"
  /\ verdict[t] = "allowed"
  /\ Cardinality(permissions) < Cap
  /\ permissions' = permissions \cup {t}
  /\ stage' = [stage EXCEPT ![t] = "finishing"]
  /\ UNCHANGED <<pc, scope, namespaces, known, wg, closed, verdict, result>>

\* A failed review returns without wg.Done().
DoneUnlessError(t) ==
  /\ pc = "collecting"
  /\ \/ stage[t] = "finishing"
     \/ stage[t] = "answered" /\ verdict[t] = "denied" /\ ~Descends(t)
  /\ wg' = wg - 1
  /\ stage' = [stage EXCEPT ![t] = "done"]
  /\ UNCHANGED <<pc, scope, namespaces, known, permissions, closed, verdict, result>>

\* wg.Done() after the send or the descent, after an error, or after a refusal
\* that ends here.
Done(t) ==
  /\ pc = "collecting"
  /\ \/ stage[t] = "finishing"
     \/ stage[t] = "answered" /\ verdict[t] # "allowed" /\ ~Descends(t)
  /\ wg' = wg - 1
  /\ stage' = [stage EXCEPT ![t] = "done"]
  /\ UNCHANGED <<pc, scope, namespaces, known, permissions, closed, verdict, result>>
-----------------------------------------------------------------------------
GetAccess(t) ==
  \/ Panic(t)
  \/ \E v \in {"allowed", "denied", "error"} : Review(t, v)
  \/ Descend(t) \/ Send(t) \/ Done(t)

Handler == (\E t \in Task : Receive(t)) \/ Answer

Next ==
  \/ \E s \in Scope, N \in SUBSET Namespace, k \in BOOLEAN : Request(s, N, k)
  \/ Handler
  \/ Close
  \/ Return
  \/ Restart
  \/ \E t \in Task : GetAccess(t)

Spec == Init /\ [][Next]_vars

\* The Go scheduler runs what can run and the API server answers every review.
FairSpec ==
  /\ Spec
  /\ WF_vars(Handler) /\ WF_vars(Close)
  /\ \A t \in Task : WF_vars(GetAccess(t))
-----------------------------------------------------------------------------
\* Every variable has its type.
TypeOK ==
  /\ pc \in {"idle", "collecting", "answered", "crashed"}
  /\ scope \in Scope
  /\ namespaces \subseteq Namespace
  /\ known \in BOOLEAN
  /\ wg \in Nat
  /\ permissions \subseteq Task
  /\ closed \in BOOLEAN
  /\ stage \in [Task -> {"idle", "reviewing", "answered", "finishing", "done"}]
  /\ verdict \in [Task -> {"none", "allowed", "denied", "error"}]
  /\ result \subseteq {Flag(c) : c \in Check}

\* No goroutine is left that could send when the channel is closed: a send on a
\* closed channel panics.
NoSendOnClosed == closed => Live = {}

\* The request as its client sees it: a crash leaves it without an answer.
Status  == IF pc = "crashed" THEN "asked"
           ELSE IF pc = "collecting" THEN "asked" ELSE pc
Granted == IF pc = "answered" THEN {c \in Check : Flag(c) \in result} ELSE {}

AA == INSTANCE AccessAnswer WITH status <- Status, granted <- Granted

\* The handler's answer is that of the abstract specification: a flag is set for
\* the checks that some review allowed and for no other, and only when every
\* review the request calls for has been made.
ImplementsAnswer == AA!Spec

\* A request whose kind is known is answered, although the channel holds fewer
\* grants than there are goroutines.
AnsweredWhenKnown == (pc = "collecting" /\ known) ~> pc = "answered"

\* Every request is answered.
EveryRequestAnswered == pc = "collecting" ~> pc = "answered"
-----------------------------------------------------------------------------
\* The inductive invariant.

\* The wait group counts the goroutines that have not called Done.
WgCountsLive == wg = Cardinality(Live)

\* Between requests nothing is left of the last one.
Fresh ==
  pc = "idle" => /\ \A t \in Task : stage[t] = "idle"
                 /\ permissions = {} /\ result = {} /\ ~closed
                 /\ scope = Cluster /\ namespaces = {}

\* A goroutine has a verdict exactly after its review, and something to finish
\* only after a send or a descent.
VerdictAfterReview ==
  /\ \A t \in Task : verdict[t] = "none" <=> stage[t] \in {"idle", "reviewing"}
  /\ \A t \in Task : stage[t] = "finishing" => verdict[t] = "allowed" \/ Descends(t)

\* The started goroutines are those of the scope asked for and those below a
\* refusal of the cluster; below an answered refusal all of them are started.
StartedRight ==
  /\ pc # "idle" => \A c \in Check : stage[<<c, scope>>] # "idle"
  /\ \A c \in Check, s \in Scope : stage[<<c, s>>] # "idle" =>
       s = scope \/ ( /\ scope = Cluster /\ s \in namespaces
                      /\ Descends(<<c, Cluster>>)
                      /\ stage[<<c, Cluster>>] \in {"finishing", "done"} )
  /\ \A c \in Check, n \in namespaces :
       /\ Descends(<<c, Cluster>>)
       /\ stage[<<c, Cluster>>] \in {"finishing", "done"}
       => stage[<<c, n>>] # "idle"

\* No grant is lost or invented on its way to the result.
GrantsKept ==
  /\ \A t \in permissions : verdict[t] = "allowed"
  /\ \A f \in result : \E t \in Task : f = Flag(t[1]) /\ verdict[t] = "allowed"
  /\ \A t \in Task : verdict[t] = "allowed" /\ stage[t] \in {"finishing", "done"}
       => t \in permissions \/ Flag(t[1]) \in result

\* The range ends only over a closed and empty channel.
AnsweredLast == pc = "answered" => closed /\ permissions = {}

IInv ==
  /\ TypeOK /\ WgCountsLive /\ Fresh /\ VerdictAfterReview /\ StartedRight
  /\ GrantsKept /\ AnsweredLast /\ NoSendOnClosed
=============================================================================
