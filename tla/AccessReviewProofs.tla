------------------------- MODULE AccessReviewProofs -------------------------
(***************************************************************************)
(* Proofs about AccessReview for any finite set of namespaces and any      *)
(* channel capacity, up to the implementation of AccessAnswer.             *)
(***************************************************************************)
EXTENDS AccessReview, FiniteSetTheorems, TLAPS

\* The checks and therefore the goroutines are finitely many.
LEMMA TaskFinite == IsFiniteSet(Check) /\ IsFiniteSet(Task)
  <1> DEFINE five == {[sub |-> "", verb |-> "get"], [sub |-> "", verb |-> "put"],
                      [sub |-> "", verb |-> "delete"], [sub |-> "log", verb |-> "get"],
                      [sub |-> "exec", verb |-> "get"]}
  <1>1. AllChecks \subseteq five BY DEF AllChecks
  <1>2. IsFiniteSet(five)
    <2> DEFINE a == [sub |-> "", verb |-> "get"]  b == [sub |-> "", verb |-> "put"]
               c == [sub |-> "", verb |-> "delete"] d == [sub |-> "log", verb |-> "get"]
               e == [sub |-> "exec", verb |-> "get"]
    <2> HIDE DEF a, b, c, d, e
    <2>1. IsFiniteSet({a}) BY FS_Singleton
    <2>2. IsFiniteSet({a} \cup {b}) BY <2>1, FS_AddElement
    <2>3. IsFiniteSet({a} \cup {b} \cup {c}) BY <2>2, FS_AddElement
    <2>4. IsFiniteSet({a} \cup {b} \cup {c} \cup {d}) BY <2>3, FS_AddElement
    <2>5. IsFiniteSet({a} \cup {b} \cup {c} \cup {d} \cup {e}) BY <2>4, FS_AddElement
    <2>6. {a} \cup {b} \cup {c} \cup {d} \cup {e} = {a, b, c, d, e} OBVIOUS
    <2>7. IsFiniteSet({a, b, c, d, e}) BY <2>5, <2>6
    <2> QED BY <2>7 DEF a, b, c, d, e
  <1>3. IsFiniteSet(Check)
    BY <1>1, <1>2, AccessReviewAssumption, FS_Subset
  <1>4. IsFiniteSet(Scope)
    BY AccessReviewAssumption, FS_AddElement DEF Scope
  <1> QED BY <1>3, <1>4, FS_Product DEF Task

\* A goroutine is a check in a scope.
LEMMA TaskShape ==
  /\ \A c \in Check : \A s \in Scope : <<c, s>> \in Task
  /\ \A t \in Task : t = <<t[1], t[2]>> /\ t[1] \in Check /\ t[2] \in Scope
  /\ Cluster \in Scope
  /\ \A n \in Namespace : n \in Scope /\ n # Cluster
  BY AccessReviewAssumption DEF Task, Scope

\* Two checks never set the same flag.
LEMMA FlagInjective ==
  ASSUME NEW c \in Check, NEW d \in Check, Flag(c) = Flag(d)
  PROVE  c = d
  <1>1. ASSUME NEW x \in Check
        PROVE  \/ x = [sub |-> "", verb |-> "get"] /\ Flag(x) = "get"
               \/ x = [sub |-> "", verb |-> "put"] /\ Flag(x) = "put"
               \/ x = [sub |-> "", verb |-> "delete"] /\ Flag(x) = "delete"
               \/ x = [sub |-> "log", verb |-> "get"] /\ Flag(x) = "logs"
               \/ x = [sub |-> "exec", verb |-> "get"] /\ Flag(x) = "exec"
    <2>1. x \in AllChecks BY AccessReviewAssumption
    <2>2. \/ x = [sub |-> "", verb |-> "get"] \/ x = [sub |-> "", verb |-> "put"]
          \/ x = [sub |-> "", verb |-> "delete"] \/ x = [sub |-> "log", verb |-> "get"]
          \/ x = [sub |-> "exec", verb |-> "get"]
      BY <2>1 DEF AllChecks
    <2>3. CASE x = [sub |-> "", verb |-> "get"] BY <2>3 DEF Flag
    <2>4. CASE x = [sub |-> "", verb |-> "put"] BY <2>4 DEF Flag
    <2>5. CASE x = [sub |-> "", verb |-> "delete"] BY <2>5 DEF Flag
    <2>6. CASE x = [sub |-> "log", verb |-> "get"] BY <2>6 DEF Flag
    <2>7. CASE x = [sub |-> "exec", verb |-> "get"] BY <2>7 DEF Flag
    <2> QED BY <2>2, <2>3, <2>4, <2>5, <2>6, <2>7
  <1>2. CASE c = [sub |-> "", verb |-> "get"] BY <1>1, <1>2
  <1>3. CASE c = [sub |-> "", verb |-> "put"] BY <1>1, <1>3
  <1>4. CASE c = [sub |-> "", verb |-> "delete"] BY <1>1, <1>4
  <1>5. CASE c = [sub |-> "log", verb |-> "get"] BY <1>1, <1>5
  <1>6. CASE c = [sub |-> "exec", verb |-> "get"] BY <1>1, <1>6
  <1> QED BY <1>1, <1>2, <1>3, <1>4, <1>5, <1>6

\* Every set of goroutines can be counted.
LEMMA LiveFinite == IsFiniteSet(Live) /\ Cardinality(Live) \in Nat
  <1>1. IsFiniteSet(Live) BY TaskFinite, FS_Subset DEF Live
  <1> QED BY <1>1, FS_CardinalityType

\* The goroutines of one check in a set of namespaces are as many as these.
LEMMA CountOfCheck ==
  ASSUME NEW c \in Check, NEW N \in SUBSET Scope, IsFiniteSet(N)
  PROVE  /\ IsFiniteSet({c} \X N)
         /\ Cardinality({c} \X N) = Cardinality(N)
  <1>1. IsFiniteSet({c}) /\ Cardinality({c}) = 1 BY FS_Singleton
  <1>2. /\ IsFiniteSet({c} \X N)
        /\ Cardinality({c} \X N) = Cardinality({c}) * Cardinality(N)
    BY <1>1, FS_Product
  <1>3. Cardinality(N) \in Nat BY FS_CardinalityType
  <1> QED BY <1>1, <1>2, <1>3

\* The first state, and every fresh one, satisfies the invariant.
LEMMA CleanIInv ==
  ASSUME pc = "idle", scope = Cluster, namespaces = {}, known = TRUE, wg = 0,
         permissions = {}, closed = FALSE, stage = [t \in Task |-> "idle"],
         verdict = [t \in Task |-> "none"], result = {}
  PROVE  IInv
  <1>1. TypeOK BY TaskShape DEF TypeOK
  <1>2. Live = {} BY DEF Live
  <1>3. WgCountsLive /\ NoSendOnClosed
    BY <1>2, FS_EmptySet DEF WgCountsLive, NoSendOnClosed
  <1>4. Fresh /\ VerdictAfterReview /\ GrantsKept /\ AnsweredLast
    BY DEF Fresh, VerdictAfterReview, GrantsKept, AnsweredLast
  <1>5. StartedRight BY TaskShape DEF StartedRight
  <1> QED BY <1>1, <1>3, <1>4, <1>5 DEF IInv

\* A request starts its goroutines and counts them.
LEMMA RequestStep ==
  ASSUME IInv, NEW s \in Scope, NEW N \in SUBSET Namespace, NEW k \in BOOLEAN,
         Request(s, N, k)
  PROVE  IInv'
  <1> USE DEF IInv
  <1>1. Live' = Check \X {s}
    BY DEF Request, Live, Task
  <1>2. IsFiniteSet({s}) /\ Cardinality({s}) = 1 BY FS_Singleton
  <1>3. Cardinality(Check \X {s}) = Cardinality(Check) * 1
    BY <1>2, TaskFinite, FS_Product
  <1>4. Cardinality(Check) \in Nat BY TaskFinite, FS_CardinalityType
  <1>5. TypeOK' /\ WgCountsLive'
    BY <1>1, <1>3, <1>4, TaskShape DEF Request, TypeOK, WgCountsLive
  <1>6. /\ permissions = {} /\ result = {} /\ ~closed
        /\ \A t \in Task : stage[t] = "idle" /\ verdict[t] = "none"
    BY DEF Request, Fresh, VerdictAfterReview, TypeOK
  <1>7. Fresh' /\ AnsweredLast' /\ NoSendOnClosed'
    BY <1>6 DEF Request, Fresh, AnsweredLast, NoSendOnClosed
  <1>8. VerdictAfterReview'
    BY <1>6 DEF Request, VerdictAfterReview
  <1>9. StartedRight'
    BY <1>6, TaskShape DEF Request, StartedRight, Descends, TypeOK
  <1>10. GrantsKept'
    BY <1>6 DEF Request, GrantsKept
  <1> QED BY <1>5, <1>7, <1>8, <1>9, <1>10

\* The handler's and the closer's steps keep the invariant.
LEMMA HandlerStep ==
  ASSUME IInv, Answer \/ Close \/ \E t \in Task : Receive(t) \/ Panic(t)
  PROVE  IInv'
  <1> USE DEF IInv
  <1>1. UNCHANGED <<scope, namespaces, known, wg, stage, verdict>> /\ pc = "collecting"
    BY DEF Answer, Close, Receive, Panic
  <1>2. Live' = Live BY <1>1 DEF Live
  <1>3. WgCountsLive' /\ VerdictAfterReview' /\ StartedRight'
    BY <1>1, <1>2
    DEF WgCountsLive, VerdictAfterReview, StartedRight, Descends, Answer, Close,
        Receive, Panic
  <1>4. CASE Answer
    BY <1>1, <1>2, <1>3, <1>4
    DEF Answer, TypeOK, Fresh, GrantsKept, AnsweredLast, NoSendOnClosed
  <1>5. CASE Close
    <2>1. Live = {} BY <1>5, LiveFinite, FS_EmptySet DEF Close, WgCountsLive
    <2> QED
      BY <1>1, <1>2, <1>3, <1>5, <2>1
      DEF Close, TypeOK, Fresh, GrantsKept, AnsweredLast, NoSendOnClosed
  <1>6. ASSUME NEW t \in Task, Panic(t) PROVE IInv'
    BY <1>1, <1>2, <1>3, <1>6
    DEF Panic, TypeOK, Fresh, GrantsKept, AnsweredLast, NoSendOnClosed
  <1>7. ASSUME NEW t \in Task, Receive(t) PROVE IInv'
    <2>1. TypeOK' /\ Fresh' /\ AnsweredLast' /\ NoSendOnClosed'
      BY <1>1, <1>2, <1>7, TaskShape
      DEF Receive, TypeOK, Fresh, AnsweredLast, NoSendOnClosed
    <2>2. GrantsKept'
      BY <1>1, <1>7 DEF Receive, GrantsKept
    <2> QED BY <2>1, <2>2, <1>3
  <1> QED BY <1>4, <1>5, <1>6, <1>7

\* A review, a send and a Done keep the invariant.
LEMMA TaskStep ==
  ASSUME IInv, NEW t \in Task,
         \/ \E v \in {"allowed", "denied", "error"} : Review(t, v)
         \/ Send(t) \/ Done(t)
  PROVE  IInv'
  <1> USE DEF IInv
  <1>1. UNCHANGED <<pc, scope, namespaces, known, closed, result>> /\ pc = "collecting"
    BY DEF Review, Send, Done
  <1>2. t \in Live /\ ~closed
    BY DEF Review, Send, Done, Live, NoSendOnClosed
  <1>3. \A u \in Task : stage'[u] = "idle" <=> stage[u] = "idle"
    BY DEF Review, Send, Done, TypeOK
  <1>4. CASE \E v \in {"allowed", "denied", "error"} : Review(t, v)
    <2>1. PICK v \in {"allowed", "denied", "error"} : Review(t, v) BY <1>4
    <2>2. Live' = Live BY <2>1 DEF Review, Live, TypeOK
    <2>3. TypeOK' /\ WgCountsLive' /\ Fresh' /\ AnsweredLast' /\ NoSendOnClosed'
      BY <1>1, <1>2, <2>1, <2>2
      DEF Review, TypeOK, WgCountsLive, Fresh, AnsweredLast, NoSendOnClosed
    <2>4. VerdictAfterReview'
      BY <2>1 DEF Review, VerdictAfterReview, TypeOK, Descends
    <2>5. \A u \in Task : stage[u] \in {"finishing", "done"}
            => verdict'[u] = verdict[u] /\ stage'[u] = stage[u]
      BY <2>1 DEF Review, TypeOK
    <2>6. \A u \in Task : stage'[u] \in {"finishing", "done"}
            => stage'[u] = stage[u] /\ verdict'[u] = verdict[u]
      BY <2>1 DEF Review, TypeOK
    <2>7. StartedRight'
      <3>1. ASSUME NEW c \in Check
            PROVE  stage'[<<c, scope>>] # "idle"
        BY <1>1, <1>3, TaskShape DEF StartedRight, TypeOK
      <3>2. ASSUME NEW c \in Check, NEW s \in Scope, stage'[<<c, s>>] # "idle"
            PROVE  s = scope \/ ( /\ scope = Cluster /\ s \in namespaces
                      /\ Descends(<<c, Cluster>>)'
                      /\ stage'[<<c, Cluster>>] \in {"finishing", "done"} )
        BY <1>3, <2>5, <3>2, TaskShape DEF StartedRight, Descends
      <3>3. ASSUME NEW c \in Check, NEW n \in namespaces,
                   Descends(<<c, Cluster>>)',
                   stage'[<<c, Cluster>>] \in {"finishing", "done"}
            PROVE  stage'[<<c, n>>] # "idle"
        BY <1>3, <2>6, <3>3, TaskShape DEF StartedRight, Descends, TypeOK
      <3> QED BY <1>1, <3>1, <3>2, <3>3 DEF StartedRight
    <2>8. GrantsKept'
      BY <2>1, <2>6 DEF Review, GrantsKept, VerdictAfterReview, TypeOK
    <2> QED BY <2>3, <2>4, <2>7, <2>8
  <1>5. CASE Send(t) \/ Done(t)
    <2>1. verdict' = verdict BY <1>5 DEF Send, Done
    <2>2. \A u \in Task : u # t => stage'[u] = stage[u]
      BY <1>5 DEF Send, Done, TypeOK
    <2>3. Fresh' /\ AnsweredLast' /\ NoSendOnClosed'
      BY <1>1, <1>2 DEF Fresh, AnsweredLast, NoSendOnClosed
    <2>4. VerdictAfterReview'
      BY <1>5 DEF Send, Done, VerdictAfterReview, TypeOK, Descends
    <2>5. StartedRight'
      <3>1. \A u \in Task : stage[u] \in {"finishing", "done"}
              => stage'[u] \in {"finishing", "done"}
        BY <1>5 DEF Send, Done, TypeOK
      <3>2. \A u \in Task : Descends(u) /\ stage'[u] \in {"finishing", "done"}
              => stage[u] \in {"finishing", "done"}
        BY <1>5 DEF Send, Done, TypeOK, Descends
      <3> QED BY <1>1, <1>3, <2>1, <3>1, <3>2, TaskShape
              DEF StartedRight, Descends, TypeOK
    <2>6. TypeOK' /\ WgCountsLive' /\ GrantsKept'
      <3>1. CASE Send(t)
        <4>1. Live' = Live BY <3>1 DEF Send, Live, TypeOK
        <4> QED BY <1>1, <3>1, <4>1 DEF Send, TypeOK, WgCountsLive, GrantsKept
      <3>2. CASE Done(t)
        <4>1. Live' = Live \ {t} BY <3>2 DEF Done, Live, TypeOK
        <4>2. /\ IsFiniteSet(Live \ {t}) /\ Cardinality(Live \ {t}) \in Nat
              /\ Cardinality(Live \ {t}) = Cardinality(Live) - 1
          BY <1>2, LiveFinite, FS_RemoveElement, FS_CardinalityType
        <4> QED BY <1>1, <3>2, <4>1, <4>2
                DEF Done, TypeOK, WgCountsLive, GrantsKept, VerdictAfterReview
      <3> QED BY <1>5, <3>1, <3>2
    <2> QED BY <2>3, <2>4, <2>5, <2>6
  <1> QED BY <1>4, <1>5

\* A descent keeps the invariant: its goroutines are new, and all are counted.
LEMMA DescendStep ==
  ASSUME IInv, NEW t \in Task, Descend(t)
  PROVE  IInv'
  <1> USE DEF IInv
  <1> DEFINE c == t[1]
  <1>1. c \in Check /\ t = <<c, Cluster>> /\ Descends(t) /\ stage[t] = "answered"
    BY TaskShape DEF Descend, Descends
  <1>2. namespaces \subseteq Scope /\ Cluster \notin namespaces /\ IsFiniteSet(namespaces)
    BY TaskShape, AccessReviewAssumption, FS_Subset DEF TypeOK
  <1>3. \A n \in namespaces : <<c, n>> \in Task /\ <<c, n>> # t
    BY <1>1, <1>2, TaskShape
  <1>4. scope = Cluster
    BY <1>1, TaskShape DEF StartedRight, TypeOK
  <1>5. \A n \in namespaces : stage[<<c, n>>] = "idle"
    BY <1>1, <1>2, <1>3, <1>4 DEF StartedRight
  <1>6. stage' \in [Task -> {"idle", "reviewing", "answered", "finishing", "done"}]
    BY DEF Descend, TypeOK
  <1>7. /\ stage'[t] = "finishing"
        /\ \A n \in namespaces : stage'[<<c, n>>] = "reviewing"
        /\ \A u \in Task : u # t /\ ~(u[1] = c /\ u[2] \in namespaces)
             => stage'[u] = stage[u]
    BY <1>3 DEF Descend
  <1>8. UNCHANGED <<pc, scope, namespaces, known, permissions, closed, verdict, result>>
        /\ pc = "collecting" /\ wg' = wg + Cardinality(namespaces)
    BY DEF Descend
  <1>9. t \in Live /\ ~closed
    BY <1>1 DEF Live, NoSendOnClosed
  <1>10. Live' = Live \cup ({c} \X namespaces)
    <2>1. ASSUME NEW u \in Task
          PROVE  u \in Live' <=> u \in Live \/ u \in {c} \X namespaces
      <3>1. u = <<u[1], u[2]>> BY TaskShape
      <3>2. u \in {c} \X namespaces <=> u[1] = c /\ u[2] \in namespaces
        BY <3>1
      <3> QED BY <1>1, <1>3, <1>7, <1>9, <3>1, <3>2 DEF Live
    <2>2. {c} \X namespaces \subseteq Task
      BY <1>1, <1>2, TaskShape DEF Task
    <2> QED BY <2>1, <2>2 DEF Live
  <1>11. Live \cap ({c} \X namespaces) = {}
    BY <1>5 DEF Live
  <1>12. /\ IsFiniteSet({c} \X namespaces)
         /\ Cardinality({c} \X namespaces) = Cardinality(namespaces)
         /\ Cardinality(namespaces) \in Nat
    BY <1>1, <1>2, CountOfCheck, FS_CardinalityType
  <1> HIDE DEF c
  <1>13. Cardinality(Live') = Cardinality(Live) + Cardinality(namespaces)
    <2>1. Cardinality(Live \cup ({c} \X namespaces))
            = Cardinality(Live) + Cardinality({c} \X namespaces)
                - Cardinality(Live \cap ({c} \X namespaces))
      BY <1>12, LiveFinite, FS_Union
    <2>2. Cardinality(Live \cap ({c} \X namespaces)) = 0
      BY <1>11, FS_EmptySet
    <2> QED BY <1>10, <1>12, <2>1, <2>2, LiveFinite
  <1>14. TypeOK' /\ WgCountsLive'
    BY <1>6, <1>8, <1>12, <1>13 DEF TypeOK, WgCountsLive
  <1>15. Fresh' /\ AnsweredLast' /\ NoSendOnClosed'
    BY <1>8, <1>9 DEF Fresh, AnsweredLast, NoSendOnClosed
  <1>16. \A u \in Task : \/ stage'[u] = stage[u]
                         \/ u = t
                         \/ stage[u] = "idle" /\ stage'[u] = "reviewing"
    <2> SUFFICES ASSUME NEW u \in Task, u # t, stage'[u] # stage[u]
                 PROVE  stage[u] = "idle" /\ stage'[u] = "reviewing"
      OBVIOUS
    <2>1. u[1] = c /\ u[2] \in namespaces /\ u = <<u[1], u[2]>>
      BY <1>7, TaskShape
    <2> QED BY <1>5, <1>7, <2>1
  <1>17. VerdictAfterReview'
    BY <1>1, <1>7, <1>8, <1>16 DEF VerdictAfterReview, Descends
  <1>18. GrantsKept'
    BY <1>1, <1>7, <1>8, <1>16 DEF GrantsKept, Descends
  <1>19. StartedRight'
    <2>1. ASSUME NEW d \in Check PROVE stage'[<<d, scope>>] # "idle"
      BY <1>7, <1>8, <1>16, TaskShape DEF StartedRight, TypeOK
    <2>2. ASSUME NEW d \in Check, NEW s \in Scope, stage'[<<d, s>>] # "idle"
          PROVE  s = scope \/ ( /\ scope = Cluster /\ s \in namespaces
                                /\ Descends(<<d, Cluster>>)
                                /\ stage'[<<d, Cluster>>] \in {"finishing", "done"} )
      <3>1. <<d, s>> \in Task /\ <<d, Cluster>> \in Task BY TaskShape
      <3>2. CASE stage[<<d, s>>] # "idle"
        <4>1. s = scope \/ ( /\ scope = Cluster /\ s \in namespaces
                             /\ Descends(<<d, Cluster>>)
                             /\ stage[<<d, Cluster>>] \in {"finishing", "done"} )
          BY <3>2 DEF StartedRight
        <4> QED BY <4>1, <1>7, <1>16, <3>1
      <3>3. CASE stage[<<d, s>>] = "idle"
        <4>1. <<d, s>> # t /\ stage'[<<d, s>>] # stage[<<d, s>>]
          BY <3>3, <2>2, <1>1
        <4>2. d = c /\ s \in namespaces
          BY <4>1, <1>7, <3>1
        <4> QED BY <1>1, <1>4, <1>7, <4>2
      <3> QED BY <3>2, <3>3
    <2>3. ASSUME NEW d \in Check, NEW n \in namespaces, Descends(<<d, Cluster>>),
                 stage'[<<d, Cluster>>] \in {"finishing", "done"}
          PROVE  stage'[<<d, n>>] # "idle"
      <3>1. <<d, n>> \in Task /\ <<d, Cluster>> \in Task BY <1>2, TaskShape
      <3>2. CASE d = c BY <3>2, <1>7
      <3>3. CASE d # c
        <4>1. stage'[<<d, Cluster>>] = stage[<<d, Cluster>>]
          BY <1>1, <1>7, <3>1, <3>3
        <4>2. stage[<<d, n>>] # "idle"
          BY <2>3, <4>1 DEF StartedRight
        <4> QED BY <4>2, <1>7, <1>16, <3>1
      <3> QED BY <3>2, <3>3
    <2>4. \A u \in Task : Descends(u)' <=> Descends(u)
      BY <1>8 DEF Descends
    <2> QED BY <1>8, <2>1, <2>2, <2>3, <2>4, TaskShape DEF StartedRight
  <1> QED BY <1>14, <1>15, <1>17, <1>18, <1>19

\* The next request, and a process that comes up again, start from nothing.
LEMMA CleanStep ==
  ASSUME Clean PROVE IInv'
  <1>1. TypeOK' BY TaskShape DEF Clean, TypeOK
  <1>2. Live' = {} BY DEF Clean, Live
  <1>3. WgCountsLive' /\ NoSendOnClosed'
    BY <1>2, FS_EmptySet DEF Clean, WgCountsLive, NoSendOnClosed
  <1>4. Fresh' /\ VerdictAfterReview' /\ GrantsKept' /\ AnsweredLast'
    BY DEF Clean, Fresh, VerdictAfterReview, GrantsKept, AnsweredLast
  <1>5. StartedRight' BY TaskShape DEF Clean, StartedRight
  <1> QED BY <1>1, <1>3, <1>4, <1>5 DEF IInv

\* IInv is inductive.
LEMMA Inductive == IInv /\ [Next]_vars => IInv'
  <1> SUFFICES ASSUME IInv, [Next]_vars PROVE IInv'
    OBVIOUS
  <1>1. CASE UNCHANGED vars
    BY <1>1
    DEF vars, IInv, TypeOK, WgCountsLive, Live, Fresh, VerdictAfterReview,
        StartedRight, GrantsKept, AnsweredLast, NoSendOnClosed, Descends
  <1>2. CASE Next
    <2>1. ASSUME NEW s \in Scope, NEW N \in SUBSET Namespace, NEW k \in BOOLEAN,
                 Request(s, N, k)
          PROVE  IInv'
      BY <2>1, RequestStep
    <2>2. CASE Handler \/ Close BY <2>2, HandlerStep DEF Handler
    <2>3. CASE Return \/ Restart BY <2>3, CleanStep DEF Return, Restart
    <2>4. ASSUME NEW t \in Task, GetAccess(t) PROVE IInv'
      BY <2>4, HandlerStep, TaskStep, DescendStep DEF GetAccess
    <2> QED BY <1>2, <2>1, <2>2, <2>3, <2>4 DEF Next
  <1> QED BY <1>1, <1>2

\* IInv holds in every state of every behaviour.
THEOREM Invariance == Spec => []IInv
  <1>1. Init => IInv BY CleanIInv DEF Init
  <1> QED BY <1>1, Inductive, PTL DEF Spec

\* No goroutine ever sends on the closed channel.
THEOREM NeverSendsOnClosed == Spec => []NoSendOnClosed
  <1>1. IInv => NoSendOnClosed BY DEF IInv
  <1> QED BY <1>1, Invariance, PTL
-----------------------------------------------------------------------------
\* When the range is over every check is settled and the flags that are set are
\* those of the allowed checks.
LEMMA AnswerIsRight ==
  ASSUME IInv, Answer
  PROVE  /\ \A c \in Check : AA!Settled(c)
         /\ {c \in Check : Flag(c) \in result} = AA!Allowed
  <1> USE DEF IInv
  <1>1. \A t \in Task : stage[t] \in {"idle", "done"}
    BY DEF Answer, NoSendOnClosed, Live, TypeOK
  <1>2. pc # "idle" /\ permissions = {} BY DEF Answer
  <1>3. ASSUME NEW c \in Check PROVE AA!Settled(c)
    <2>1. <<c, scope>> \in Task /\ stage[<<c, scope>>] = "done"
      BY <1>1, <1>2, TaskShape DEF StartedRight, TypeOK
    <2>2. verdict[<<c, scope>>] # "none" BY <2>1 DEF VerdictAfterReview
    <2>3. ASSUME scope = Cluster, verdict[<<c, Cluster>>] = "denied",
                 NEW n \in namespaces
          PROVE  verdict[<<c, n>>] # "none"
      <3>1. <<c, n>> \in Task BY TaskShape DEF TypeOK
      <3>2. stage[<<c, n>>] # "idle"
        BY <2>1, <2>3 DEF StartedRight, Descends
      <3> QED BY <1>1, <3>1, <3>2 DEF VerdictAfterReview
    <2> QED BY <2>2, <2>3 DEF AA!Settled
  <1>4. ASSUME NEW c \in Check
        PROVE  Flag(c) \in result
                 <=> \E s \in Namespace \cup {Cluster} : verdict[<<c, s>>] = "allowed"
    <2>1. ASSUME Flag(c) \in result
          PROVE  \E s \in Namespace \cup {Cluster} : verdict[<<c, s>>] = "allowed"
      <3>1. PICK t \in Task : Flag(c) = Flag(t[1]) /\ verdict[t] = "allowed"
        BY <2>1 DEF GrantsKept
      <3>2. t[1] = c BY <3>1, TaskShape, FlagInjective
      <3> QED BY <3>1, <3>2, TaskShape DEF Scope
    <2>2. ASSUME NEW s \in Namespace \cup {Cluster}, verdict[<<c, s>>] = "allowed"
          PROVE  Flag(c) \in result
      <3>1. <<c, s>> \in Task BY TaskShape DEF Scope
      <3>2. stage[<<c, s>>] = "done"
        BY <1>1, <2>2, <3>1 DEF VerdictAfterReview
      <3> QED BY <1>2, <2>2, <3>1, <3>2 DEF GrantsKept
    <2> QED BY <2>1, <2>2
  <1>5. {c \in Check : Flag(c) \in result} = AA!Allowed
    BY <1>4 DEF AA!Allowed
  <1> QED BY <1>3, <1>5

\* Every step of the goroutines is a step of the abstract specification or none.
LEMMA StepSimulation == IInv /\ [Next]_vars => [AA!Next]_(AA!vars)
  <1> SUFFICES ASSUME IInv, [Next]_vars PROVE [AA!Next]_(AA!vars)
    OBVIOUS
  <1> USE DEF Status, Granted
  <1>1. ASSUME NEW s \in Scope, NEW N \in SUBSET Namespace, NEW k \in BOOLEAN,
               Request(s, N, k)
        PROVE  AA!Next
    <2>1. AA!Ask(s, N) BY <1>1 DEF Request, AA!Ask
    <2> QED BY <2>1 DEF AA!Next, Scope
  <1>2. ASSUME NEW t \in Task, NEW v \in {"allowed", "denied", "error"}, Review(t, v)
        PROVE  AA!Next
    <2>1. /\ t = <<t[1], t[2]>> /\ t[1] \in Check /\ t[2] \in Scope
          /\ stage[t] = "reviewing" /\ verdict[t] = "none" /\ pc = "collecting"
      BY <1>2, TaskShape DEF Review, IInv, VerdictAfterReview
    <2>2. \/ t[2] = scope
          \/ scope = Cluster /\ t[2] \in namespaces /\ verdict[<<t[1], Cluster>>] = "denied"
      BY <2>1 DEF IInv, StartedRight, Descends
    <2>3. AA!Decide(t[1], t[2], v)
      BY <1>2, <2>1, <2>2 DEF Review, AA!Decide
    <2> QED BY <2>1, <2>3 DEF AA!Next, Scope
  <1>3. CASE Answer
    <2>1. AA!Answer
      BY <1>3, AnswerIsRight DEF Answer, AA!Answer
    <2> QED BY <2>1 DEF AA!Next
  <1>4. CASE Return \/ Restart
    <2>1. AA!Reset
      BY <1>4 DEF Return, Restart, Clean, AA!Reset, AA!Review, Task, Scope
    <2> QED BY <2>1 DEF AA!Next
  <1>5. CASE Close \/ UNCHANGED vars
             \/ \E t \in Task : Receive(t) \/ Panic(t) \/ Descend(t) \/ Send(t) \/ Done(t)
    <2>1. UNCHANGED AA!vars
      BY <1>5 DEF Close, vars, Receive, Panic, Descend, Send, Done, AA!vars
    <2> QED BY <2>1
  <1> QED BY <1>1, <1>2, <1>3, <1>4, <1>5 DEF Next, Handler, GetAccess

\* The goroutines, the wait group, the closer and the bounded channel together do
\* what the abstract specification promises.
THEOREM Implementation == Spec => ImplementsAnswer
  <1>1. Init => AA!Init
    BY DEF Init, AA!Init, AA!Review, Task, Scope, Status, Granted
  <1> QED BY <1>1, StepSimulation, Invariance, PTL DEF Spec, ImplementsAnswer, AA!Spec
=============================================================================
