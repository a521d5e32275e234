------------------------- MODULE ResourceListProofs -------------------------
(***************************************************************************)
(* Proofs about ResourceList for any finite set of kinds and namespaces.   *)
(***************************************************************************)
EXTENDS ResourceList, FiniteSetTheorems, TLAPS

\* There are finitely many goroutines, so every set of them can be counted.
LEMMA TaskFinite == IsFiniteSet(Task)
  <1>1. IsFiniteSet(Scope)
    BY ResourceListAssumption, FS_AddElement DEF Scope
  <1> QED BY <1>1, ResourceListAssumption, FS_Product DEF Task

\* A task is a kind and a scope.
LEMMA TaskShape ==
  /\ \A k \in Kind : <<k, Cluster>> \in Task
  /\ \A k \in Kind : \A n \in Namespace : <<k, n>> \in Task /\ n # Cluster
  /\ \A t \in Task : /\ t = <<t[1], t[2]>> /\ t[1] \in Kind
                     /\ t[2] = Cluster \/ t[2] \in Namespace
  BY ResourceListAssumption DEF Task, Scope

\* Starting a goroutine adds one to the live ones, ending one takes one away,
\* and moving one along changes none: the counter of the wait group follows.
LEMMA LiveCount ==
  ASSUME stage \in [Task -> {"idle", "listing", "answered", "sent", "done"}],
         NEW t \in Task, NEW s \in {"idle", "listing", "answered", "sent", "done"},
         stage' = [stage EXCEPT ![t] = s]
  PROVE  /\ Cardinality(Live) \in Nat
         /\ stage[t] = "idle" /\ s = "listing"
              => Cardinality(Live') = Cardinality(Live) + 1
         /\ t \in Live /\ s = "done"
              => Cardinality(Live') = Cardinality(Live) - 1
         /\ t \in Live /\ s \in {"answered", "sent"}
              => Live' = Live
  <1>1. IsFiniteSet(Live)
    BY TaskFinite, FS_Subset DEF Live
  <1>2. Cardinality(Live) \in Nat
    BY <1>1, FS_CardinalityType
  <1>3. ASSUME stage[t] = "idle", s = "listing"
        PROVE  Cardinality(Live') = Cardinality(Live) + 1
    <2>1. Live' = Live \cup {t} /\ t \notin Live
      BY <1>3 DEF Live
    <2> QED BY <2>1, <1>1, FS_AddElement
  <1>4. ASSUME t \in Live, s = "done"
        PROVE  Cardinality(Live') = Cardinality(Live) - 1
    <2>1. Live' = Live \ {t}
      BY <1>4 DEF Live
    <2> QED BY <2>1, <1>1, <1>4, FS_RemoveElement
  <1>5. ASSUME t \in Live, s \in {"answered", "sent"}
        PROVE  Live' = Live
    BY <1>5 DEF Live
  <1> QED BY <1>2, <1>3, <1>4, <1>5
-----------------------------------------------------------------------------
\* The first state satisfies the invariant: nothing is started, nothing is sent.
LEMMA InitIInv == Init => IInv
  <1> SUFFICES ASSUME Init PROVE IInv OBVIOUS
  <1> USE DEF Init
  <1>1. TypeOK BY DEF TypeOK
  <1>2. Live = {} BY DEF Live
  <1>3. WgCountsLive BY <1>2, FS_EmptySet DEF WgCountsLive
  <1>4. Fresh /\ AnswerAfterList BY DEF Fresh, AnswerAfterList
  <1>5. ChildOfRefused
    BY TaskShape DEF ChildOfRefused, Started
  <1>6. DoneMeansFinished BY DEF DoneMeansFinished
  <1>7. SentLists BY DEF SentLists
  <1>8. AssembledAfterLastTask /\ BufferSized
    BY DEF AssembledAfterLastTask, BufferSized
  <1> QED BY <1>1, <1>3, <1>4, <1>5, <1>6, <1>7, <1>8 DEF IInv

\* A step of Serve, of the updater or of the client keeps the invariant.
LEMMA HandlerStep ==
  ASSUME IInv,
         \/ \E S \in SUBSET Kind : Update(S)
         \/ \E N \in SUBSET Namespace : Request(N)
         \/ MakeLists \/ RLock \/ RUnlock \/ Wait \/ Respond
  PROVE  IInv'
  <1> USE DEF IInv
  <1>1. UNCHANGED <<stage, answer, wg, result, lists>>
    BY DEF Update, Request, MakeLists, RLock, RUnlock, Wait, Respond
  <1>2. Live' = Live BY <1>1 DEF Live
  <1>3. TypeOK' /\ Fresh'
    <2>1. CASE \E S \in SUBSET Kind : Update(S)
      BY <2>1 DEF Update, TypeOK, Fresh
    <2>2. CASE \E N \in SUBSET Namespace : Request(N)
      BY <2>2 DEF Request, TypeOK, Fresh
    <2>3. CASE MakeLists
      <3>1. IsFiniteSet(kinds) /\ IsFiniteSet(namespaces)
        BY ResourceListAssumption, FS_Subset DEF TypeOK
      <3>2. Cardinality(kinds) \in Nat /\ Cardinality(namespaces) \in Nat
        BY <3>1, FS_CardinalityType
      <3>3. Cardinality(kinds) * Cardinality(namespaces) \in Nat
        BY <3>2
      <3> QED BY <2>3, <3>2, <3>3 DEF MakeLists, TypeOK, Fresh
    <2>4. CASE RLock \/ RUnlock \/ Wait \/ Respond
      BY <2>4 DEF RLock, RUnlock, Wait, Respond, TypeOK, Fresh
    <2> QED BY <2>1, <2>2, <2>3, <2>4
  <1>4. WgCountsLive' /\ AnswerAfterList'
    BY <1>1, <1>2 DEF WgCountsLive, AnswerAfterList
  <1>5. ChildOfRefused' /\ DoneMeansFinished'
    <2>1. CASE \E N \in SUBSET Namespace : Request(N)
      <3>1. \A t \in Task : stage'[t] = "idle"
        BY <2>1, <1>1 DEF Request, Fresh
      <3> QED
        BY <3>1, TaskShape DEF ChildOfRefused, DoneMeansFinished, Started
    <2>2. CASE UNCHANGED namespaces
      BY <2>2, <1>1
      DEF ChildOfRefused, DoneMeansFinished, Started, Descends, Unspawned
    <2> QED
      BY <2>1, <2>2 DEF Update, MakeLists, RLock, RUnlock, Wait, Respond
  <1>6. SentLists'
    BY <1>1 DEF SentLists, Update, Request, MakeLists, RLock, RUnlock, Wait, Respond
  <1>7. AssembledAfterLastTask'
    <2>1. CASE Wait
      <3>1. IsFiniteSet(Live) BY TaskFinite, FS_Subset DEF Live
      <3>2. Live = {} BY <2>1, <3>1, FS_EmptySet DEF Wait, WgCountsLive
      <3> QED BY <3>2, <1>2 DEF AssembledAfterLastTask
    <2>2. CASE pc' \in {"assembling", "responded"} => pc \in {"assembling", "responded"}
      BY <2>2, <1>2 DEF AssembledAfterLastTask
    <2> QED
      BY <2>1, <2>2 DEF Update, Request, MakeLists, RLock, RUnlock, Respond
  <1>8. BufferSized'
    BY DEF BufferSized, Update, Request, MakeLists, RLock, RUnlock, Wait, Respond
  <1> QED BY <1>3, <1>4, <1>5, <1>6, <1>7, <1>8

\* Draining the channel and returning keep the invariant.
LEMMA AssembleStep ==
  ASSUME IInv, Return \/ \E t \in Task : Assemble(t)
  PROVE  IInv'
  <1> USE DEF IInv
  <1>1. CASE Return
    <2>1. lists = {} /\ Live = {} /\ wg = 0
      BY <1>1, FS_EmptySet
      DEF Return, SentLists, AssembledAfterLastTask, WgCountsLive
    <2>2. Live' = {} BY <1>1 DEF Return, Live
    <2>3. /\ TypeOK' /\ Fresh' /\ AnswerAfterList' /\ AssembledAfterLastTask'
          /\ BufferSized'
      BY <1>1
      DEF Return, TypeOK, Fresh, AnswerAfterList, AssembledAfterLastTask, BufferSized
    <2>4. WgCountsLive'
      BY <2>1, <2>2, <1>1, FS_EmptySet DEF Return, WgCountsLive
    <2>5. ChildOfRefused' /\ DoneMeansFinished'
      BY <1>1, TaskShape DEF Return, ChildOfRefused, DoneMeansFinished, Started
    <2>6. SentLists' BY <1>1, <2>1 DEF Return, SentLists
    <2> QED BY <2>3, <2>4, <2>5, <2>6
  <1>2. ASSUME NEW t \in Task, Assemble(t) PROVE IInv'
    <2>1. Live' = Live /\ lists' \cup result' = lists \cup result
      BY <1>2 DEF Assemble, Live
    <2>2. TypeOK' /\ Fresh' /\ AnswerAfterList' /\ WgCountsLive' /\ AssembledAfterLastTask'
      BY <1>2, <2>1
      DEF Assemble, TypeOK, Fresh, AnswerAfterList, WgCountsLive, AssembledAfterLastTask
    <2>3. ChildOfRefused' /\ DoneMeansFinished'
      BY <1>2 DEF Assemble, ChildOfRefused, DoneMeansFinished, Started, Descends, Unspawned
    <2>4. SentLists' /\ BufferSized'
      BY <1>2, <2>1 DEF Assemble, SentLists, BufferSized
    <2> QED BY <2>2, <2>3, <2>4
  <1> QED BY <1>1, <1>2

\* Starting a goroutine keeps the invariant: it is counted before it runs, and
\* a namespace is asked only under a refused cluster list.
LEMMA SpawnStep ==
  ASSUME IInv,
         \/ \E k \in Kind : SpawnKind(k)
         \/ \E t \in Task, n \in Namespace : SpawnNamespace(t, n)
  PROVE  IInv'
  <1> USE DEF IInv
  <1>1. PICK u \in Task :
          /\ stage[u] = "idle"
          /\ stage' = [stage EXCEPT ![u] = "listing"]
          /\ wg' = wg + 1
          /\ u[2] # Cluster => Descends(<<u[1], Cluster>>) /\ u[2] \in namespaces
          /\ pc = "spawning" \/ Started(<<u[1], Cluster>>)
    <2>1. ASSUME NEW k \in Kind, SpawnKind(k)
          PROVE  /\ <<k, Cluster>> \in Task /\ stage[<<k, Cluster>>] = "idle"
                 /\ stage' = [stage EXCEPT ![<<k, Cluster>>] = "listing"]
                 /\ wg' = wg + 1 /\ pc = "spawning"
      BY <2>1, TaskShape DEF SpawnKind
    <2>2. ASSUME NEW t \in Task, NEW n \in Namespace, SpawnNamespace(t, n)
          PROVE  /\ <<t[1], n>> \in Task /\ stage[<<t[1], n>>] = "idle"
                 /\ stage' = [stage EXCEPT ![<<t[1], n>>] = "listing"]
                 /\ wg' = wg + 1
                 /\ t = <<t[1], Cluster>> /\ Descends(t) /\ n \in namespaces
                 /\ Started(t)
      BY <2>2, TaskShape DEF SpawnNamespace, Descends, Unspawned, Started
    <2> QED BY <2>1, <2>2
  <1>2. UNCHANGED <<kinds, pc, namespaces, nkinds, capacity, lists, answer, result>>
    BY DEF SpawnKind, SpawnNamespace
  <1>3. pc \notin {"idle", "sizing", "locking"}
    BY <1>1, TaskShape DEF Fresh, Started
  <1>4. wg' = Cardinality(Live')
    BY <1>1, LiveCount DEF TypeOK, WgCountsLive
  <1>5. TypeOK' /\ WgCountsLive'
    BY <1>1, <1>2, <1>4, LiveCount DEF TypeOK, WgCountsLive
  <1>6. Fresh' /\ AnswerAfterList'
    BY <1>1, <1>2, <1>3 DEF Fresh, AnswerAfterList, TypeOK
  <1>7. ChildOfRefused'
    <2> SUFFICES ASSUME NEW k \in Kind, NEW n \in Namespace, Started(<<k, n>>)'
                 PROVE  Descends(<<k, Cluster>>)' /\ n \in namespaces'
      BY DEF ChildOfRefused
    <2>1. CASE u = <<k, n>>
      BY <2>1, <1>1, <1>2, TaskShape DEF Descends
    <2>2. CASE u # <<k, n>>
      BY <2>2, <1>1, <1>2, TaskShape DEF ChildOfRefused, Started, Descends, TypeOK
    <2> QED BY <2>1, <2>2
  <1>8. DoneMeansFinished'
    BY <1>1, <1>2, TaskShape
    DEF DoneMeansFinished, Descends, Unspawned, TypeOK
  <1>9. SentLists' /\ BufferSized'
    BY <1>1, <1>2 DEF SentLists, BufferSized, TypeOK
  <1>10. AssembledAfterLastTask'
    <2>1. Started(<<u[1], Cluster>>) /\ pc # "spawning" => Live # {}
      <3> SUFFICES ASSUME Started(<<u[1], Cluster>>), pc # "spawning", Live = {}
                   PROVE  FALSE
        OBVIOUS
      <3>1. u[2] # Cluster
        BY <1>1, TaskShape DEF Started
      <3>2. <<u[1], Cluster>> \in Task /\ stage[<<u[1], Cluster>>] = "done"
        BY TaskShape DEF Live, Started, TypeOK
      <3>3. u[2] \in Unspawned(u[1])
        BY <1>1, <3>1, TaskShape DEF Unspawned
      <3> QED BY <1>1, <3>1, <3>2, <3>3 DEF DoneMeansFinished
    <2> QED BY <2>1, <1>1, <1>2 DEF AssembledAfterLastTask
  <1> QED BY <1>5, <1>6, <1>7, <1>8, <1>9, <1>10

\* The answer of a List call keeps the invariant.
LEMMA ListStep ==
  ASSUME IInv, NEW t \in Task, NEW a \in Answer, List(t, a)
  PROVE  IInv'
  <1> USE DEF IInv
  <1>1. Live' = Live BY LiveCount DEF List, TypeOK, Live
  <1>2. TypeOK' /\ WgCountsLive' /\ AssembledAfterLastTask' /\ BufferSized'
    BY <1>1 DEF List, TypeOK, WgCountsLive, AssembledAfterLastTask, BufferSized
  <1>3. Fresh' /\ AnswerAfterList'
    BY DEF List, Fresh, AnswerAfterList, TypeOK, Answer
  <1>4. \A u \in Task : Descends(u) => Descends(u)'
    BY DEF List, Descends, AnswerAfterList, TypeOK
  <1>5. \A u \in Task : stage'[u] = "idle" <=> stage[u] = "idle"
    BY DEF List, TypeOK
  <1>6. ChildOfRefused'
    BY <1>4, <1>5, TaskShape DEF List, ChildOfRefused, Started, TypeOK
  <1>7. DoneMeansFinished'
    BY <1>5, TaskShape DEF List, DoneMeansFinished, Descends, Unspawned, TypeOK
  <1>8. SentLists'
    BY DEF List, SentLists, AnswerAfterList, TypeOK
  <1> QED BY <1>2, <1>3, <1>6, <1>7, <1>8

\* Sending a list keeps the invariant.
LEMMA SendStep ==
  ASSUME IInv, NEW t \in Task, Send(t)
  PROVE  IInv'
  <1> USE DEF IInv
  <1>1. Live' = Live BY LiveCount DEF Send, TypeOK, Live
  <1>2. TypeOK' /\ WgCountsLive' /\ AssembledAfterLastTask' /\ BufferSized'
    BY <1>1 DEF Send, TypeOK, WgCountsLive, AssembledAfterLastTask, BufferSized
  <1>3. Fresh' /\ AnswerAfterList'
    BY DEF Send, Fresh, AnswerAfterList, TypeOK
  <1>4. \A u \in Task : stage'[u] = "idle" <=> stage[u] = "idle"
    BY DEF Send, TypeOK
  <1>5. ChildOfRefused' /\ DoneMeansFinished'
    BY <1>4, TaskShape
    DEF Send, ChildOfRefused, DoneMeansFinished, Started, Descends, Unspawned, TypeOK
  <1>6. SentLists'
    <2>1. t \in Live BY DEF Send, Live
    <2>2. pc \notin {"assembling", "responded"}
      BY <2>1 DEF AssembledAfterLastTask
    <2> QED BY <2>2 DEF Send, SentLists, TypeOK
  <1> QED BY <1>2, <1>3, <1>5, <1>6

\* wg.Done() keeps the invariant.
LEMMA DoneStep ==
  ASSUME IInv, NEW t \in Task, Done(t)
  PROVE  IInv'
  <1> USE DEF IInv
  <1>1. t \in Live BY DEF Done, Finished, Live
  <1>2. Cardinality(Live) \in Nat /\ Cardinality(Live') = Cardinality(Live) - 1
    BY <1>1, LiveCount DEF Done, TypeOK
  <1>3. IsFiniteSet(Live') /\ Cardinality(Live') \in Nat
    <2>1. IsFiniteSet(Live') BY TaskFinite, FS_Subset DEF Live
    <2> QED BY <2>1, FS_CardinalityType
  <1>4. TypeOK' /\ WgCountsLive'
    BY <1>2, <1>3 DEF Done, TypeOK, WgCountsLive
  <1>5. pc \notin {"assembling", "responded"}
    BY <1>1 DEF AssembledAfterLastTask
  <1>6. Fresh' /\ AnswerAfterList' /\ AssembledAfterLastTask'
    BY <1>5 DEF Done, Finished, Fresh, AnswerAfterList, AssembledAfterLastTask, TypeOK
  <1>7. \A u \in Task : stage'[u] = "idle" <=> stage[u] = "idle"
    BY DEF Done, Finished, TypeOK
  <1>8. ChildOfRefused'
    BY <1>7, TaskShape DEF Done, ChildOfRefused, Started, Descends, TypeOK
  <1>9. DoneMeansFinished'
    <2> SUFFICES ASSUME NEW u \in Task, stage'[u] = "done", Descends(u)'
                 PROVE  Unspawned(u[1])' = {}
      BY DEF DoneMeansFinished
    <2>1. Unspawned(u[1])' = Unspawned(u[1])
      BY <1>7, TaskShape DEF Done, Unspawned, TypeOK
    <2>2. CASE u = t
      BY <2>1, <2>2 DEF Done, Finished, Descends, SentLists
    <2>3. CASE u # t
      BY <2>1, <2>3 DEF Done, DoneMeansFinished, Descends, TypeOK
    <2> QED BY <2>2, <2>3
  <1>10. SentLists' /\ BufferSized'
    BY DEF Done, Finished, SentLists, BufferSized, TypeOK
  <1> QED BY <1>4, <1>6, <1>8, <1>9, <1>10

\* IInv is inductive: it holds in every state of every behaviour of the handler,
\* the updater and the fetchKind goroutines.
THEOREM Invariance == Spec => []IInv
  <1>1. IInv /\ [Next]_vars => IInv'
    <2> SUFFICES ASSUME IInv, [Next]_vars PROVE IInv'
      OBVIOUS
    <2>1. CASE UNCHANGED vars
      BY <2>1
      DEF vars, IInv, TypeOK, WgCountsLive, Fresh, AnswerAfterList, ChildOfRefused,
          DoneMeansFinished, SentLists, AssembledAfterLastTask, BufferSized,
          Live, Started, Descends, Unspawned
    <2>2. CASE Next
      BY <2>2, HandlerStep, AssembleStep, SpawnStep, ListStep, SendStep, DoneStep
      DEF Next, Serve, FetchKind
    <2> QED BY <2>1, <2>2
  <1> QED BY InitIInv, <1>1, PTL DEF Spec

\* Every variable keeps its type; in particular wg.Done() never makes the counter
\* of the wait group negative, which would panic.
THEOREM TypeCorrect == Spec => []TypeOK
  <1>1. IInv => TypeOK BY DEF IInv
  <1> QED BY <1>1, Invariance, PTL

\* Serve never assembles the response while a goroutine of the request is left.
THEOREM BarrierHolds == Spec => []AssembledAfterLastTask
  <1>1. IInv => AssembledAfterLastTask BY DEF IInv
  <1> QED BY <1>1, Invariance, PTL

\* No item comes twice in a response.
THEOREM ItemsOnce == Spec => []NoItemTwice
  <1>1. IInv => NoItemTwice
    BY TaskShape DEF IInv, NoItemTwice, ChildOfRefused, Descends, SentLists, Started
  <1> QED BY <1>1, Invariance, PTL

\* A response has every list that was answered with items, and a namespaced kind
\* refused for the cluster was asked in every namespace.
THEOREM CompleteResponse == Spec => []ResponseComplete
  <1>1. IInv => ResponseComplete
    <2> SUFFICES ASSUME IInv, pc = "responded"
                 PROVE  /\ result = {t \in Task : answer[t] = "items"}
                        /\ \A k \in Requested \cap Namespaced :
                             answer[<<k, Cluster>>] = "forbidden"
                               => \A n \in namespaces : answer[<<k, n>>] # "none"
      BY DEF ResponseComplete
    <2>1. \A t \in Task : stage[t] \in {"idle", "done"}
      BY DEF IInv, AssembledAfterLastTask, Live, TypeOK
    <2>2. result = {t \in Task : answer[t] = "items"}
      BY <2>1 DEF IInv, SentLists, AnswerAfterList
    <2>3. ASSUME NEW k \in Requested \cap Namespaced,
                 answer[<<k, Cluster>>] = "forbidden", NEW n \in namespaces
          PROVE  answer[<<k, n>>] # "none"
      <3>1. <<k, Cluster>> \in Task /\ <<k, n>> \in Task
        BY TaskShape DEF Requested, IInv, TypeOK
      <3>2. stage[<<k, Cluster>>] = "done" /\ Descends(<<k, Cluster>>)
        BY <2>1, <2>3, <3>1 DEF Requested, Started, Descends
      <3>3. Unspawned(k) = {}
        BY <3>1, <3>2 DEF IInv, DoneMeansFinished
      <3>4. stage[<<k, n>>] = "done"
        BY <2>1, <3>1, <3>3 DEF Unspawned
      <3> QED BY <3>1, <3>4 DEF IInv, AnswerAfterList
    <2> QED BY <2>2, <2>3
  <1> QED BY <1>1, Invariance, PTL

\* Multiplication by a natural number is monotonic.
LEMMA TimesMonotonic ==
  ASSUME NEW a \in Nat, NEW b \in Nat, NEW c \in Nat, a <= b
  PROVE  a * c <= b * c
  OBVIOUS

\* The lists a request can ever produce are at most one per kind and namespace:
\* a kind listed for the cluster takes the place of one of its namespaces.
LEMMA ProducersFit ==
  ASSUME IInv, pc # "idle"
  PROVE  LET P == {t \in Task : answer[t] = "items"}
         IN  /\ IsFiniteSet(P)
             /\ Cardinality(P) <= Cardinality(Requested) * Cardinality(namespaces)
  <1> DEFINE P == {t \in Task : answer[t] = "items"}
  <1>1. PICK n0 \in namespaces : TRUE BY DEF IInv, Fresh
  <1> DEFINE f == [t \in P |-> IF t[2] = Cluster THEN <<t[1], n0>> ELSE <<t[1], t[2]>>]
  <1>2. IsFiniteSet(Requested) /\ IsFiniteSet(namespaces)
    BY ResourceListAssumption, FS_Subset DEF Requested, IInv, TypeOK
  <1>3. ASSUME NEW t \in P
        PROVE  /\ t[1] \in Requested
               /\ t[2] # Cluster => /\ t[2] \in namespaces
                                    /\ answer[<<t[1], Cluster>>] = "forbidden"
    <2>1. Started(t) BY DEF IInv, AnswerAfterList, Started
    <2>2. CASE t[2] = Cluster
      BY <2>1, <2>2, TaskShape DEF Requested
    <2>3. CASE t[2] # Cluster
      <3>1. t[1] \in Kind /\ t[2] \in Namespace /\ t = <<t[1], t[2]>>
        BY <2>3, TaskShape
      <3>2. Descends(<<t[1], Cluster>>) /\ t[2] \in namespaces
        BY <2>1, <3>1 DEF IInv, ChildOfRefused
      <3>3. answer[<<t[1], Cluster>>] = "forbidden" /\ <<t[1], Cluster>> \in Task
        BY <3>1, <3>2, TaskShape DEF Descends
      <3>4. Started(<<t[1], Cluster>>)
        BY <3>3 DEF IInv, AnswerAfterList, Started
      <3> QED BY <3>1, <3>2, <3>3, <3>4 DEF Requested
    <2> QED BY <2>2, <2>3
  <1>4. f \in [P -> Requested \X namespaces]
    BY <1>1, <1>3
  <1>5. ASSUME NEW a \in P, NEW b \in P, f[a] = f[b]
        PROVE  a = b
    <2>1. /\ a = <<a[1], a[2]>> /\ b = <<b[1], b[2]>>
          /\ answer[a] = "items" /\ answer[b] = "items"
      BY TaskShape
    <2>2. a[1] = b[1]
      BY <1>5
    <2>3. (a[2] = Cluster) <=> (b[2] = Cluster)
      BY <1>3, <2>1, <2>2
    <2>4. a[2] = b[2]
      BY <1>5, <2>3
    <2> QED BY <2>1, <2>2, <2>4
  <1>6. f \in Injection(P, Requested \X namespaces)
    BY <1>4, <1>5 DEF Injection, IsInjective
  <1>7. /\ IsFiniteSet(Requested \X namespaces)
        /\ Cardinality(Requested \X namespaces)
             = Cardinality(Requested) * Cardinality(namespaces)
    BY <1>2, FS_Product
  <1>8. IsFiniteSet(P) /\ Cardinality(P) <= Cardinality(Requested \X namespaces)
    BY <1>6, <1>7, FS_Injection
  <1> QED BY <1>7, <1>8

\* A buffer made for the kinds the loop iterates over is large enough: no fetchKind
\* goroutine blocks in lists <- ul, although nobody receives before wg.Wait().
THEOREM BufferSuffices == Spec => []NeverBlocksWhenSized
  <1>1. IInv => NeverBlocksWhenSized
    <2> SUFFICES ASSUME IInv,
                        Cardinality(Requested) <= nkinds,
                        NEW t \in Task, Blocked(t)
                 PROVE  FALSE
      BY DEF NeverBlocksWhenSized
    <2> DEFINE P == {u \in Task : answer[u] = "items"}
    <2>1. pc # "idle" BY DEF IInv, Fresh, Blocked
    <2>2. IsFiniteSet(P) /\ Cardinality(P) <= Cardinality(Requested) * Cardinality(namespaces)
      BY <2>1, ProducersFit
    <2>3. t \notin lists /\ lists \cup {t} \subseteq P
      BY DEF IInv, SentLists, Blocked
    <2>4. IsFiniteSet(lists) /\ IsFiniteSet(lists \cup {t})
      BY <2>2, <2>3, FS_Subset
    <2>5. Cardinality(lists \cup {t}) = Cardinality(lists) + 1
      BY <2>3, <2>4, FS_AddElement
    <2>6. Cardinality(lists \cup {t}) <= Cardinality(P)
      BY <2>2, <2>3, FS_Subset
    <2>7. /\ Cardinality(lists) \in Nat /\ Cardinality(P) \in Nat
          /\ Cardinality(lists \cup {t}) \in Nat
          /\ Cardinality(Requested) \in Nat /\ Cardinality(namespaces) \in Nat
      <3>1. IsFiniteSet(Requested) /\ IsFiniteSet(namespaces)
        BY ResourceListAssumption, FS_Subset DEF Requested, IInv, TypeOK
      <3> QED BY <2>2, <2>4, <3>1, FS_CardinalityType
    <2>8. /\ Cardinality(lists) >= capacity /\ nkinds \in Nat
          /\ capacity = nkinds * Cardinality(namespaces)
      BY DEF Blocked, IInv, TypeOK, BufferSized, Fresh
    <2>9. Cardinality(Requested) * Cardinality(namespaces)
            <= nkinds * Cardinality(namespaces)
      BY <2>7, <2>8, TimesMonotonic
    <2> HIDE DEF P
    <2>10. /\ Cardinality(Requested) * Cardinality(namespaces) \in Nat
           /\ nkinds * Cardinality(namespaces) \in Nat
      BY <2>7, <2>8
    <2> QED BY <2>2, <2>5, <2>6, <2>7, <2>8, <2>9, <2>10
  <1> QED BY <1>1, Invariance, PTL
=============================================================================
