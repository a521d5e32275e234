---------------------------- MODULE ResourceList ----------------------------
(***************************************************************************)
(* GET /proxy/_/resources/list: ResourcesProxy.Serve starts a goroutine    *)
(* per kind (fetchKind), each of which lists its kind at the cluster scope *)
(* and, when the user may not, starts one goroutine per namespace.  The    *)
(* lists go through a buffered channel that is drained only AFTER the wait *)
(* group has reached zero, so the buffer must hold every list of the       *)
(* request.  The buffer is sized from KindsProxy.kinds, which              *)
(* KindsProxy.update replaces every ten minutes.                           *)
(***************************************************************************)
EXTENDS Naturals, FiniteSets

CONSTANTS Kind,        \* every kind the API server may ever publish
          Namespaced,  \* the kinds whose APIResource.Namespaced is true
          Namespace,   \* every namespace the cluster may ever have
          Cluster      \* the namespace "": the cluster scope

ASSUME ResourceListAssumption ==
  /\ IsFiniteSet(Kind)
  /\ IsFiniteSet(Namespace)
  /\ Namespaced \subseteq Kind
  /\ Cluster \notin Namespace

Scope  == Namespace \cup {Cluster}

\* A goroutine running fetchKind(kind, namespace, ...).
Task   == Kind \X Scope

\* What List answers: a list with items, an empty list, status 403, any other error.
Answer == {"items", "empty", "forbidden", "error"}

VARIABLES
  kinds,       \* KindsProxy.kinds, as last published by update
  pc,          \* where Serve is
  namespaces,  \* Serve's local list of namespaces
  nkinds,      \* len(kinds) as read, with no lock, to size the channel
  capacity,    \* cap(lists)
  lists,       \* the lists in the channel, named by the task that sent them
  wg,          \* the counter of the wait group
  stage,       \* where each fetchKind goroutine is
  answer,      \* its local ul, err
  result       \* Serve's result.Lists

vars == <<kinds, pc, namespaces, nkinds, capacity, lists, wg, stage, answer, result>>

Started(t) == stage[t] # "idle"
Live       == {t \in Task : stage[t] \in {"listing", "answered", "sent"}}

\* The read lock of the kind lister is held exactly during Serve's loop.
RLocked    == pc = "spawning"

Unspawned(k) == {n \in namespaces : stage[<<k, n>>] = "idle"}
-----------------------------------------------------------------------------
Init ==
  /\ kinds \in SUBSET Kind
  /\ pc = "idle"
  /\ namespaces = {}
  /\ nkinds = 0
  /\ capacity = 0
  /\ lists = {}
  /\ wg = 0
  /\ stage = [t \in Task |-> "idle"]
  /\ answer = [t \in Task |-> "none"]
  /\ result = {}

\* KindsProxy.update: discovery answered with the kinds S; they are published
\* under the write lock.  A failed discovery changes nothing.
Update(S) ==
  /\ ~RLocked
  /\ kinds' = S
  /\ UNCHANGED <<pc, namespaces, nkinds, capacity, lists, wg, stage, answer, result>>

\* A request arrives and getNamespaces answers.  A cluster always has at least
\* its default namespace.
Request(N) ==
  /\ pc = "idle"
  /\ N # {}
  /\ pc' = "sizing"
  /\ namespaces' = N
  /\ UNCHANGED <<kinds, nkinds, capacity, lists, wg, stage, answer, result>>

\* Room for the kinds only, not for the namespaces of each.
MakeListsPerKind ==
  /\ pc = "sizing"
  /\ nkinds' = Cardinality(kinds)
  /\ capacity' = nkinds'
  /\ pc' = "locking"
  /\ UNCHANGED <<kinds, namespaces, lists, wg, stage, answer, result>>

\* make(chan ..., len(kinds)*len(namespaces)), with no lock held.
MakeLists ==
  /\ pc = "sizing"
  /\ nkinds' = Cardinality(kinds)
  /\ capacity' = nkinds' * Cardinality(namespaces)
  /\ pc' = "locking"
  /\ UNCHANGED <<kinds, namespaces, lists, wg, stage, answer, result>>

RLock ==
  /\ pc = "locking"
  /\ pc' = "spawning"
  /\ UNCHANGED <<kinds, namespaces, nkinds, capacity, lists, wg, stage, answer, result>>

\* wg.Add(1); go fetchKind(kind, "", ...)
SpawnKind(k) ==
  /\ pc = "spawning"
  /\ k \in kinds
  /\ stage[<<k, Cluster>>] = "idle"
  /\ wg' = wg + 1
  /\ stage' = [stage EXCEPT ![<<k, Cluster>>] = "listing"]
  /\ UNCHANGED <<kinds, pc, namespaces, nkinds, capacity, lists, answer, result>>

RUnlock ==
  /\ pc = "spawning"
  /\ \A k \in kinds : Started(<<k, Cluster>>)
  /\ pc' = "waiting"
  /\ UNCHANGED <<kinds, namespaces, nkinds, capacity, lists, wg, stage, answer, result>>

\* wg.Wait() returns.
Wait ==
  /\ pc = "waiting"
  /\ wg = 0
  /\ pc' = "assembling"
  /\ UNCHANGED <<kinds, namespaces, nkinds, capacity, lists, wg, stage, answer, result>>

\* One turn of AssembleResults that finds a list in the channel.
Assemble(t) ==
  /\ pc = "assembling"
  /\ t \in lists
  /\ lists' = lists \ {t}
  /\ result' = result \cup {t}
  /\ UNCHANGED <<kinds, pc, namespaces, nkinds, capacity, wg, stage, answer>>

\* The default case of AssembleResults: the response is encoded.
Respond ==
  /\ pc = "assembling"
  /\ lists = {}
  /\ pc' = "responded"
  /\ UNCHANGED <<kinds, namespaces, nkinds, capacity, lists, wg, stage, answer, result>>

\* Serve has returned; its locals are garbage and the next request starts afresh.
Return ==
  /\ pc = "responded"
  /\ pc' = "idle"
  /\ namespaces' = {}
  /\ nkinds' = 0
  /\ capacity' = 0
  /\ stage' = [t \in Task |-> "idle"]
  /\ answer' = [t \in Task |-> "none"]
  /\ result' = {}
  /\ UNCHANGED <<kinds, lists, wg>>
-----------------------------------------------------------------------------
\* A kind listed for the cluster is listed per namespace all the same.
DescendsAlways(t) ==
  /\ answer[t] \in {"forbidden", "items"}
  /\ t[1] \in Namespaced
  /\ t[2] = Cluster

\* A task whose cluster-wide list was refused goes on per
\* namespace when its kind is namespaced.
Descends(t) ==
  /\ answer[t] = "forbidden"
  /\ t[1] \in Namespaced
  /\ t[2] = Cluster

\* dynClient...List answers a.
List(t, a) ==
  /\ stage[t] = "listing"
  /\ stage' = [stage EXCEPT ![t] = "answered"]
  /\ answer' = [answer EXCEPT ![t] = a]
  /\ UNCHANGED <<kinds, pc, namespaces, nkinds, capacity, lists, wg, result>>

\* wg.Add(1) left to the started goroutine, which has not run yet.
SpawnNamespaceUncounted(t, n) ==
  /\ stage[t] = "answered"
  /\ Descends(t)
  /\ n \in Unspawned(t[1])
  /\ stage' = [stage EXCEPT ![<<t[1], n>>] = "listing"]
  /\ UNCHANGED <<kinds, pc, namespaces, nkinds, capacity, lists, wg, answer, result>>

\* wg.Add(1); go fetchKind(kind, namespace, ...)
SpawnNamespace(t, n) ==
  /\ stage[t] = "answered"
  /\ Descends(t)
  /\ n \in Unspawned(t[1])
  /\ wg' = wg + 1
  /\ stage' = [stage EXCEPT ![<<t[1], n>>] = "listing"]
  /\ UNCHANGED <<kinds, pc, namespaces, nkinds, capacity, lists, answer, result>>

\* lists <- ul: blocks while the buffer is full.  Nobody receives before
\* wg.Wait() has returned.
Send(t) ==
  /\ stage[t] = "answered"
  /\ answer[t] = "items"
  /\ Cardinality(lists) < capacity
  /\ lists' = lists \cup {t}
  /\ stage' = [stage EXCEPT ![t] = "sent"]
  /\ UNCHANGED <<kinds, pc, namespaces, nkinds, capacity, wg, answer, result>>

\* wg.Done() ahead of the work of the answer.
FinishedEarly(t) == stage[t] \in {"answered", "sent"}

\* A refused cluster list ends the task at once.
FinishedWithoutNamespaces(t) ==
  \/ stage[t] = "sent"
  \/ stage[t] = "answered" /\ answer[t] # "items"

\* Nothing is left to do before wg.Done().
Finished(t) ==
  \/ stage[t] = "sent"
  \/ /\ stage[t] = "answered"
     /\ answer[t] # "items"
     /\ Descends(t) => Unspawned(t[1]) = {}

\* wg.Done()
Done(t) ==
  /\ Finished(t)
  /\ wg' = wg - 1
  /\ stage' = [stage EXCEPT ![t] = "done"]
  /\ UNCHANGED <<kinds, pc, namespaces, nkinds, capacity, lists, answer, result>>
-----------------------------------------------------------------------------
Serve ==
  \/ MakeLists \/ RLock \/ (\E k \in Kind : SpawnKind(k)) \/ RUnlock
  \/ Wait \/ (\E t \in Task : Assemble(t)) \/ Respond

FetchKind(t) ==
  \/ \E a \in Answer : List(t, a)
  \/ \E n \in Namespace : SpawnNamespace(t, n)
  \/ Send(t)
  \/ Done(t)

Next ==
  \/ \E S \in SUBSET Kind : Update(S)
  \/ \E N \in SUBSET Namespace : Request(N)
  \/ Serve
  \/ Return
  \/ \E t \in Task : FetchKind(t)

Spec == Init /\ [][Next]_vars

\* The Go scheduler runs every goroutine that can run, and the API server
\* answers every list call.  Requests and updates are the environment's.
FairSpec == Spec /\ WF_vars(Serve) /\ \A t \in Task : WF_vars(FetchKind(t))
-----------------------------------------------------------------------------
\* Every variable has its type.
TypeOK ==
  /\ kinds \subseteq Kind
  /\ pc \in {"idle", "sizing", "locking", "spawning", "waiting", "assembling",
             "responded"}
  /\ namespaces \subseteq Namespace
  /\ nkinds \in Nat
  /\ capacity \in Nat
  /\ lists \subseteq Task
  /\ wg \in Nat
  /\ stage \in [Task -> {"idle", "listing", "answered", "sent", "done"}]
  /\ answer \in [Task -> Answer \cup {"none"}]
  /\ result \subseteq Task

\* Serve assembles the response only when no fetchKind goroutine is left: none
\* can still start another one or send a list nobody would receive.
AssembledAfterLastTask == pc \in {"assembling", "responded"} => Live = {}

\* The kinds this request is about: those Serve started a goroutine for.
Requested == {k \in Kind : Started(<<k, Cluster>>)}

\* A goroutine stuck in its send, which keeps wg.Wait() from ever returning.
Blocked(t) ==
  /\ stage[t] = "answered"
  /\ answer[t] = "items"
  /\ Cardinality(lists) >= capacity

\* If the loop iterates over no more kinds than the buffer was made for (no update
\* published more of them between the unlocked len() and the loop), no goroutine
\* of the request blocks in its send, although nobody receives before wg.Wait().
NeverBlocksWhenSized ==
  Cardinality(Requested) <= nkinds => \A t \in Task : ~Blocked(t)

\* A kind is reported for the cluster or per namespace, never for both: no item
\* comes twice in one response.
NoItemTwice ==
  \A k \in Kind : \A n \in Namespace :
    ~(<<k, Cluster>> \in result \cup lists /\ <<k, n>> \in result \cup lists)

\* "Serve fetches all resources visible to the authenticated user": when the
\* response is complete it has every list that was answered with items, and
\* every namespaced kind refused for the cluster was asked in every namespace.
ResponseComplete ==
  pc = "responded" =>
    /\ result = {t \in Task : answer[t] = "items"}
    /\ \A k \in Requested \cap Namespaced :
         answer[<<k, Cluster>>] = "forbidden"
           => \A n \in namespaces : answer[<<k, n>>] # "none"

\* Under fair scheduling a request whose buffer was sized for its kinds gets its
\* response.
AnsweredWhenSized ==
  (pc = "waiting" /\ Cardinality(Requested) <= nkinds) ~> pc = "responded"

\* Every request gets its response.
EveryRequestAnswered == pc = "sizing" ~> pc = "responded"
-----------------------------------------------------------------------------
\* The inductive invariant.

\* The wait group counts the goroutines that have not called Done.
WgCountsLive == wg = Cardinality(Live)

\* Before its loop Serve has started nothing; while a request runs it has at
\* least one namespace.
Fresh ==
  /\ pc \in {"idle", "sizing", "locking"} => \A t \in Task : stage[t] = "idle"
  /\ pc # "idle" => namespaces # {}

\* A goroutine has an answer exactly after its List call.
AnswerAfterList ==
  \A t \in Task : answer[t] = "none" <=> stage[t] \in {"idle", "listing"}

\* A namespace is listed only for a namespaced kind of the request that was
\* refused for the cluster, and only a namespace of the request.
ChildOfRefused ==
  \A k \in Kind : \A n \in Namespace :
    Started(<<k, n>>) => Descends(<<k, Cluster>>) /\ n \in namespaces

\* A goroutine that called Done has left nothing behind: its list is sent, its
\* namespaces are started.
DoneMeansFinished ==
  \A t \in Task : stage[t] = "done" => (Descends(t) => Unspawned(t[1]) = {})

\* The lists in the channel and in the response are those that were sent.
SentLists ==
  /\ lists \cup result
       = {t \in Task : answer[t] = "items" /\ stage[t] \in {"sent", "done"}}
  /\ \A t \in Task : stage[t] = "sent" => answer[t] = "items"
  /\ pc \notin {"assembling", "responded"} => result = {}
  /\ pc = "responded" => lists = {}

\* The buffer has room for one list per counted kind and namespace.
BufferSized ==
  pc \notin {"idle", "sizing"} => capacity = nkinds * Cardinality(namespaces)

IInv ==
  /\ TypeOK /\ WgCountsLive /\ Fresh /\ AnswerAfterList /\ ChildOfRefused
  /\ DoneMeansFinished /\ SentLists /\ AssembledAfterLastTask
  /\ BufferSized
=============================================================================
