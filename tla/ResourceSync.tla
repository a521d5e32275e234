---------------------------- MODULE ResourceSync ----------------------------
(***************************************************************************)
(* How the browser keeps its store of resources equal to the cluster:      *)
(* fetchResources loads every kind and opens a watch from the greatest     *)
(* resourceVersion it saw; MultiResourceWatcher queues what the watch      *)
(* sends and applies the queue once a second with putResource and          *)
(* removeResource, which are also what the user's own actions call.        *)
(* JavaScript runs one handler at a time; the model's steps of the browser *)
(* are the stretches between two awaits.                                   *)
(***************************************************************************)
EXTENDS Integers, Sequences, FiniteSets

CONSTANTS Key,         \* the keys kind/namespace/name of the resources
          Kind, KindOf,
          PodKind,     \* the kind 'Pod'
          Fetch,       \* the request names that lead to fetchResources
          Skew,        \* the server may list the kinds at different moments
          Lossy,       \* calls of the browser may fail without an answer
          Acts,        \* what happens: of "create", "remove", "session" and "end", of a stream
          MaxRV,       \* bounds the changes of the cluster
          MaxTries     \* reconnections of a watcher, 3 in the code

ASSUME ResourceSyncAssumption ==
  /\ KindOf \in [Key -> Kind] /\ IsFiniteSet(Key)
  /\ Skew \in BOOLEAN /\ Lossy \in BOOLEAN
  /\ Acts \subseteq {"create", "remove", "session", "end"}
  /\ MaxRV \in Nat /\ MaxTries \in Nat

VARIABLES
  live,      \* cluster: the resourceVersion of each object, 0 if it does not exist
  log,       \* cluster: its changes; the n-th one has resourceVersion n
  user,      \* state.session.user is set
  seen,      \* state.resources: the resourceVersion stored under each key, 0 for none
  gone,      \* the stored resource has isDeleted
  podCount,  \* state.resources.podCount
  maxKind,   \* maxResourceVersionByKind, 0 for undefined
  maxRV,     \* maxResourceVersion
  fetch,     \* where each fetchResources is
  listed,    \* the kinds the server has listed for it
  snap,      \* what it listed
  link,      \* the socket of the current watcher
  start,     \* the resourceVersion in its url
  tries,     \* socket.tries
  cursor,    \* the last change of each kind it was sent, Ended for a stream that has ended
  events,    \* the watcher's queue
  draining,  \* processEvents is in its loop
  deleting,  \* DELETE calls on their way to the server
  removed,   \* keys whose DELETE call was answered
  created    \* answers to POST calls on their way back

cluster  == <<live, log>>
store    == <<seen, gone, podCount, maxKind, maxRV>>
fetching == <<fetch, listed, snap>>
watcher  == <<link, start, tries, cursor, events, draining>>
calls    == <<deleting, removed, created>>
vars     == <<cluster, user, store, fetching, watcher, calls>>

RV == 0..MaxRV
Ended == MaxRV + 1
AllEnded == [K \in Kind |-> Ended]
-----------------------------------------------------------------------------
Init ==
  /\ live = [k \in Key |-> 0]
  /\ log = <<>>
  /\ user = TRUE
  /\ seen = [k \in Key |-> 0]
  /\ gone = [k \in Key |-> FALSE]
  /\ podCount = 0
  /\ maxKind = [K \in Kind |-> 0]
  /\ maxRV = 0
  /\ fetch = [f \in Fetch |-> "idle"]
  /\ listed = [f \in Fetch |-> {}]
  /\ snap = [f \in Fetch |-> [k \in Key |-> 0]]
  /\ link = "none"
  /\ start = 0
  /\ tries = 0
  /\ cursor = AllEnded
  /\ events = <<>>
  /\ draining = FALSE
  /\ deleting = {}
  /\ removed = {}
  /\ created = {}

\* The cluster changes an object: an external step.
Change(type, k) ==
  /\ Len(log) < MaxRV
  /\ (type = "ADDED") <=> (live[k] = 0)
  /\ log' = Append(log, [type |-> type, key |-> k])
  /\ live' = [live EXCEPT ![k] = IF type = "DELETED" THEN 0 ELSE Len(log) + 1]

ClusterChanges ==
  /\ \E type \in {"ADDED", "MODIFIED", "DELETED"}, k \in Key : Change(type, k)
  /\ UNCHANGED <<user, store, fetching, watcher, calls>>
-----------------------------------------------------------------------------
IsPod(k) == KindOf[k] = PodKind
Larger(a, b) == IF a < b THEN b ELSE a

\* Any version of a kind that was loaded is taken for new.
NotYetSeenAny(k, v) == maxKind[KindOf[k]] # 0

\* The guard of putResource: v > undefined is false, so a kind of which nothing was
\* ever loaded lets nothing in.
NotYetSeen(k, v) == maxKind[KindOf[k]] # 0 /\ v > maxKind[KindOf[k]]

\* The early returns of doUpdateResource: a deleted resource comes back only as a
\* new one, and of the unknown ones only pods are taken from a modification.
Ignored(k, isNew) ==
  ~isNew /\ IF seen[k] # 0 THEN gone[k] ELSE ~IsPod(k)

\* doUpdateResource without updateVersionByKind.
PutResourceUncounted(k, v, isNew) ==
  IF ~NotYetSeen(k, v) \/ Ignored(k, isNew)
  THEN UNCHANGED store
  ELSE /\ seen' = [seen EXCEPT ![k] = v]
       /\ gone' = [gone EXCEPT ![k] = FALSE]
       /\ podCount' = IF isNew /\ IsPod(k) THEN podCount + 1 ELSE podCount
       /\ UNCHANGED <<maxKind, maxRV>>

\* putResource with doUpdateResource.
PutResource(k, v, isNew) ==
  IF ~NotYetSeen(k, v) \/ Ignored(k, isNew)
  THEN UNCHANGED store
  ELSE /\ seen' = [seen EXCEPT ![k] = v]
       /\ gone' = [gone EXCEPT ![k] = FALSE]
       /\ maxKind' = [maxKind EXCEPT ![KindOf[k]] = Larger(@, v)]
       /\ maxRV' = Larger(maxRV, v)
       /\ podCount' = IF isNew /\ IsPod(k) THEN podCount + 1 ELSE podCount

\* removeResource up to its await: a DELETE call for a resource that is known.
RemoveResource(k, v) ==
  deleting' = IF seen[k] # 0 THEN deleting \cup {[key |-> k, rv |-> v]} ELSE deleting

\* REMOVE_RESOURCE once the call is answered: whatever the status, since the answer
\* of a failed fetch has a status and no code.  For a pod of a node the store knows
\* no pods of, the reducer throws after it has marked the resource.
ReceiveRemoved(k) ==
  /\ ~draining
  /\ k \in removed
  /\ removed' = removed \ {k}
  /\ IF seen[k] = 0
     THEN UNCHANGED <<gone, podCount>>
     ELSE /\ gone' = [gone EXCEPT ![k] = TRUE]
          /\ podCount' = podCount - 1 \/ (IsPod(k) /\ UNCHANGED podCount)
  /\ UNCHANGED <<cluster, user, seen, maxKind, maxRV, fetching, watcher, deleting, created>>

\* The user removes a resource that is shown.
UserRemoves(k) ==
  /\ "remove" \in Acts
  /\ ~draining
  /\ user
  /\ seen[k] # 0 /\ ~gone[k]
  /\ RemoveResource(k, seen[k])
  /\ UNCHANGED <<cluster, user, store, fetching, watcher, removed, created>>

\* The server handles a DELETE call: the object is deleted, or it is not there, or
\* the user may not delete it.
ServeDelete(d) ==
  /\ d \in deleting
  /\ deleting' = deleting \ {d}
  /\ removed' = removed \cup {d.key}
  /\ Change("DELETED", d.key) \/ UNCHANGED cluster
  /\ UNCHANGED <<user, store, fetching, watcher, created>>

\* The call fails without an answer: the promise of removeResources is rejected.
LoseDelete(d) ==
  /\ Lossy
  /\ d \in deleting
  /\ deleting' = deleting \ {d}
  /\ UNCHANGED <<cluster, user, store, fetching, watcher, removed, created>>

\* The user creates a resource: the server has made it and its answer is coming.
UserCreates(k) ==
  /\ "create" \in Acts
  /\ ~draining
  /\ user
  /\ Change("ADDED", k)
  /\ created' = created \cup {[key |-> k, rv |-> Len(log) + 1]}
  /\ UNCHANGED <<user, store, fetching, watcher, deleting, removed>>

\* createResourceFromContents puts what the server answered.
ReceiveCreated(c) ==
  /\ ~draining
  /\ c \in created
  /\ created' = created \ {c}
  /\ PutResource(c.key, c.rv, TRUE)
  /\ UNCHANGED <<cluster, user, fetching, watcher, deleting, removed>>
-----------------------------------------------------------------------------
\* shouldFetchResources: a user, and nothing stored (no caller asks for more).
StartFetch(f) ==
  /\ ~draining
  /\ fetch[f] = "idle"
  /\ user
  /\ \A k \in Key : seen[k] = 0
  /\ fetch' = [fetch EXCEPT ![f] = "listing"]
  /\ UNCHANGED <<cluster, user, store, listed, snap, watcher, calls>>

\* The server lists some kinds for the request.
ListKinds(f, S) ==
  /\ fetch[f] = "listing"
  /\ S # {} /\ S \cap listed[f] = {}
  /\ Skew \/ S = Kind
  /\ listed' = [listed EXCEPT ![f] = @ \cup S]
  /\ snap' = [snap EXCEPT ![f] =
                [k \in Key |-> IF KindOf[k] \in S THEN live[k] ELSE @[k]]]
  /\ UNCHANGED <<cluster, user, store, fetch, watcher, calls>>

IsMax(m, S) == m \in S /\ \A v \in S : v <= m

\* RECEIVE_RESOURCES of what was fetched, merged into what is stored.
ReceiveResources(fresh) ==
  LET new == {k \in Key : fresh[k] # 0} IN
  /\ seen' = [k \in Key |-> IF k \in new THEN fresh[k] ELSE seen[k]]
  /\ gone' = [k \in Key |-> gone[k] /\ k \notin new]
  /\ podCount' = Cardinality({k \in new : IsPod(k)})
  /\ maxKind' \in [Kind -> RV]
  /\ \A K \in Kind :
       IsMax(maxKind'[K], {fresh[k] : k \in {j \in new : KindOf[j] = K}} \cup {maxKind[K]})
  /\ maxRV' \in RV
  /\ IsMax(maxRV', {fresh[k] : k \in new} \cup {maxRV})

\* watchResources: the old watcher is destroyed and its queue with it; the new one
\* asks for the changes after maxResourceVersion.
WatchResources ==
  /\ link' = "up" /\ start' = maxRV' /\ tries' = 0
  /\ cursor' = [K \in Kind |-> maxRV']
  /\ events' = <<>>
  /\ UNCHANGED draining

\* fetchResources has returned.
EndFetch(f) ==
  /\ fetch' = [fetch EXCEPT ![f] = "idle"]
  /\ listed' = [listed EXCEPT ![f] = {}]
  /\ snap' = [snap EXCEPT ![f] = [k \in Key |-> 0]]

\* The answer arrives: it is received, and the watch opened.
Fetched(f) ==
  /\ ~draining
  /\ fetch[f] = "listing" /\ listed[f] = Kind
  /\ ReceiveResources(snap[f])
  /\ WatchResources
  /\ EndFetch(f)
  /\ UNCHANGED <<cluster, user, calls>>

\* An error answer is received as if it were empty, and the watch opened.
FetchFailed(f) ==
  /\ ~draining
  /\ fetch[f] = "listing"
  /\ ReceiveResources([k \in Key |-> 0])
  /\ WatchResources
  /\ EndFetch(f)
  /\ UNCHANGED <<cluster, user, calls>>

\* The call fails without an answer: doRequest keeps the name (see Requests), so no
\* other fetch is made under it.
LoseFetch(f) ==
  /\ Lossy
  /\ ~draining
  /\ fetch[f] = "listing"
  /\ fetch' = [fetch EXCEPT ![f] = "stuck"]
  /\ UNCHANGED <<cluster, user, store, listed, snap, watcher, calls>>

\* INVALIDATE: the store is the initial one again, except for the map of versions
\* by kind, which its reducer has been changing in place; the watcher is destroyed.
Invalidate ==
  /\ "session" \in Acts
  /\ ~draining
  /\ user' = FALSE
  /\ seen' = [k \in Key |-> 0]
  /\ gone' = [k \in Key |-> FALSE]
  /\ podCount' = 0
  /\ maxRV' = 0
  /\ link' = "none" /\ start' = 0 /\ tries' = 0
  /\ cursor' = AllEnded
  /\ events' = <<>>
  /\ UNCHANGED <<cluster, maxKind, fetching, draining, calls>>

Login ==
  /\ ~draining
  /\ ~user
  /\ user' = TRUE
  /\ UNCHANGED <<cluster, store, fetching, watcher, calls>>
-----------------------------------------------------------------------------
\* The watch sends the next change of a kind, and onEvent queues it.
OnEvent(K) ==
  /\ ~draining
  /\ link = "up"
  /\ \E v \in cursor[K] + 1 .. Len(log) :
       /\ KindOf[log[v].key] = K
       /\ \A w \in cursor[K] + 1 .. v - 1 : KindOf[log[w].key] # K
       /\ cursor' = [cursor EXCEPT ![K] = v]
       /\ events' = Append(events, [type |-> log[v].type, key |-> log[v].key, rv |-> v])
  /\ UNCHANGED <<cluster, user, store, fetching, link, start, tries, draining, calls>>

\* The API server ends the stream of one kind (a timeout of the watch, a version that is
\* gone): readMessages reports to a channel that is read only at the end of the session,
\* and the socket of the browser stays open.
StreamEnds(K) ==
  /\ "end" \in Acts
  /\ ~draining
  /\ link = "up"
  /\ cursor' = [cursor EXCEPT ![K] = Ended]
  /\ UNCHANGED <<cluster, user, store, fetching, link, start, tries, events, draining, calls>>

\* The interval fires with events in the queue.
ProcessEvents ==
  /\ ~draining
  /\ link # "none"
  /\ events # <<>>
  /\ draining' = TRUE
  /\ UNCHANGED <<cluster, user, store, fetching, link, start, tries, cursor, events, calls>>

\* One turn of its loop, which nothing interrupts.
ProcessEvent ==
  LET e == Head(events) IN
  /\ draining
  /\ events' = Tail(events)
  /\ draining' = (Tail(events) # <<>>)
  /\ IF e.type = "DELETED"
     THEN RemoveResource(e.key, e.rv) /\ UNCHANGED store
     ELSE PutResource(e.key, e.rv, e.type = "ADDED") /\ UNCHANGED deleting
  /\ UNCHANGED <<cluster, user, fetching, link, start, tries, cursor, removed, created>>

\* A new socket after every error.
SocketErrorForever ==
  /\ ~draining
  /\ link = "up"
  /\ link' = "retry" /\ tries' = tries + 1
  /\ cursor' = AllEnded
  /\ UNCHANGED <<cluster, user, store, fetching, start, events, draining, calls>>

\* socket.onerror: a new socket in three seconds, or an error message at last.
SocketError ==
  /\ ~draining
  /\ link = "up"
  /\ IF tries < MaxTries THEN link' = "retry" /\ tries' = tries + 1
                         ELSE link' = "dead" /\ UNCHANGED tries
  /\ cursor' = AllEnded
  /\ UNCHANGED <<cluster, user, store, fetching, start, events, draining, calls>>

\* The socket is closed without an error: initSocket sets no handler for that.
SocketCloses ==
  /\ "end" \in Acts
  /\ ~draining
  /\ link = "up"
  /\ link' = "dead" /\ cursor' = AllEnded
  /\ UNCHANGED <<cluster, user, store, fetching, start, tries, events, draining, calls>>

\* A new socket that asks for the changes from now on.
ReloadFromNow ==
  /\ ~draining
  /\ link = "retry"
  /\ link' = "up"
  /\ cursor' = [K \in Kind |-> Len(log)]
  /\ UNCHANGED <<cluster, user, store, fetching, start, tries, events, draining, calls>>

\* reload(url): the url, and so the version it starts from, is the old one.
Reload ==
  /\ ~draining
  /\ link = "retry"
  /\ link' = "up"
  /\ cursor' = [K \in Kind |-> start]
  /\ UNCHANGED <<cluster, user, store, fetching, start, tries, events, draining, calls>>
-----------------------------------------------------------------------------
Calls ==
  \/ \E k \in Key : UserRemoves(k) \/ UserCreates(k) \/ ReceiveRemoved(k)
  \/ \E d \in deleting : ServeDelete(d) \/ LoseDelete(d)
  \/ \E c \in created : ReceiveCreated(c)

Fetches ==
  \E f \in Fetch : \/ StartFetch(f) \/ Fetched(f) \/ FetchFailed(f) \/ LoseFetch(f)
                   \/ \E S \in SUBSET Kind : ListKinds(f, S)

Watches ==
  \/ \E K \in Kind : OnEvent(K) \/ StreamEnds(K)
  \/ ProcessEvents \/ ProcessEvent \/ SocketError \/ SocketCloses \/ Reload

Next == ClusterChanges \/ Calls \/ Fetches \/ Invalidate \/ Login \/ Watches

Spec == Init /\ [][Next]_vars

\* As long as its stream has not ended a kind's changes are sent, the API server answers
\* every call, the interval fires and the browser runs what is due.
FairSpec ==
  /\ Spec
  /\ \A K \in Kind : WF_vars(OnEvent(K))
  /\ WF_vars(ProcessEvents) /\ WF_vars(ProcessEvent) /\ WF_vars(Reload)
  /\ WF_vars(\E d \in deleting : ServeDelete(d))
  /\ \A k \in Key : WF_vars(ReceiveRemoved(k))
-----------------------------------------------------------------------------
\* Every variable has its type.
TypeOK ==
  /\ live \in [Key -> RV]
  /\ log \in Seq([type : {"ADDED", "MODIFIED", "DELETED"}, key : Key]) /\ Len(log) <= MaxRV
  /\ user \in BOOLEAN
  /\ seen \in [Key -> RV] /\ gone \in [Key -> BOOLEAN] /\ podCount \in Int
  /\ maxKind \in [Kind -> RV] /\ maxRV \in RV
  /\ fetch \in [Fetch -> {"idle", "listing", "stuck"}]
  /\ listed \in [Fetch -> SUBSET Kind] /\ snap \in [Fetch -> [Key -> RV]]
  /\ link \in {"none", "up", "retry", "dead"}
  /\ start \in RV /\ tries \in 0..MaxTries /\ cursor \in [Kind -> RV \cup {Ended}]
  /\ events \in Seq([type : {"ADDED", "MODIFIED", "DELETED"}, key : Key, rv : RV])
  /\ draining \in BOOLEAN
  /\ deleting \subseteq [key : Key, rv : RV]
  /\ removed \subseteq Key
  /\ created \subseteq [key : Key, rv : RV]

\* What is stored is counted in the greatest version of its kind, which a new login
\* keeps: the guard of putResource compares with it.
SeenIsCounted == \A k \in Key : seen[k] <= maxKind[KindOf[k]]

\* No event of the watch and no answer to a call moves the store back: sent again by
\* a reconnected watch, or late, it never replaces a version by an older one and
\* never brings a removed resource back as it was.  Only a load, whose lists may be
\* older, and the end of the session are excepted.
EventsMoveForward ==
  [][fetch' = fetch /\ ~Invalidate =>
       \A k \in Key : /\ seen'[k] >= seen[k]
                      /\ gone[k] /\ ~gone'[k] => seen'[k] > seen[k]]_vars

\* The watch stands, and the stream of the resource's kind has not ended.
Watching(k) == link = "up" /\ cursor[KindOf[k]] # Ended

\* A stored resource that the cluster deletes after the version the watch starts
\* from is marked as deleted, reconnections included, as long as the watch stands and
\* the stream of its kind has not ended: of a kind whose stream has ended nothing more is
\* shown until the browser connects again.
\* (A deletion before that version and after the list of its kind is in neither.)
DeletionShown ==
  \A k \in Key :
    (/\ seen[k] # 0 /\ ~gone[k] /\ live[k] = 0 /\ Watching(k)
     /\ \E v \in start + 1 .. Len(log) : log[v] = [type |-> "DELETED", key |-> k])
      ~> (gone[k] \/ seen[k] = 0 \/ live[k] # 0 \/ ~Watching(k))
=============================================================================
