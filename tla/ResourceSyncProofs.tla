------------------------- MODULE ResourceSyncProofs -------------------------
(***************************************************************************)
(* The store of the browser only moves forward, for any cluster, any       *)
(* number of concurrent loads and any order of events and answers.         *)
(***************************************************************************)
EXTENDS ResourceSync, FiniteSetTheorems, TLAPS

\* The parts of TypeOK.
ClusterType ==
  /\ live \in [Key -> RV]
  /\ log \in Seq([type : {"ADDED", "MODIFIED", "DELETED"}, key : Key]) /\ Len(log) <= MaxRV

StoreType ==
  /\ seen \in [Key -> RV] /\ gone \in [Key -> BOOLEAN] /\ podCount \in Int
  /\ maxKind \in [Kind -> RV] /\ maxRV \in RV

FetchingType ==
  /\ fetch \in [Fetch -> {"idle", "listing", "stuck"}]
  /\ listed \in [Fetch -> SUBSET Kind] /\ snap \in [Fetch -> [Key -> RV]]

EventType == [type : {"ADDED", "MODIFIED", "DELETED"}, key : Key, rv : RV]

WatcherType ==
  /\ link \in {"none", "up", "retry", "dead"}
  /\ start \in RV /\ tries \in 0..MaxTries /\ cursor \in [Kind -> RV \cup {Ended}]
  /\ events \in Seq(EventType)
  /\ draining \in BOOLEAN

CallsType ==
  /\ deleting \subseteq [key : Key, rv : RV]
  /\ removed \subseteq Key
  /\ created \subseteq [key : Key, rv : RV]

\* The loop of processEvents runs only while its queue holds an event.
DrainingHasEvents == draining => events # <<>>

\* The inductive invariant.
IInv ==
  /\ ClusterType /\ user \in BOOLEAN /\ StoreType /\ FetchingType /\ WatcherType
  /\ CallsType
  /\ SeenIsCounted /\ DrainingHasEvents

\* What a step that is neither a load nor the end of the session does to the store.
Forward ==
  \A k \in Key : /\ seen'[k] >= seen[k]
                 /\ gone[k] /\ ~gone'[k] => seen'[k] > seen[k]

LEMMA TypeParts == IInv => TypeOK
BY DEF IInv, TypeOK, ClusterType, StoreType, FetchingType, WatcherType, CallsType, EventType

\* putResource with a resource of any version, new or not.
LEMMA PutKeeps ==
  ASSUME StoreType, SeenIsCounted, NEW k \in Key, NEW v \in RV, NEW b \in BOOLEAN,
         PutResource(k, v, b)
  PROVE  StoreType' /\ SeenIsCounted' /\ Forward
<1>0. MaxRV \in Nat /\ KindOf \in [Key -> Kind]
  BY ResourceSyncAssumption
<1>1. CASE ~NotYetSeen(k, v) \/ Ignored(k, b)
  <2>1. seen' = seen /\ gone' = gone /\ podCount' = podCount /\ maxKind' = maxKind
        /\ maxRV' = maxRV
    BY <1>1 DEF PutResource, store
  <2>2. QED
    BY <1>0, <2>1 DEF StoreType, SeenIsCounted, Forward, RV
<1>2. CASE NotYetSeen(k, v) /\ ~Ignored(k, b)
  <2>1. /\ seen' = [seen EXCEPT ![k] = v]
        /\ gone' = [gone EXCEPT ![k] = FALSE]
        /\ maxKind' = [maxKind EXCEPT ![KindOf[k]] = Larger(@, v)]
        /\ maxRV' = Larger(maxRV, v)
        /\ podCount' = IF b /\ IsPod(k) THEN podCount + 1 ELSE podCount
    BY <1>2 DEF PutResource
  <2>2. v > maxKind[KindOf[k]] /\ maxKind[KindOf[k]] \in RV
    BY <1>0, <1>2 DEF NotYetSeen, StoreType
  <2>3. Larger(maxKind[KindOf[k]], v) = v
    BY <1>0, <2>2 DEF Larger, RV
  <2>4. StoreType'
    <3>1. podCount' \in Int
      BY <2>1 DEF StoreType
    <3>2. QED
      BY <1>0, <2>1, <2>3, <3>1 DEF StoreType, Larger
  <2>5. SeenIsCounted'
    BY <1>0, <2>1, <2>2, <2>3 DEF SeenIsCounted, StoreType, RV
  <2>6. v > seen[k]
    BY <1>0, <2>2 DEF SeenIsCounted, StoreType, RV
  <2>7. Forward
    BY <1>0, <2>1, <2>6 DEF Forward, StoreType, RV
  <2>8. QED
    BY <2>4, <2>5, <2>7
<1>3. QED
  BY <1>1, <1>2

\* RECEIVE_RESOURCES, of an answer or of an error.
LEMMA ReceiveKeeps ==
  ASSUME StoreType, SeenIsCounted, NEW fresh \in [Key -> RV], ReceiveResources(fresh)
  PROVE  StoreType' /\ SeenIsCounted'
<1> DEFINE new == {k \in Key : fresh[k] # 0}
<1>0. MaxRV \in Nat /\ KindOf \in [Key -> Kind] /\ IsFiniteSet(Key)
  BY ResourceSyncAssumption
<1>1. /\ seen' = [k \in Key |-> IF k \in new THEN fresh[k] ELSE seen[k]]
      /\ gone' = [k \in Key |-> gone[k] /\ k \notin new]
      /\ podCount' = Cardinality({k \in new : IsPod(k)})
      /\ maxKind' \in [Kind -> RV] /\ maxRV' \in RV
      /\ \A K \in Kind : \A v \in {fresh[k] : k \in {j \in new : KindOf[j] = K}}
                                    \cup {maxKind[K]} : v <= maxKind'[K]
  BY DEF ReceiveResources, IsMax
<1>2. podCount' \in Int
  <2>1. {k \in new : IsPod(k)} \subseteq Key
    OBVIOUS
  <2>2. IsFiniteSet({k \in new : IsPod(k)})
    BY <1>0, <2>1, FS_Subset
  <2>3. QED
    BY <1>1, <2>2, FS_CardinalityType
<1>3. StoreType'
  <2>1. seen' \in [Key -> RV]
    BY <1>1 DEF StoreType
  <2>2. gone' \in [Key -> BOOLEAN]
    BY <1>1
  <2>3. QED
    BY <1>1, <1>2, <2>1, <2>2 DEF StoreType
<1>4. ASSUME NEW k \in Key PROVE seen'[k] <= maxKind'[KindOf[k]]
  <2>1. KindOf[k] \in Kind
    BY <1>0
  <2>2. CASE k \in new
    <3>1. fresh[k] \in {fresh[i] : i \in {j \in new : KindOf[j] = KindOf[k]}}
      BY <2>2
    <3>2. QED
      BY <1>1, <2>1, <2>2, <3>1
  <2>3. CASE k \notin new
    <3>1. seen'[k] = seen[k] /\ maxKind[KindOf[k]] <= maxKind'[KindOf[k]]
      BY <1>1, <2>1, <2>3
    <3>2. QED
      BY <1>0, <1>1, <2>1, <3>1 DEF SeenIsCounted, StoreType, RV
  <2>4. QED
    BY <2>2, <2>3
<1>5. QED
  BY <1>3, <1>4 DEF SeenIsCounted

\* A change of the cluster.
LEMMA ChangeKeeps ==
  ASSUME ClusterType, NEW type \in {"ADDED", "MODIFIED", "DELETED"}, NEW k \in Key,
         Change(type, k)
  PROVE  ClusterType' /\ Len(log) + 1 \in RV
<1>0. MaxRV \in Nat
  BY ResourceSyncAssumption
<1>1. Len(log) + 1 \in RV /\ 0 \in RV
  BY <1>0 DEF Change, ClusterType, RV
<1>2. live' \in [Key -> RV]
  BY <1>1 DEF Change, ClusterType
<1>3. [type |-> type, key |-> k] \in [type : {"ADDED", "MODIFIED", "DELETED"}, key : Key]
  OBVIOUS
<1>4. log' \in Seq([type : {"ADDED", "MODIFIED", "DELETED"}, key : Key]) /\ Len(log') = Len(log) + 1
  BY <1>3 DEF Change, ClusterType
<1>5. QED
  BY <1>0, <1>1, <1>2, <1>4 DEF ClusterType, RV

\* A step that leaves the store alone moves nothing back.
LEMMA SameStore ==
  ASSUME StoreType, SeenIsCounted, UNCHANGED store
  PROVE  StoreType' /\ SeenIsCounted' /\ Forward
<1>1. MaxRV \in Nat
  BY ResourceSyncAssumption
<1>2. QED
  BY <1>1 DEF store, StoreType, SeenIsCounted, Forward, RV

\* The end of a fetch.
LEMMA EndFetchKeeps ==
  ASSUME FetchingType, NEW f \in Fetch, EndFetch(f)
  PROVE  FetchingType' /\ fetch'[f] = "idle"
<1>1. 0 \in RV
  BY ResourceSyncAssumption DEF RV
<1>2. [k \in Key |-> 0] \in [Key -> RV]
  BY <1>1
<1>3. fetch' \in [Fetch -> {"idle", "listing", "stuck"}] /\ fetch'[f] = "idle"
  BY DEF FetchingType, EndFetch
<1>4. listed' \in [Fetch -> SUBSET Kind]
  BY DEF FetchingType, EndFetch
<1>5. snap' \in [Fetch -> [Key -> RV]]
  BY <1>2 DEF FetchingType, EndFetch
<1>6. QED
  BY <1>3, <1>4, <1>5 DEF FetchingType

\* The calls the user makes and the answers to them.
LEMMA CallsKeep ==
  ASSUME IInv, Calls
  PROVE  IInv' /\ Forward
<1> USE DEF IInv
<1>1. ASSUME NEW k \in Key, UserRemoves(k) PROVE IInv' /\ Forward
  <2>1. UNCHANGED <<cluster, user, store, fetching, watcher, removed, created>>
        /\ RemoveResource(k, seen[k])
    BY <1>1 DEF UserRemoves
  <2>2. StoreType' /\ SeenIsCounted' /\ Forward
    BY <2>1, SameStore
  <2>3. [key |-> k, rv |-> seen[k]] \in [key : Key, rv : RV]
    BY DEF StoreType
  <2>4. CallsType'
    BY <2>1, <2>3 DEF RemoveResource, CallsType
  <2>5. QED
    BY <2>1, <2>2, <2>4 DEF cluster, fetching, watcher, ClusterType, FetchingType, WatcherType, DrainingHasEvents
<1>2. ASSUME NEW k \in Key, UserCreates(k) PROVE IInv' /\ Forward
  <2>1. UNCHANGED <<user, store, fetching, watcher, deleting, removed>>
        /\ Change("ADDED", k) /\ created' = created \cup {[key |-> k, rv |-> Len(log) + 1]}
    BY <1>2 DEF UserCreates
  <2>2. StoreType' /\ SeenIsCounted' /\ Forward
    BY <2>1, SameStore
  <2>3. ClusterType' /\ Len(log) + 1 \in RV
    BY <2>1, ChangeKeeps
  <2>4. CallsType'
    BY <2>1, <2>3 DEF CallsType
  <2>5. QED
    BY <2>1, <2>2, <2>3, <2>4 DEF fetching, watcher, FetchingType, WatcherType, DrainingHasEvents
<1>3. ASSUME NEW k \in Key, ReceiveRemoved(k) PROVE IInv' /\ Forward
  <2>1. UNCHANGED <<cluster, user, seen, maxKind, maxRV, fetching, watcher, deleting, created>>
        /\ removed' = removed \ {k}
    BY <1>3 DEF ReceiveRemoved
  <2>2. /\ gone' = gone \/ gone' = [gone EXCEPT ![k] = TRUE]
        /\ podCount' = podCount \/ podCount' = podCount - 1
    BY <1>3 DEF ReceiveRemoved
  <2>3. StoreType'
    <3>1. podCount' \in Int
      BY <2>2 DEF StoreType
    <3>2. gone' \in [Key -> BOOLEAN]
      BY <2>2 DEF StoreType
    <3>3. QED
      BY <2>1, <3>1, <3>2 DEF StoreType
  <2>4. \A j \in Key : gone[j] => gone'[j]
    BY <2>2 DEF StoreType
  <2>5. Forward
    <3>1. \A j \in Key : seen[j] \in Nat
      BY ResourceSyncAssumption DEF StoreType, RV
    <3>2. QED
      BY <2>1, <2>4, <3>1 DEF Forward
  <2>6. SeenIsCounted'
    BY <2>1 DEF SeenIsCounted
  <2>7. CallsType'
    BY <2>1 DEF CallsType
  <2>8. QED
    BY <2>1, <2>3, <2>5, <2>6, <2>7 DEF cluster, fetching, watcher, ClusterType, FetchingType, WatcherType, DrainingHasEvents
<1>4. ASSUME NEW d \in deleting, ServeDelete(d) \/ LoseDelete(d) PROVE IInv' /\ Forward
  <2>1. d \in [key : Key, rv : RV] /\ d.key \in Key
    BY DEF CallsType
  <2>2. UNCHANGED <<user, store, fetching, watcher, created>>
        /\ deleting' = deleting \ {d} /\ (removed' = removed \/ removed' = removed \cup {d.key})
    BY <1>4 DEF ServeDelete, LoseDelete
  <2>3. StoreType' /\ SeenIsCounted' /\ Forward
    BY <2>2, SameStore
  <2>4. Change("DELETED", d.key) \/ UNCHANGED cluster
    BY <1>4 DEF ServeDelete, LoseDelete
  <2>5. ClusterType'
    BY <2>1, <2>4, ChangeKeeps DEF cluster, ClusterType
  <2>6. CallsType'
    BY <2>1, <2>2 DEF CallsType
  <2>7. QED
    BY <2>2, <2>3, <2>5, <2>6 DEF fetching, watcher, FetchingType, WatcherType, DrainingHasEvents
<1>5. ASSUME NEW c \in created, ReceiveCreated(c) PROVE IInv' /\ Forward
  <2>1. c.key \in Key /\ c.rv \in RV
    BY DEF CallsType
  <2>2. UNCHANGED <<cluster, user, fetching, watcher, deleting, removed>>
        /\ created' = created \ {c} /\ PutResource(c.key, c.rv, TRUE)
    BY <1>5 DEF ReceiveCreated
  <2>3. StoreType' /\ SeenIsCounted' /\ Forward
    BY <2>1, <2>2, PutKeeps
  <2>4. CallsType'
    BY <2>2 DEF CallsType
  <2>5. QED
    BY <2>2, <2>3, <2>4 DEF cluster, fetching, watcher, ClusterType, FetchingType, WatcherType, DrainingHasEvents
<1>6. QED
  BY <1>1, <1>2, <1>3, <1>4, <1>5 DEF Calls

\* A load: what it receives may be older than what is stored.
LEMMA FetchesKeep ==
  ASSUME IInv, Fetches
  PROVE  IInv' /\ (fetch' = fetch => Forward)
<1> USE DEF IInv
<1>0. 0 \in RV /\ MaxRV \in Nat
  BY ResourceSyncAssumption DEF RV
<1>1. ASSUME NEW f \in Fetch, StartFetch(f) PROVE IInv' /\ Forward
  <2>1. UNCHANGED <<cluster, user, store, listed, snap, watcher, calls>>
        /\ fetch' = [fetch EXCEPT ![f] = "listing"]
    BY <1>1 DEF StartFetch
  <2>2. StoreType' /\ SeenIsCounted' /\ Forward
    BY <2>1, SameStore
  <2>3. FetchingType'
    BY <2>1 DEF FetchingType
  <2>4. QED
    BY <2>1, <2>2, <2>3 DEF cluster, watcher, calls, ClusterType, WatcherType, CallsType, DrainingHasEvents
<1>a. ASSUME NEW f \in Fetch, LoseFetch(f) PROVE IInv' /\ Forward
  <2>1. UNCHANGED <<cluster, user, store, listed, snap, watcher, calls>>
        /\ fetch' = [fetch EXCEPT ![f] = "stuck"]
    BY <1>a DEF LoseFetch
  <2>2. StoreType' /\ SeenIsCounted' /\ Forward
    BY <2>1, SameStore
  <2>3. FetchingType'
    BY <2>1 DEF FetchingType
  <2>4. QED
    BY <2>1, <2>2, <2>3 DEF cluster, watcher, calls, ClusterType, WatcherType, CallsType, DrainingHasEvents
<1>2. ASSUME NEW f \in Fetch, NEW S \in SUBSET Kind, ListKinds(f, S) PROVE IInv' /\ Forward
  <2>1. UNCHANGED <<cluster, user, store, fetch, watcher, calls>>
        /\ listed' = [listed EXCEPT ![f] = @ \cup S]
        /\ snap' = [snap EXCEPT ![f] = [k \in Key |-> IF KindOf[k] \in S THEN live[k] ELSE @[k]]]
    BY <1>2 DEF ListKinds
  <2>2. StoreType' /\ SeenIsCounted' /\ Forward
    BY <2>1, SameStore
  <2>3. snap[f] \in [Key -> RV] /\ live \in [Key -> RV]
    BY DEF FetchingType, ClusterType
  <2>4. [k \in Key |-> IF KindOf[k] \in S THEN live[k] ELSE snap[f][k]] \in [Key -> RV]
    BY <2>3
  <2>5. snap' \in [Fetch -> [Key -> RV]]
    BY <2>1, <2>4 DEF FetchingType
  <2>6. FetchingType'
    BY <2>1, <2>5 DEF FetchingType
  <2>7. QED
    BY <2>1, <2>2, <2>6 DEF cluster, watcher, calls, ClusterType, WatcherType, CallsType, DrainingHasEvents
<1>3. ASSUME NEW f \in Fetch, Fetched(f) \/ FetchFailed(f) PROVE IInv' /\ fetch' # fetch
  <2>1. PICK fresh \in [Key -> RV] : ReceiveResources(fresh)
    <3>1. snap[f] \in [Key -> RV] /\ [k \in Key |-> 0] \in [Key -> RV]
      BY <1>0 DEF FetchingType
    <3>2. ReceiveResources(snap[f]) \/ ReceiveResources([k \in Key |-> 0])
      BY <1>3 DEF Fetched, FetchFailed
    <3>3. QED
      BY <3>1, <3>2
  <2>2. StoreType' /\ SeenIsCounted'
    BY <2>1, ReceiveKeeps
  <2>3. UNCHANGED <<cluster, user, calls>> /\ WatchResources /\ EndFetch(f) /\ ~draining
        /\ fetch[f] = "listing"
    BY <1>3 DEF Fetched, FetchFailed
  <2>4. FetchingType' /\ fetch'[f] = "idle"
    BY <2>3, EndFetchKeeps
  <2>5. WatcherType' /\ DrainingHasEvents'
    <3>1. maxRV' \in RV
      BY <2>2 DEF StoreType
    <3>2. link' = "up" /\ start' = maxRV' /\ tries' = 0 /\ cursor' = [K \in Kind |-> maxRV']
          /\ events' = <<>> /\ draining' = draining
      BY <2>3 DEF WatchResources
    <3>3. 0 \in 0..MaxTries /\ <<>> \in Seq(EventType)
      BY ResourceSyncAssumption
    <3>4. QED
      BY <2>3, <3>1, <3>2, <3>3 DEF WatcherType, DrainingHasEvents
  <2>6. QED
    BY <2>2, <2>3, <2>4, <2>5 DEF cluster, calls, ClusterType, CallsType
<1>4. QED
  BY <1>1, <1>a, <1>2, <1>3 DEF Fetches

\* The watch: what it sends and the loop that applies it.
LEMMA WatchesKeep ==
  ASSUME IInv, Watches
  PROVE  IInv' /\ Forward
<1> USE DEF IInv
<1>0. MaxRV \in Nat /\ MaxTries \in Nat /\ Len(log) \in Nat
  BY ResourceSyncAssumption DEF ClusterType
<1>1. ASSUME NEW K \in Kind, OnEvent(K) PROVE IInv' /\ Forward
  <2>1. UNCHANGED <<cluster, user, store, fetching, link, start, tries, draining, calls>>
        /\ ~draining
    BY <1>1 DEF OnEvent
  <2>2. PICK v \in cursor[K] + 1 .. Len(log) :
          /\ cursor' = [cursor EXCEPT ![K] = v]
          /\ events' = Append(events, [type |-> log[v].type, key |-> log[v].key, rv |-> v])
    BY <1>1 DEF OnEvent
  <2>3. v \in 1..Len(log) /\ v \in RV
    BY <1>0, <2>2 DEF ClusterType, WatcherType, RV, Ended
  <2>4. log[v].type \in {"ADDED", "MODIFIED", "DELETED"} /\ log[v].key \in Key
    <3> DEFINE T == [type : {"ADDED", "MODIFIED", "DELETED"}, key : Key]
    <3>0. log \in Seq(T)
      BY DEF ClusterType
    <3> HIDE DEF T
    <3>a. log[v] \in T
      BY <2>3, <3>0
    <3>1. log[v] \in [type : {"ADDED", "MODIFIED", "DELETED"}, key : Key]
      BY <3>a DEF T
    <3>2. QED
      BY <3>1
  <2>5. [type |-> log[v].type, key |-> log[v].key, rv |-> v] \in EventType
    BY <2>3, <2>4 DEF EventType
  <2>6. events' \in Seq(EventType)
    BY <2>2, <2>5 DEF WatcherType
  <2>7. WatcherType' /\ DrainingHasEvents'
    BY <2>1, <2>2, <2>3, <2>6 DEF WatcherType, DrainingHasEvents
  <2>8. StoreType' /\ SeenIsCounted' /\ Forward
    BY <2>1, SameStore
  <2>9. QED
    BY <2>1, <2>7, <2>8 DEF cluster, fetching, calls, ClusterType, FetchingType, CallsType
<1>2. ASSUME ProcessEvents PROVE IInv' /\ Forward
  <2>1. UNCHANGED <<cluster, user, store, fetching, link, start, tries, cursor, events, calls>>
        /\ draining' = TRUE /\ events # <<>>
    BY <1>2 DEF ProcessEvents
  <2>2. StoreType' /\ SeenIsCounted' /\ Forward
    BY <2>1, SameStore
  <2>3. WatcherType' /\ DrainingHasEvents'
    BY <2>1 DEF WatcherType, DrainingHasEvents
  <2>4. QED
    BY <2>1, <2>2, <2>3 DEF cluster, fetching, calls, ClusterType, FetchingType, CallsType
<1>3. ASSUME ProcessEvent PROVE IInv' /\ Forward
  <2> DEFINE e == Head(events)
  <2>1. /\ draining
        /\ events' = Tail(events)
        /\ draining' = (Tail(events) # <<>>)
        /\ IF e.type = "DELETED"
           THEN RemoveResource(e.key, e.rv) /\ UNCHANGED store
           ELSE PutResource(e.key, e.rv, e.type = "ADDED") /\ UNCHANGED deleting
        /\ UNCHANGED <<cluster, user, fetching, link, start, tries, cursor, removed, created>>
    BY <1>3 DEF ProcessEvent
  <2>2. events # <<>> /\ events \in Seq(EventType)
    BY <2>1 DEF DrainingHasEvents, WatcherType
  <2>3. e \in EventType /\ Tail(events) \in Seq(EventType)
    BY <2>2
  <2>4. e.key \in Key /\ e.rv \in RV
    BY <2>3 DEF EventType
  <2>5. WatcherType' /\ DrainingHasEvents'
    BY <2>1, <2>3 DEF WatcherType, DrainingHasEvents
  <2>6. CASE e.type = "DELETED"
    <3>1. RemoveResource(e.key, e.rv) /\ UNCHANGED store
      BY <2>1, <2>6
    <3>2. StoreType' /\ SeenIsCounted' /\ Forward
      BY <3>1, SameStore
    <3>3. CallsType'
      BY <2>1, <2>4, <3>1 DEF RemoveResource, CallsType
    <3>4. QED
      BY <2>1, <2>5, <3>2, <3>3 DEF cluster, fetching, ClusterType, FetchingType
  <2>7. CASE e.type # "DELETED"
    <3>1. PutResource(e.key, e.rv, e.type = "ADDED") /\ UNCHANGED deleting
      BY <2>1, <2>7
    <3>2. (e.type = "ADDED") \in BOOLEAN
      OBVIOUS
    <3>3. StoreType' /\ SeenIsCounted' /\ Forward
      BY <2>4, <3>1, <3>2, PutKeeps
    <3>4. CallsType'
      BY <2>1, <3>1 DEF CallsType
    <3>5. QED
      BY <2>1, <2>5, <3>3, <3>4 DEF cluster, fetching, ClusterType, FetchingType
  <2>8. QED
    BY <2>6, <2>7
<1>a. AllEnded \in [Kind -> RV \cup {Ended}]
  BY DEF AllEnded
<1>4. ASSUME SocketError \/ SocketCloses PROVE IInv' /\ Forward
  <2>1. UNCHANGED <<cluster, user, store, fetching, start, events, draining, calls>> /\ cursor' = AllEnded
    BY <1>4 DEF SocketError, SocketCloses
  <2>2. link' \in {"retry", "dead"} /\ tries' \in 0..MaxTries
    BY <1>0, <1>4 DEF SocketError, SocketCloses, WatcherType
  <2>3. StoreType' /\ SeenIsCounted' /\ Forward
    BY <2>1, SameStore
  <2>4. WatcherType' /\ DrainingHasEvents'
    BY <1>a, <2>1, <2>2 DEF WatcherType, DrainingHasEvents
  <2>5. QED
    BY <2>1, <2>3, <2>4 DEF cluster, fetching, calls, ClusterType, FetchingType, CallsType
<1>5. ASSUME Reload PROVE IInv' /\ Forward
  <2>1. UNCHANGED <<cluster, user, store, fetching, start, tries, events, draining, calls>>
        /\ link' = "up" /\ cursor' = [K \in Kind |-> start]
    BY <1>5 DEF Reload
  <2>2. StoreType' /\ SeenIsCounted' /\ Forward
    BY <2>1, SameStore
  <2>3. WatcherType' /\ DrainingHasEvents'
    BY <2>1 DEF WatcherType, DrainingHasEvents
  <2>4. QED
    BY <2>1, <2>2, <2>3 DEF cluster, fetching, calls, ClusterType, FetchingType, CallsType
<1>6. ASSUME NEW K \in Kind, StreamEnds(K) PROVE IInv' /\ Forward
  <2>1. UNCHANGED <<cluster, user, store, fetching, link, start, tries, events, draining, calls>>
        /\ cursor' = [cursor EXCEPT ![K] = Ended]
    BY <1>6 DEF StreamEnds
  <2>2. StoreType' /\ SeenIsCounted' /\ Forward
    BY <2>1, SameStore
  <2>3. WatcherType' /\ DrainingHasEvents'
    BY <2>1 DEF WatcherType, DrainingHasEvents
  <2>4. QED
    BY <2>1, <2>2, <2>3 DEF cluster, fetching, calls, ClusterType, FetchingType, CallsType
<1>7. QED
  BY <1>1, <1>2, <1>3, <1>4, <1>5, <1>6 DEF Watches

\* Every step keeps the invariant, and moves the store forward unless it is a load
\* or the end of the session.
LEMMA StepKeeps ==
  ASSUME IInv, [Next]_vars
  PROVE  IInv' /\ (fetch' = fetch /\ ~Invalidate => Forward)
<1> USE DEF IInv
<1>0. 0 \in RV /\ 0 \in 0..MaxTries /\ MaxRV \in Nat /\ KindOf \in [Key -> Kind]
  BY ResourceSyncAssumption DEF RV
<1>1. ASSUME ClusterChanges PROVE IInv' /\ Forward
  <2>1. UNCHANGED <<user, store, fetching, watcher, calls>>
    BY <1>1 DEF ClusterChanges
  <2>2. ClusterType'
    BY <1>1, ChangeKeeps DEF ClusterChanges
  <2>3. StoreType' /\ SeenIsCounted' /\ Forward
    BY <2>1, SameStore
  <2>4. QED
    BY <2>1, <2>2, <2>3 DEF fetching, watcher, calls, FetchingType, WatcherType, CallsType, DrainingHasEvents
<1>2. ASSUME Invalidate PROVE IInv'
  <2>1. UNCHANGED <<cluster, maxKind, fetching, draining, calls>> /\ ~draining
        /\ user' = FALSE
    BY <1>2 DEF Invalidate
  <2>2. /\ seen' = [k \in Key |-> 0]
        /\ gone' = [k \in Key |-> FALSE]
        /\ podCount' = 0
        /\ maxRV' = 0
    BY <1>2 DEF Invalidate
  <2>3. /\ link' = "none" /\ start' = 0 /\ tries' = 0
        /\ cursor' = AllEnded
        /\ events' = <<>>
    BY <1>2 DEF Invalidate
  <2>4. StoreType'
    BY <1>0, <2>1, <2>2 DEF StoreType
  <2>5. SeenIsCounted'
    BY <1>0, <2>1, <2>2 DEF SeenIsCounted, StoreType, RV
  <2>6. WatcherType' /\ DrainingHasEvents'
    BY <1>0, <2>1, <2>3 DEF WatcherType, DrainingHasEvents, AllEnded
  <2>7. QED
    BY <2>1, <2>4, <2>5, <2>6 DEF cluster, fetching, calls, ClusterType, FetchingType, CallsType
<1>3. ASSUME Login PROVE IInv' /\ Forward
  <2>1. UNCHANGED <<cluster, store, fetching, watcher, calls>> /\ user' = TRUE
    BY <1>3 DEF Login
  <2>2. StoreType' /\ SeenIsCounted' /\ Forward
    BY <2>1, SameStore
  <2>3. QED
    BY <2>1, <2>2 DEF cluster, fetching, watcher, calls, ClusterType, FetchingType, WatcherType, CallsType, DrainingHasEvents
<1>4. ASSUME UNCHANGED vars PROVE IInv' /\ Forward
  <2>1. UNCHANGED <<cluster, user, store, fetching, watcher, calls>>
    BY <1>4 DEF vars
  <2>2. StoreType' /\ SeenIsCounted' /\ Forward
    BY <2>1, SameStore
  <2>3. QED
    BY <2>1, <2>2 DEF cluster, fetching, watcher, calls, ClusterType, FetchingType, WatcherType, CallsType, DrainingHasEvents
<1>5. QED
  BY <1>1, <1>2, <1>3, <1>4, CallsKeep, FetchesKeep, WatchesKeep DEF Next

\* The initial state of the reducers satisfies the invariant.
LEMMA InitHolds == Init => IInv
<1> SUFFICES ASSUME Init PROVE IInv
  OBVIOUS
<1>0. 0 \in RV /\ 0 \in 0..MaxTries /\ MaxRV \in Nat /\ KindOf \in [Key -> Kind]
  BY ResourceSyncAssumption DEF RV
<1>1. ClusterType
  BY <1>0 DEF Init, ClusterType
<1>2. StoreType /\ SeenIsCounted
  BY <1>0 DEF Init, StoreType, SeenIsCounted
<1>3. FetchingType
  BY <1>0 DEF Init, FetchingType
<1>4. WatcherType /\ DrainingHasEvents /\ user \in BOOLEAN
  <2>1. link = "none" /\ start = 0 /\ tries = 0 /\ cursor = AllEnded
        /\ events = <<>> /\ draining = FALSE /\ user = TRUE
    BY DEF Init
  <2>2. events \in Seq(EventType)
    BY <2>1
  <2>3. cursor \in [Kind -> RV \cup {Ended}]
    BY <2>1 DEF AllEnded
  <2>4. QED
    BY <1>0, <2>1, <2>2, <2>3 DEF WatcherType, DrainingHasEvents
<1>5. CallsType
  BY DEF Init, CallsType
<1>6. QED
  BY <1>1, <1>2, <1>3, <1>4, <1>5 DEF IInv

\* The invariant holds in every state: the types of the store, the queue and the
\* calls, and that the loop of processEvents never takes from an empty queue.
THEOREM Invariance == Spec => []IInv
<1>1. IInv /\ [Next]_vars => IInv'
  BY StepKeeps
<1>2. QED
  BY <1>1, InitHolds, PTL DEF Spec

\* Every variable keeps its type, whatever the cluster and the user do.
THEOREM TypeCorrect == Spec => []TypeOK
BY Invariance, TypeParts, PTL

\* maxResourceVersionByKind bounds every stored version of its kind, through loads,
\* events, answers and new sessions.
THEOREM Counted == Spec => []SeenIsCounted
<1>1. IInv => SeenIsCounted
  BY DEF IInv
<1>2. QED
  BY <1>1, Invariance, PTL

\* Replayed and late events never move the store back.
THEOREM MovesForward == Spec => EventsMoveForward
<1>1. IInv /\ [Next]_vars => [fetch' = fetch /\ ~Invalidate => Forward]_vars
  BY StepKeeps
<1>2. QED
  BY <1>1, Invariance, PTL DEF Spec, EventsMoveForward, Forward
=============================================================================
