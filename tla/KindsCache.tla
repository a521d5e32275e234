----------------------------- MODULE KindsCache -----------------------------
(***************************************************************************)
(* KindsProxy: the cached kinds of the cluster behind a sync.RWMutex.  One *)
(* goroutine (doUpdates) replaces the two cached values every ten minutes; *)
(* request handlers read them under the read lock: GetKind and             *)
(* KindsProxy.Serve for an instant, ResourcesProxy.Serve and getWatchPaths *)
(* for a whole loop, in which they send on a channel and may block for     *)
(* ever.  A pending writer keeps new readers out, as Go's RWMutex does.    *)
(***************************************************************************)
EXTENDS Naturals, FiniteSets

CONSTANTS Name,    \* APIResource.Kind
          Group,   \* the API group and version that serves a kind
          Reader,  \* the goroutines that read the cache
          Nil      \* no such kind

ASSUME KindsCacheAssumption == Nil \notin Group

\* The map of kinds: at most one group for each name.
KindMap == [Name -> Group \cup {Nil}]

\* What discovery answers: every resource with its group and whether its verbs
\* contain "list".
Resource == [name : Name, group : Group, list : BOOLEAN]

VARIABLES
  kinds,     \* KindsProxy.kinds
  response,  \* KindsProxy.kindsResponse: the map it is the encoding of
  fetched,   \* update's local map
  updater,   \* where update is
  reader     \* where each reader is

vars == <<kinds, response, fetched, updater, reader>>

Blocked == {r \in Reader : reader[r] = "blocked"}
Holders == {r \in Reader : reader[r] = "reading"} \cup Blocked
Writing == updater \in {"locked", "half"}
Pending == updater = "locking"
-----------------------------------------------------------------------------
\* The groups of a name are collected instead of the last one kept.
MapsOfAll(D) ==
  {[n \in Name |-> {r.group : r \in {x \in D : x.name = n /\ x.list}}]}

\* update's map of what discovery listed: only what can be listed, and of two
\* resources of one name the last one, in the order of the API server's groups.
MapsOf(D) ==
  {m \in KindMap : \A n \in Name :
     LET groups == {r.group : r \in {x \in D : x.name = n /\ x.list}}
     IN  IF groups = {} THEN m[n] = Nil ELSE m[n] \in groups}

\* NewKindsProxy has called update once before anybody can read.
Init ==
  /\ \E D \in SUBSET Resource : kinds \in MapsOf(D)
  /\ response = kinds
  /\ fetched = kinds
  /\ updater = "sleeping"
  /\ reader = [r \in Reader |-> "idle"]

\* The timer fires and discovery answers D; without an answer update returns its
\* error and both values stay.
Discover(D) ==
  /\ updater = "sleeping"
  /\ fetched' \in MapsOf(D)
  /\ updater' = "discovered"
  /\ UNCHANGED <<kinds, response, reader>>

\* mutex.Lock() keeps new readers out from here on...
LockPending ==
  /\ updater = "discovered"
  /\ updater' = "locking"
  /\ UNCHANGED <<kinds, response, fetched, reader>>

\* No waiting for the readers that are inside.
LockUnguarded ==
  /\ Pending
  /\ updater' = "locked"
  /\ UNCHANGED <<kinds, response, fetched, reader>>

\* ... and returns when the last of those inside has left.
Lock ==
  /\ Pending
  /\ Holders = {}
  /\ updater' = "locked"
  /\ UNCHANGED <<kinds, response, fetched, reader>>

PublishResponse ==
  /\ updater = "locked"
  /\ response' = fetched
  /\ updater' = "half"
  /\ UNCHANGED <<kinds, fetched, reader>>

\* An unlock that wakes nobody.
PublishKindsQuietly ==
  /\ updater = "half"
  /\ kinds' = fetched
  /\ updater' = "sleeping"
  /\ UNCHANGED <<response, fetched, reader>>

\* The last assignment and the deferred Unlock(), which admits every reader that
\* came meanwhile before another writer can lock.
PublishKinds ==
  /\ updater = "half"
  /\ kinds' = fetched
  /\ updater' = "sleeping"
  /\ reader' = [r \in Reader |-> IF reader[r] = "waiting" THEN "reading" ELSE reader[r]]
  /\ UNCHANGED <<response, fetched>>

Update == LockPending \/ Lock \/ PublishResponse \/ PublishKinds
-----------------------------------------------------------------------------
\* A lock that lets readers pass a waiting writer.
RLockReaderFirst(r) ==
  /\ reader[r] = "idle"
  /\ reader' = [reader EXCEPT ![r] = IF Writing THEN "waiting" ELSE "reading"]
  /\ UNCHANGED <<kinds, response, fetched, updater>>

\* mutex.RLock() in a handler: it returns at once unless a writer writes or waits.
RLock(r) ==
  /\ reader[r] = "idle"
  /\ reader' = [reader EXCEPT ![r] = IF Writing \/ Pending THEN "waiting" ELSE "reading"]
  /\ UNCHANGED <<kinds, response, fetched, updater>>

\* The reader is done with the values: GetKind has its kind, Serve has written
\* the response, a loop has gone over every kind.  mutex.RUnlock().
RUnlock(r) ==
  /\ reader[r] = "reading"
  /\ reader' = [reader EXCEPT ![r] = "idle"]
  /\ UNCHANGED <<kinds, response, fetched, updater>>

\* The loop of getWatchPaths or of ResourcesProxy.Serve sends on a full channel nobody
\* receives from any more: after a failed upgrade AggregateWatches has returned, and
\* a channel made for the old number of kinds is too small. The lock is never released.
BlockForEver(r) ==
  /\ reader[r] = "reading"
  /\ reader' = [reader EXCEPT ![r] = "blocked"]
  /\ UNCHANGED <<kinds, response, fetched, updater>>
-----------------------------------------------------------------------------
Next ==
  \/ \E D \in SUBSET Resource : Discover(D)
  \/ Update
  \/ \E r \in Reader : RLock(r) \/ RUnlock(r) \/ BlockForEver(r)

Spec == Init /\ [][Next]_vars

\* The updater runs when it can, and every reader that is not blocked for ever
\* leaves: it does a bounded amount of work under the lock.
FairSpec == Spec /\ WF_vars(Update) /\ \A r \in Reader : WF_vars(RUnlock(r))
-----------------------------------------------------------------------------
\* Every variable has its type.
TypeOK ==
  /\ kinds \in KindMap /\ response \in KindMap /\ fetched \in KindMap
  /\ updater \in {"sleeping", "discovered", "locking", "locked", "half"}
  /\ reader \in [Reader -> {"idle", "waiting", "reading", "blocked"}]

\* Nobody reads while the updater writes.
MutualExclusion == Writing => Holders = {}

\* A reader never finds the encoded response of one update beside the kinds of
\* another: what KindsProxy.Serve tells the UI is what GetKind knows.
PublishedTogether == Holders # {} => response = kinds

\* A loop over the kinds under the read lock goes over one map from its first to
\* its last iteration.
LoopSeesOneMap == [][Holders # {} => UNCHANGED <<kinds, response>>]_vars

\* A discovered map is published, however many handlers keep reading, unless one of
\* them is blocked for ever inside.
UpdatePublished == updater = "discovered" ~> updater = "sleeping" \/ Blocked # {}

\* Handlers that wait for the updater get the read lock, all of them at one moment:
\* none is left waiting because others came or an update followed, unless one of those
\* inside is blocked for ever.
ReadersServed ==
  (\E r \in Reader : reader[r] = "waiting") ~> (\A r \in Reader : reader[r] # "waiting") \/ Blocked # {}

\* Neither side of the lock starves the other, as long as no handler blocks for ever
\* while it holds the read lock.
NeitherStarves == UpdatePublished /\ ReadersServed
-----------------------------------------------------------------------------
\* The inductive invariant: the two values differ only between the assignments.
IInv ==
  /\ TypeOK
  /\ MutualExclusion
  /\ updater # "half" => response = kinds
  /\ updater = "half" => response = fetched
=============================================================================
