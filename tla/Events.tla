------------------------------- MODULE Events -------------------------------
(***************************************************************************)
(* The events reducer of the UI and what feeds it. Events come with the    *)
(* first list of resources and then one at a time from the watch; an event *)
(* is kept with the resource it involves, with an owner of it that its name*)
(* suggests, or among the detached ones until its resource is known. The   *)
(* newest are the recent updates of the dashboard. A resource that was     *)
(* removed stays in the store, marked deleted, so its key stays known.     *)
(* The resources are the ones one name can belong to: a pod, the replica   *)
(* set or replication controller of its name, and the deployment above.    *)
(***************************************************************************)
EXTENDS Integers, Sequences, FiniteSets, Functions, SequencesExt

CONSTANTS Uid,             \* events; an event that repeats keeps its uid
          About,           \* the resource each one involves
          Order,           \* the order of the uids, as numbers
          Times,           \* lastTimestamp
          MaxRecentEvents, \* maxRecentEvents, 20 in the code
          MaxReceived,     \* bound: events received in a session
          NoEventKey            \* no resource is selected

EventKey == {"Pod", "ReplicaSet", "ReplicationController", "Deployment"}

ASSUME EventsAssumption == /\ About \in [Uid -> EventKey] /\ Order \in [Uid -> Nat] /\ IsInjective(Order)
                           /\ Times \subseteq Nat /\ MaxRecentEvents \in Nat /\ MaxReceived \in Nat
                           /\ NoEventKey \notin EventKey

Event == [uid : Uid, time : Times]

VARIABLES eventKeys,     \* the keys in the resources store
          ownedBy,   \* {<<owner, owned>>}
          attached,  \* events.events: by key, the event of each name
          newestEvents,    \* events.recentEvents
          detachedEvents,  \* events.detachedEvents
          selectedKey, selectedEvents,  \* the resource whose page is shown, and its events
          newest,    \* history: of each event, the newest offered to recentEvents
          received,  \* history: the uids received
          receipts   \* how many events were received

eventVars == <<eventKeys, ownedBy, attached, newestEvents, detachedEvents, selectedKey, selectedEvents, newest, received, receipts>>

NoneAttached == [k \in EventKey |-> [u \in {} |-> {}]]

EventsInit ==
  /\ eventKeys = {} /\ ownedBy = {} /\ attached = NoneAttached /\ newestEvents = {} /\ detachedEvents = <<>>
  /\ selectedKey = NoEventKey /\ selectedEvents = {} /\ newest = {} /\ received = {} /\ receipts = 0

(* The keys of the possible owners, nearest first.                         *)
OwnersForResource(keys, k) ==
  CASE k = "Pod" /\ "ReplicationController" \in keys -> <<"ReplicationController">>
    [] k = "Pod"        -> <<"ReplicaSet", "Deployment">>
    [] k = "ReplicaSet" -> <<"Deployment">>
    [] OTHER            -> <<>>

Under(m, k, e) == [m EXCEPT ![k] = [u \in DOMAIN m[k] \union {e.uid} |-> IF u = e.uid THEN e ELSE m[k][u]]]

Newer(a, b) == a.time > b.time \/ (a.time = b.time /\ Order[a.uid] > Order[b.uid])

(* recentEvents, in the order Newer gives: one event of each uid, and at   *)
(* most maxRecentEvents of them.                                           *)
Deduplicated(S) == {e \in S : \A f \in S : f.uid = e.uid => ~ Newer(f, e)}
Trimmed(S) == {e \in S : Cardinality({f \in S : Newer(f, e)}) < MaxRecentEvents}
TrimmedFirst(S, e) == Deduplicated(Trimmed(S \union {e}))
Recent(S, e) == Trimmed(Deduplicated(S \union {e}))

(* The events of a resource and of what it owns, directly or not.          *)
EventsForResource(m, owned, k) ==
  LET owners == {o \in EventKey : \/ o = k \/ <<k, o>> \in owned
                                  \/ \E p \in EventKey : <<k, p>> \in owned /\ <<p, o>> \in owned}
  IN UNION {Range(m[o]) : o \in owners}

(* Detached events whose resource is known now move to it; the last of the *)
(* list is taken first, so the first one of each name is what stays there, *)
(* and those that remain detached are in the opposite order.               *)
Movable(keys, d) == {i \in DOMAIN d : About[d[i].uid] \in keys}
Joining(m, d, at) ==
  [u \in DOMAIN m \union {d[i].uid : i \in at} |->
     IF \E i \in at : d[i].uid = u THEN d[Min({i \in at : d[i].uid = u})] ELSE m[u]]
Backwards(d, at) ==
  [n \in 1..Cardinality(at) |-> d[CHOOSE i \in at : Cardinality({j \in at : j >= i}) = n]]
ReconciledDropping(keys, m, d) == <<m, <<>> >>
Reconciled(keys, m, d) ==
  <<[k \in EventKey |-> Joining(m[k], d, {i \in Movable(keys, d) : About[d[i].uid] = k})],
    Backwards(d, DOMAIN d \ Movable(keys, d))>>

(* Where an event about k is kept: with k or its nearest owner that is     *)
(* known.                                                                  *)
KeptWith(keys, k) ==
  LET ks == <<k>> \o OwnersForResource(keys, k)
      here == {i \in DOMAIN ks : ks[i] \in keys}
  IN IF here = {} THEN NoEventKey ELSE ks[Min(here)]

(* doReceiveEvents, of at most one event (none when a resource is put).    *)
DoReceiveEvents(keys, owned, es) ==
  LET e == CHOOSE x \in es : TRUE
      at == IF es = {} THEN NoEventKey ELSE KeptWith(keys, About[e.uid])
      direct == {x \in es : About[x.uid] \in keys \/ at = NoEventKey}
      m == IF at = NoEventKey THEN attached ELSE Under(attached, at, e)
      d == IF es # {} /\ at = NoEventKey THEN Append(detachedEvents, e) ELSE detachedEvents
      r == Reconciled(keys, m, d)
  IN /\ attached' = r[1] /\ detachedEvents' = r[2]
     /\ newestEvents' = IF direct = {} THEN newestEvents ELSE Recent(newestEvents, e)
     /\ selectedEvents' = IF selectedKey = NoEventKey THEN {} ELSE EventsForResource(r[1], owned, selectedKey)
     /\ newest' = Deduplicated(newest \union direct) /\ received' = received \union {x.uid : x \in es} /\ receipts' = receipts + Cardinality(es)
     /\ eventKeys' = keys /\ ownedBy' = owned

(* The owner a resource's ownerReferences name.                            *)
OwnerRef(k) == CASE k = "Pod" -> {"ReplicaSet", "ReplicationController"} [] k = "ReplicaSet" -> {"Deployment"} [] OTHER -> {}
Registered(keys, new) == {p \in EventKey \X new : p[1] \in OwnerRef(p[2]) /\ p[1] \in keys}

(* The first load: the resources of every kind listed, and their events.   *)
LoadResources(keys, es) ==
  /\ eventKeys = {} /\ receipts + Cardinality(es) <= MaxReceived
  /\ DoReceiveEvents(keys, Registered(keys, keys), es)
  /\ UNCHANGED selectedKey

(* An event of the watch, for the first time or again; a watch of a session*)
(* that ended may still deliver it to an empty store.                      *)
ReceiveEvents(e) ==
  /\ receipts < MaxReceived
  /\ DoReceiveEvents(eventKeys, ownedBy, {e})
  /\ UNCHANGED selectedKey

PutWithoutReconcile(k) ==
  /\ eventKeys' = eventKeys \union {k} /\ ownedBy' = ownedBy \union Registered(eventKeys \union {k}, {k})
  /\ UNCHANGED <<attached, newestEvents, detachedEvents, selectedKey, selectedEvents, newest, received, receipts>>

(* A resource of the watch: registered with its owner when that is known,  *)
(* and the detached events are reconciled.                                 *)
PutEventResource(k) ==
  /\ DoReceiveEvents(eventKeys \union {k}, ownedBy \union Registered(eventKeys \union {k}, {k}), {})
  /\ UNCHANGED selectedKey

RemoveEventResource(k) ==
  /\ k \in eventKeys /\ ownedBy' = {p \in ownedBy : p[2] # k}
  /\ UNCHANGED <<eventKeys, attached, newestEvents, detachedEvents, selectedKey, selectedEvents, newest, received, receipts>>

SelectEventsFor(k) ==
  /\ k \in eventKeys /\ selectedKey' = k
  /\ selectedEvents' = EventsForResource(attached, ownedBy, k)
  /\ UNCHANGED <<eventKeys, ownedBy, attached, newestEvents, detachedEvents, newest, received, receipts>>

EventsInvalidate ==
  /\ eventKeys # {} /\ eventKeys' = {} /\ ownedBy' = {} /\ attached' = NoneAttached /\ newestEvents' = {} /\ detachedEvents' = <<>>
  /\ selectedKey' = NoEventKey /\ selectedEvents' = {} /\ newest' = {} /\ received' = {} /\ receipts' = 0

EventsNext ==
  \/ \E keys \in SUBSET EventKey \ {{}}, es \in {{}} \cup {{e} : e \in Event} : LoadResources(keys, es)
  \/ \E e \in Event : ReceiveEvents(e)
  \/ \E k \in EventKey : PutEventResource(k) \/ RemoveEventResource(k) \/ SelectEventsFor(k)
  \/ EventsInvalidate

EventsSpec == EventsInit /\ [][EventsNext]_eventVars
-----------------------------------------------------------------------------
EventsTypeOK ==
  /\ eventKeys \subseteq EventKey /\ ownedBy \subseteq EventKey \X EventKey
  /\ \A k \in EventKey : \A u \in DOMAIN attached[k] : attached[k][u] \in Event
  /\ newestEvents \subseteq Event /\ selectedEvents \subseteq Event /\ selectedKey \in EventKey \cup {NoEventKey}
  /\ Range(detachedEvents) \subseteq Event

(* Whatever order events arrive in, and however often they repeat, the     *)
(* recent updates are the newest of all that were offered, one per event:  *)
(* trimming the list as it goes never loses one that belongs in it         *)
(* (doReceiveEvents, RecentUpdates).                                       *)
RecentAreNewest == newestEvents = Trimmed(newest)

(* Every event received since the session began is with a resource or      *)
(* waits among the detached ones, though its resource may come later, or   *)
(* never (the reconciliation of doReceiveEvents).                          *)
NoEventLost ==
  \A u \in received : \/ \E k \in EventKey : u \in DOMAIN attached[k]
                      \/ \E d \in Range(detachedEvents) : d.uid = u

(* The page of a resource shows the events kept with it and with what it   *)
(* owns, however they came there after it was selected (doSelectEventsFor).*)
SelectedEventsShown ==
  selectedKey # NoEventKey => EventsForResource(attached, ownedBy, selectedKey) \subseteq selectedEvents
=============================================================================
