----------------------------- MODULE Relations -----------------------------
(***************************************************************************)
(* What the store derives from the resources: the status of each of them,  *)
(* the list of problems, which resource owns which, the pods of each node, *)
(* and the pods of the selected resource.  All of it is                    *)
(* updated piecemeal by PUT_RESOURCE, REMOVE_RESOURCE, RECEIVE_RESOURCES   *)
(* and SELECT_RESOURCE, partly by writing to objects of the old state.     *)
(* An owner (a workload) owns pods or jobs, one level deep.                *)
(***************************************************************************)
EXTENDS Integers, Sequences, FiniteSets, Folds, Functions, SequencesExt

CONSTANTS Owner, Child,   \* keys, of workloads and of what they own
          OwnerKind,      \* the kinds a workload may have
          Bodies,         \* kind -> the contents its resources may have
          Undefined       \* JavaScript's undefined

Key == Owner \union Child

ASSUME RelationsAssumption ==
  /\ Owner # {} /\ Owner \intersect Child = {}
  /\ Undefined \notin Owner \union Child /\ Undefined \notin {"error", "warning", "timed out"}

VARIABLES kind,      \* kind of each key
          body,      \* state.resources: contents, Undefined for a placeholder, which has no key
          known,     \* keys in state.resources
          deleted,   \* those with isDeleted
          summary,   \* statusSummary
          owned,     \* owner -> [child -> statusSummary of the object it holds]
          detached,  \* children whose ownerReferences are empty
          kindless,  \* those of them whose object in the store lost its kind
          heldSo,    \* and those whose object its owner holds lost it
          problems,  \* keys in problemResources, Undefined for that of a placeholder
          missed,    \* keys that stay in the store although the last list lacks them
          nodes,     \* keys of podsByNode
          selected,  \* key of state.resources.resource, Undefined for none
          object,    \* whether that object is the one in the store, and what it is if not
          fresh,     \* it was selected from the store, and no list was received since
          pods,      \* state.resources.pods
          inflight,  \* calls of fetchResources that wait for the list
          failed     \* a reducer threw

objectVars == <<body, known, deleted, summary, owned, detached, kindless, heldSo>>
derived    == <<problems, missed, nodes>>
selection  == <<selected, object, fresh, pods>>
relationVars == <<kind, objectVars, derived, selection, inflight, failed>>
-----------------------------------------------------------------------------
(* statusForResource, kind by kind.  Numbers may be Undefined: === of two  *)
(* different ones is false and < or > with it is false.                    *)
OrZero(n) == IF n = Undefined THEN 0 ELSE n
Less(m, n) == m # Undefined /\ n # Undefined /\ OrZero(m) < OrZero(n)

Replicas(ready, b, below) ==
  CASE ready = b.replicas -> "ok"
    [] OrZero(ready) = 0 /\ b.replicas = 0 -> "disabled"
    [] below -> "below"
    [] Less(b.replicas, ready) -> "scaling down"
    [] OTHER -> Undefined

ReplicaSetStatus(b) ==
  LET s == Replicas(b.ready, b, OrZero(b.ready) < b.replicas)
  IN IF s = "below" THEN "scaling up" ELSE s

(* The first condition Progressing decides, then the unavailable replicas. *)
DeploymentStatus(b) ==
  LET s == Replicas(b.ready, b, OrZero(b.ready) < b.replicas)
  IN CASE s # "below" -> s
       [] b.progressing = "False" -> "timed out"
       [] b.progressing = "True" -> "scaling up"
       [] OrZero(b.unavailable) = 0 -> "scaling up"
       [] b.unavailable = b.have -> "error"
       [] OTHER -> "warning"

ReplicationControllerStatus(b) ==
  LET s == Replicas(b.ready, b, Less(b.ready, b.replicas))
  IN IF s = "below" THEN "scaling up" ELSE s

DaemonSetStatus(b) ==
  CASE b.scheduled = b.desired -> "ok"
    [] b.scheduled > b.desired -> "scaling up"
    [] OTHER -> "scaling down"

PodStatus(b) ==
  CASE ~b.conditions -> "scaling up"
    [] b.ready /\ b.scheduled /\ b.initialized -> IF b.flapping THEN "warning" ELSE "ok"
    [] b.completed -> "complete"
    [] b.ready \/ b.scheduled -> "scaling up"
    [] OTHER -> Undefined

(* kids are the statuses of the objects in its owned attribute.            *)
StatefulSetStatus(b, kids) ==
  LET s == Replicas(b.have, b, Less(b.have, b.replicas))
      bad == {c \in DOMAIN kids : kids[c] \in {"error", "warning"}}
  IN CASE s # "below" -> s
       [] bad = {} -> "scaling up"
       [] Cardinality(bad) = b.have -> "error"
       [] OTHER -> "warning"

VolumeStatus(b) ==
  CASE b.phase = "Bound" -> "ok" [] b.phase = "Lost" -> "error" [] OTHER -> "scaling up"

NodeStatus(b) ==
  LET Step(s, c) ==
        CASE c.type = "Pressure" /\ c.status = "True" -> "warning"
          [] c.type = "Ready" /\ c.status = "True" /\ s = "scaling up" -> "ok"
          [] c.type = "Ready" /\ c.status \in {"False", "Unknown"} -> "error"
          [] OTHER -> s
  IN IF \E c \in Range(b.list) : c.type = "OutOfDisk" /\ c.status = "True" THEN "error"
     ELSE FoldLeft(Step, "scaling up", b.list)

JobStatus(b) ==
  CASE b.last = "Complete" -> "complete"
    [] b.last = "DeadlineExceeded" -> "timed out"
    [] b.last = "Failed" -> "error"
    [] OTHER -> "scaling up"

(* The latest job decides; the names of the jobs grow with their time.     *)
Succeeded == {"complete", "ok"}
CronJobStatus(kids) ==
  LET order == Reverse(SortSeq(SetToSeq(DOMAIN kids), <))
      s(i) == kids[order[i]]
      earlier == {i \in 2..Len(order) : i <= 3}
  IN CASE Len(order) = 0 -> "ok"
       [] s(1) \in Succeeded -> "ok"
       [] s(1) = "scaling up" -> IF Len(order) = 1 THEN "scaling up"
                                 ELSE IF s(2) \in Succeeded THEN "ok" ELSE "warning"
       [] \E i \in earlier : s(i) \in Succeeded -> "warning"
       [] \E i \in earlier : s(i) = "scaling up" -> "scaling up"
       [] OTHER -> "error"

StatusForResource(k, b, kids) ==
  CASE k = "ReplicaSet" -> ReplicaSetStatus(b)
    [] k = "Deployment" -> DeploymentStatus(b)
    [] k = "ReplicationController" -> ReplicationControllerStatus(b)
    [] k = "DaemonSet" -> DaemonSetStatus(b)
    [] k = "Pod" -> PodStatus(b)
    [] k = "StatefulSet" -> StatefulSetStatus(b, kids)
    [] k = "PersistentVolumeClaim" -> VolumeStatus(b)
    [] k = "Node" -> NodeStatus(b)
    [] k = "Job" -> JobStatus(b)
    [] k = "CronJob" -> CronJobStatus(kids)

Problem == {"error", "warning", "timed out"}
NothingOwned == [c \in {} |-> Undefined]    \* no attribute owned
ChildKind(k) == IF k = "CronJob" THEN "Job" ELSE "Pod"
TheOwner == CHOOSE o \in Owner : TRUE

(* The entries of f, written over those of g.                              *)
Over(f, g) == [x \in DOMAIN f \union DOMAIN g |-> IF x \in DOMAIN f THEN f[x] ELSE g[x]]

AddProblemResources(ps, k, s) == IF s \in Problem THEN ps \union {k} ELSE ps
UpdateProblemResources(ps, k, s) == IF s \in Problem THEN ps \union {k} ELSE ps \ {k}
-----------------------------------------------------------------------------
RelationsInit ==
  /\ \E k \in OwnerKind : kind = [q \in Key |-> IF q \in Owner THEN k ELSE ChildKind(k)]
  /\ body = [q \in Key |-> Undefined] /\ known = {} /\ deleted = {}
  /\ summary = [q \in Key |-> Undefined]
  /\ owned = [o \in Owner |-> NothingOwned] /\ detached = {} /\ kindless = {} /\ heldSo = {}
  /\ problems = {} /\ missed = {} /\ nodes = {}
  /\ selected = Undefined /\ object = "none" /\ fresh = FALSE /\ pods = {}
  /\ inflight = 0 /\ failed = FALSE

(* doSelectResource: the pods below the resource, in the new state, by the  *)
(* kind of the objects that the owner holds.                               *)
PodsOf(k) ==
  {c \in (IF k \in Child THEN {k} ELSE DOMAIN owned'[k] \ heldSo') : kind[c] = "Pod"}

Select(k) ==
  /\ selected' = k /\ object' = "stored" /\ fresh' = TRUE /\ pods' = PodsOf(k)

(* The page of a resource, or the answer to a change of its contents.      *)
SelectResource(k) ==
  /\ known # {} \/ inflight = 0
  /\ known' = known \union {k}
  /\ UNCHANGED <<body, deleted, summary, owned, detached, kindless, heldSo, derived, inflight, failed, kind>>
  /\ Select(k)

(* What the selected object is: a placeholder is the same resource as no   *)
(* other, and one without a kind cannot be found again by its kind.        *)
SelectedBlank == IF object = "stored" THEN body[selected] = Undefined ELSE object = "blank"
SelectedKindless == IF object = "stored" THEN selected \in kindless ELSE object = "kindless"

FetchResources ==
  /\ known = {} /\ inflight < 2
  /\ inflight' = inflight + 1
  /\ UNCHANGED <<kind, objectVars, derived, selection, failed>>

(* The status of a placeholder: those of most kinds read what it lacks.    *)
StatusThrows(k) == body[k] = Undefined /\ kind[k] # "CronJob"

(* The key that an object has when its status was computed.                *)
KeyOf(k) == IF body'[k] = Undefined THEN Undefined ELSE k

(* RECEIVE_RESOURCES of rs with the contents bs; the objects that were in  *)
(* the store stay when they are not in the list, the derived state does    *)
(* not.  The selected object is replaced in the store and stays selected.  *)
ReceiveResources(rs, bs) ==
  LET s(q) == StatusForResource(kind[q], bs[q], NothingOwned)
      kids == [c \in rs \cap Child |-> s(c)]
      o == TheOwner
      old == o \in known /\ o \notin rs
      has == IF o \in rs THEN kids ELSE IF old THEN Over(kids, owned[o]) ELSE NothingOwned
      found == [q \in rs |-> IF q = o THEN StatusForResource(kind[q], bs[q], kids) ELSE s(q)]
  IN /\ inflight' = inflight - 1
     /\ old /\ DOMAIN kids # {} => ~StatusThrows(o)
     /\ known' = known \union rs /\ deleted' = deleted \ rs
     /\ body' = Over(bs, body)
     /\ detached' = detached \ rs /\ kindless' = kindless \ rs /\ heldSo' = heldSo \ rs
     /\ owned' = [owned EXCEPT ![o] = has]
     /\ summary' = Over(found, IF old /\ DOMAIN kids # {}
                             THEN [summary EXCEPT ![o] = StatusForResource(kind[o], body[o], has)] ELSE summary)
     /\ problems' = {KeyOf(q) : q \in {q \in (IF DOMAIN kids = {} THEN rs ELSE rs \union {o}) \cap known' : summary'[q] \in Problem}}
     /\ missed' = known \ (IF DOMAIN kids = {} THEN rs ELSE rs \union {o})
     /\ nodes' = {bs[c].node : c \in {c \in rs : kind[c] = "Pod"}}
     /\ object' = CASE object # "stored" \/ selected \notin rs -> object
                    [] SelectedBlank -> "blank"
                    [] SelectedKindless -> "kindless"
                    [] OTHER -> "replaced"
     /\ fresh' = FALSE
     /\ UNCHANGED <<kind, selected, pods, failed>>

(* registerOwned for the child c, now with status s: the owner, when it is *)
(* in the store, holds it and gets a new status.  A new object in the      *)
(* place of a placeholder does not take over what that owned.              *)
RegisterOwned(c, s) ==
  LET o == TheOwner
      has == Over([d \in {c} |-> s], owned[o])
      new == StatusForResource(kind[o], body[o], has)
      takenOver == IF body[c] = Undefined THEN NothingOwned
                   ELSE [d \in (DOMAIN owned[c] \cap known) \ deleted |-> summary[d]]
  IN IF c \in Child /\ c \notin detached' /\ o \in known
     THEN /\ owned' = [owned EXCEPT ![o] = has]
          /\ summary' = [summary EXCEPT ![c] = s, ![o] = new]
          /\ problems' = UpdateProblemResources(UpdateProblemResources(problems, KeyOf(o), new), c, s)
          /\ missed' = missed \ {c, o}
     ELSE /\ owned' = IF c \in Owner THEN [owned EXCEPT ![c] = takenOver] ELSE owned
          /\ summary' = [summary EXCEPT ![c] = s]
          /\ problems' = UpdateProblemResources(problems, c, s)
          /\ missed' = missed \ {c}

(* doUpdateResource returns early for an old or removed object.            *)
Applies(k, isNew) == IF k \in known THEN isNew \/ k \notin deleted ELSE isNew \/ kind[k] = "Pod"

(* The reducer throws for a child below a placeholder without a status.    *)
Throws ==
  /\ failed' = TRUE
  /\ UNCHANGED <<kind, objectVars, derived, selection>>

PutBelowPlaceholder(c, isNew) ==
  /\ isNew \/ c \notin detached
  /\ Applies(c, isNew) /\ TheOwner \in known /\ StatusThrows(TheOwner)
  /\ UNCHANGED inflight /\ Throws

ReceiveBelowPlaceholder(rs) ==
  /\ inflight' = inflight - 1
  /\ rs \intersect Child # {} /\ TheOwner \in known \ rs /\ StatusThrows(TheOwner)
  /\ Throws

(* Whether the resource is selected again after k was put: by              *)
(* doUpdateResource when it is the same, else by putResource, with         *)
(* isResourceOwnedBy both ways, which looks into the selected object.      *)
ReselectsItself(k) == selected = k /\ ~SelectedBlank
Reselects(k) ==
  \/ selected = k /\ ~SelectedBlank
  \/ selected \in Owner /\ object = "stored" /\ k \in DOMAIN owned'[selected]
  \/ k \in Owner /\ selected \in DOMAIN owned'[k] /\ ~SelectedBlank

(* What an object that is no longer in the store owned is not followed.    *)
MayHold(k) == k \in Child /\ selected \in Owner /\ object \in {"replaced", "blank"}

(* By an undefined kind only a new placeholder is found.                   *)
SelectAgain(k) ==
  IF k # selected /\ SelectedKindless
  THEN selected' = Undefined /\ object' = "none" /\ fresh' = FALSE /\ pods' = {}
  ELSE Select(selected)

KeepSelected(k) ==
  /\ IF selected = k THEN object' = "blank" /\ fresh' = FALSE ELSE UNCHANGED <<object, fresh>>
  /\ UNCHANGED <<selected, pods>>

(* doUpdateResource and the selection that putResource repeats for a       *)
(* resource above or below the one put.  The status is computed before     *)
(* the attribute owned is taken over from the old object.                  *)
PutResource(k, b, isNew) ==
  /\ known # {} /\ Applies(k, isNew)
  /\ detached' = IF isNew THEN detached \ {k} ELSE detached
  /\ k \in Child \ detached' => ~(TheOwner \in known /\ StatusThrows(TheOwner))
  /\ known' = known \union {k} /\ deleted' = deleted \ {k}
  /\ body' = [body EXCEPT ![k] = b]
  /\ kindless' = kindless \ {k}
  /\ heldSo' = IF k \in Owner THEN kindless ELSE IF k \in detached' THEN heldSo ELSE heldSo \ {k}
  /\ RegisterOwned(k, StatusForResource(kind[k], b, NothingOwned))
  /\ nodes' = IF isNew /\ kind[k] = "Pod" THEN nodes \union {b.node} ELSE nodes
  /\ \/ (Reselects(k) \/ MayHold(k)) /\ SelectAgain(k)
     \/ ~Reselects(k) /\ KeepSelected(k)
  /\ UNCHANGED <<kind, inflight, failed>>

(* registerOwned with remove.                                              *)
DisownNothing(k) == owned
Disown(k) ==
  IF k \in Child \ detached THEN [owned EXCEPT ![TheOwner] = Restrict(@, DOMAIN @ \ {k})] ELSE owned

(* doRemoveResource, of the object that the watch reports: the pod is      *)
(* looked up under the node that it names now.                             *)
RemoveResource(k) ==
  /\ k \in known /\ body[k] # Undefined
  /\ deleted' = deleted \union {k}
  /\ owned' = Disown(k)
  /\ failed' = (kind[k] = "Pod" /\ body[k].node \notin nodes)
  /\ IF selected = k /\ ~SelectedBlank /\ ~failed'
     THEN selected' = Undefined /\ object' = "none" /\ fresh' = FALSE ELSE UNCHANGED <<selected, object, fresh>>
  /\ UNCHANGED <<kind, body, known, summary, detached, kindless, heldSo, problems, missed, nodes, pods, inflight>>

(* detachResource empties the ownerReferences of the object in the store,  *)
(* and createPatch, which gets that object as the contents, takes its kind *)
(* and status away; its owner holds the same object.                       *)
DetachPod(c) ==
  /\ c \in (known \ deleted) \ detached /\ kind[c] = "Pod" /\ body[c] # Undefined
  /\ detached' = detached \union {c} /\ kindless' = kindless \union {c} /\ heldSo' = heldSo \union {c}
  /\ UNCHANGED <<kind, body, known, deleted, summary, owned, derived, selection, inflight, failed>>

EmptyStore ==
  /\ body' = [q \in Key |-> Undefined] /\ known' = {} /\ deleted' = {}
  /\ summary' = [q \in Key |-> Undefined] /\ owned' = [o \in Owner |-> NothingOwned]
  /\ detached' = {} /\ kindless' = {} /\ heldSo' = {}
  /\ missed' = {} /\ nodes' = {}
  /\ selected' = Undefined /\ object' = "none" /\ fresh' = FALSE /\ pods' = {}
  /\ UNCHANGED <<kind, inflight, failed>>

\* The list of problems is not reset.
InvalidateKeepingProblems == EmptyStore /\ UNCHANGED problems

Invalidate == EmptyStore /\ problems' = {}

RelationsNext ==
  /\ ~failed
  /\ \/ FetchResources \/ Invalidate
     \/ inflight > 0 /\ \E rs \in SUBSET Key : ReceiveBelowPlaceholder(rs)
     \/ inflight > 0 /\ \E rs \in SUBSET Key : \E bs \in [rs -> UNION {Bodies[kind[q]] : q \in rs}] :
          (\A q \in rs : bs[q] \in Bodies[kind[q]]) /\ ReceiveResources(rs, bs)
     \/ \E k \in Key : SelectResource(k) \/ RemoveResource(k)
     \/ \E k \in Key, isNew \in BOOLEAN : \E b \in Bodies[kind[k]] : PutResource(k, b, isNew)
     \/ \E c \in Child, isNew \in BOOLEAN : PutBelowPlaceholder(c, isNew)
     \/ \E c \in Child : DetachPod(c)
-----------------------------------------------------------------------------
RelationsTypeOK ==
  /\ deleted \subseteq known /\ known \subseteq Key /\ problems \subseteq known \union {Undefined}
  /\ \A o \in Owner : DOMAIN owned[o] \subseteq Child
  /\ kindless \union heldSo \subseteq detached /\ detached \subseteq Child /\ pods \subseteq Child
  /\ selected \in Key \union {Undefined} /\ inflight \in 0..2 /\ failed \in BOOLEAN
  /\ object \in {"none", "stored", "replaced", "blank", "kindless"}

(* "resources whose statusSummary field is in ('error', 'warning', or      *)
(* 'timed out')": the list of problems, kept up to date by three reducers  *)
(* and by the recursion from a child to its owner, has every resource with *)
(* such a status that was not removed and no other.  A later list that     *)
(* lacks a resource empties its place without removing it, and a           *)
(* placeholder has no key to be listed under.                              *)
ProblemsListed ==
  \A q \in {q \in (known \ deleted) \ missed : body[q] # Undefined} : q \in problems <=> summary[q] \in Problem

(* What an owner holds of a child that is still its own is the child as it *)
(* is now: not removed, and with the status the store shows for it.        *)
OwnedIsCurrent ==
  \A o \in Owner : \A c \in DOMAIN owned[o] \ detached :
    c \in known \ deleted /\ owned[o][c] = summary[c]

(* "pods that are transitively owned by the currently selected resource":  *)
(* unless the resources were loaded again, every pod that the selected     *)
(* resource still owns is among the pods shown, for the terminal and the   *)
(* logs.  It says nothing of a resource that was selected before the store *)
(* had it: the placeholder stays selected when the resource comes, and no  *)
(* pods of it are shown.                                                   *)
SelectedPodsShown ==
  selected \in Owner /\ fresh
    => {c \in DOMAIN owned[selected] \ detached : kind[c] = "Pod"} \subseteq pods
=============================================================================
