------------------------------ MODULE MCStore ------------------------------
(***************************************************************************)
(* Small instances of the UI's store of resources and events: its filters, *)
(* what it derives from resources, and the events of resources.  In a      *)
(* behaviour one of them takes steps, the others stay as they start and    *)
(* only that one's properties are looked at.                               *)
(***************************************************************************)
EXTENDS Filters, Relations, Events

CONSTANTS e1, e2, e3

VARIABLE part   \* the part of the store that takes steps
-----------------------------------------------------------------------------
StoreAttributes ==
  [dep |-> [namespace |-> {"a"}, kind |-> {"Deployment"}, app |-> {"x"}],
   pod |-> [namespace |-> {"b"}, kind |-> {"Pod"}, app |-> {"y"}]]
StoreOwnerOf == [dep |-> NoOwner, pod |-> "dep"]
StoreFilter == <<[field |-> "app", value |-> "x", negated |-> FALSE],
                 [field |-> "status", value |-> "ok", negated |-> TRUE]>>
StoreNamespaceChoice == {{}, {"a"}}
StoreKindChoice == {{}}

PodBody(conditions, ready, flapping, node) ==
  [conditions |-> conditions, ready |-> ready, scheduled |-> TRUE, initialized |-> TRUE,
   completed |-> FALSE, flapping |-> flapping, node |-> node]
StoreBodies ==
  [Pod |-> {PodBody(TRUE, TRUE, TRUE, "n1"), PodBody(FALSE, FALSE, FALSE, Undefined)},
   Job |-> [last : {"Complete", "Failed"}],
   CronJob |-> {[suspended |-> FALSE]},
   StatefulSet |-> {[have |-> 1, replicas |-> 2]}]

StoreAbout == e1 :> "Pod" @@ e2 :> "Pod" @@ e3 :> "ReplicaSet"
StoreOrder == e1 :> 1 @@ e2 :> 2 @@ e3 :> 3

-----------------------------------------------------------------------------
Parts == {"filters", "relations", "events"}

\* A part that takes no steps starts in one state.
StoreInit ==
  /\ part \in Parts /\ FiltersInit /\ EventsInit
  /\ RelationsInit /\ (part # "relations" => kind[CHOOSE o \in Owner : TRUE] = "CronJob")

StoreNext ==
  /\ UNCHANGED part
  /\ \/ part = "filters" /\ FiltersNext /\ UNCHANGED <<relationVars, eventVars>>
     \/ part = "relations" /\ RelationsNext /\ UNCHANGED <<filterVars, eventVars>>
     \/ part = "events" /\ EventsNext /\ UNCHANGED <<filterVars, relationVars>>

StoreSpec == StoreInit /\ [][StoreNext]_<<part, filterVars, relationVars, eventVars>>
-----------------------------------------------------------------------------
(* The types of the part that takes steps.                                 *)
StoreTypeOK ==
  /\ part = "filters" => FiltersTypeOK
  /\ part = "relations" => RelationsTypeOK
  /\ part = "events" => EventsTypeOK

(* What the lists show is what the filters that are applied admit, and the *)
(* namespaces and kinds of the settings reach every list that is fetched.  *)
FiltersHonoured == part = "filters" => ShownAsFiltered /\ SettingsApplied

(* What the store derives from resources follows them: the resources with  *)
(* problems, what a workload owns and the pods of the selected one.        *)
RelationsCurrent == part = "relations" => ProblemsListed /\ OwnedIsCurrent /\ SelectedPodsShown

(* No event is lost before its resource is known, the recent ones are the  *)
(* newest, and the page of a resource shows its events.                    *)
EventsKept == part = "events" => RecentAreNewest /\ NoEventLost /\ SelectedEventsShown
=============================================================================
