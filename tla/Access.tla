------------------------------- MODULE Access -------------------------------
(***************************************************************************)
(* What the UI believes the user may do (AccessEvaluator) and the page of a*)
(* resource that offers it (ResourceInfoPage). The evaluator caches the    *)
(* answers of the access review handler (module AccessReview) for a kind,  *)
(* for the kind in a namespace and for an object, and answers from the     *)
(* cache as soon as any of them covers the object. All resources are of    *)
(* one kind, and an answer covers the five verbs at once: one "yes" or "no"*)
(* stands for all of them. Without a namespace the handler says yes when   *)
(* any namespace allows it. The roles may change at any time, so a review  *)
(* finds any namespaces granted, whatever the one before it found; what it *)
(* answers is cached for as long as the session lasts.                     *)
(***************************************************************************)
EXTENDS Integers, FiniteSets

CONSTANTS Item,        \* resources, of one kind
          Space,       \* namespaces
          SpaceOf,     \* the namespace of each resource
          Ready,       \* the resources with ready replicas
          NoItem       \* the page shows no resource

ASSUME AccessAssumption == SpaceOf \in [Item -> Space] /\ NoItem \notin Item /\ Ready \subseteq Item

Answer == {"none", "yes", "no"}
Levels == {<<"kind">>} \cup {<<"space", n>> : n \in Space} \cup {<<"object", r>> : r \in Item}

VARIABLES perms,     \* AccessEvaluator.permissions
          reviewTimers,    \* reviews that start after 250 ms
          reviews,   \* reviews on their way: [level, for]
          pageItem,  \* the resource of ResourceInfoPage
          pageAccess,\* its state.resourceAccess: of what, the answer, what that was told
          awaits,    \* the objects of whose review it awaits the answer
          dialog,    \* whether a dialog of it is open
          seen       \* per level the namespaces its cached no was told are granted

accessVars == <<perms, reviewTimers, reviews, pageItem, pageAccess, awaits, dialog, seen>>

NoAccess == [of |-> NoItem, answer |-> "none", told |-> {}]

AccessInit ==
  /\ perms = [l \in Levels |-> "none"]
  /\ reviewTimers = {} /\ reviews = {} /\ pageItem = NoItem /\ pageAccess = NoAccess
  /\ awaits = {} /\ dialog = "none" /\ seen = [l \in Levels |-> {}]

SpaceLevel(r) == <<"space", SpaceOf[r]>>
AnySpaceLevel(r) == <<"space", CHOOSE n \in Space : TRUE>>
NamespaceKey(r) == SpaceLevel(r)

(* The object's answer goes before its namespace's, that before the kind's.*)
CachedLevel(r) ==
  CASE perms[<<"object", r>>] # "none" -> <<"object", r>>
    [] perms[NamespaceKey(r)] # "none"   -> NamespaceKey(r)
    [] OTHER -> <<"kind">>
Cached(r) == perms[CachedLevel(r)]

(* getObjectPermissions for the page: from the cache, or by a review of the*)
(* object, with those of the kind and the namespace to follow.             *)
GetObjectAccess(r) ==
  IF Cached(r) # "none"
  THEN /\ pageAccess' = [of |-> r, answer |-> Cached(r), told |-> seen[CachedLevel(r)]]
       /\ UNCHANGED <<reviewTimers, reviews, awaits>>
  ELSE /\ reviewTimers' = reviewTimers \union {<<"kind">>, NamespaceKey(r)}
       /\ reviews' = reviews \union {<<"object", r>>}
       /\ awaits' = awaits \union {r}

(* The page is shown for a resource, or its resource changes.              *)
ShowResource(r) ==
  /\ r # pageItem /\ pageItem' = r
  /\ GetObjectAccess(r)
  /\ (Cached(r) = "none") => pageAccess' = NoAccess
  /\ dialog' = IF pageItem = NoItem THEN "none" ELSE dialog
  /\ UNCHANGED <<perms, seen>>

(* Any change of its properties makes a page without access ask again.     *)
ReceivePageProps ==
  /\ pageItem # NoItem /\ pageAccess = NoAccess
  /\ GetObjectAccess(pageItem)
  /\ (Cached(pageItem) = "none") => UNCHANGED pageAccess
  /\ UNCHANGED <<perms, pageItem, dialog, seen>>

LeaveAccessPage ==
  /\ pageItem # NoItem /\ pageItem' = NoItem /\ pageAccess' = NoAccess
  /\ awaits' = {} /\ dialog' = "none"
  /\ UNCHANGED <<perms, reviewTimers, reviews, seen>>

TimerFires(l) ==
  /\ l \in reviewTimers /\ reviewTimers' = reviewTimers \ {l} /\ reviews' = reviews \union {l}
  /\ UNCHANGED <<perms, pageItem, pageAccess, awaits, dialog, seen>>

(* What the handler answers where the roles allow it in these namespaces.  *)
Review(l, granted) ==
  LET allowed == CASE l[1] = "kind"   -> granted # {}
                   [] l[1] = "space"  -> l[2] \in granted
                   [] l[1] = "object" -> SpaceOf[l[2]] \in granted
  IN IF allowed THEN "yes" ELSE "no"

(* An answer is cached; that of an object the page awaits becomes its      *)
(* access, whatever resource the page is of now. What the server could not *)
(* find out (unknown) it answers with no; of an answer whose status is not *)
(* OK (refused) nothing is cached, but the page's access allows nothing.   *)
ReviewAnswered(l, outcome, granted) ==
  /\ l \in reviews /\ reviews' = reviews \ {l}
  /\ LET a   == IF outcome = "reviewed" THEN Review(l, granted) ELSE "no"
         saw == IF outcome = "reviewed" /\ a = "no" THEN granted ELSE {}
     IN /\ IF outcome = "refused"
           THEN UNCHANGED <<perms, seen>>
           ELSE perms' = [perms EXCEPT ![l] = a] /\ seen' = [seen EXCEPT ![l] = saw]
        /\ IF l[1] = "object"
           THEN /\ pageAccess' = IF l[2] \in awaits THEN [of |-> l[2], answer |-> a, told |-> saw] ELSE pageAccess
                /\ awaits' = awaits \ {l[2]}
           ELSE UNCHANGED <<pageAccess, awaits>>
  /\ UNCHANGED <<reviewTimers, pageItem, dialog>>

(* getObjectAccess: no ready replicas count as none at all.                *)
Allows(a, action, r) ==
  /\ a = "yes"
  /\ (action \in {"scale", "suspend", "logs", "terminal"}) => r \in Ready

(* The action menu opens the dialog of an action the access allows; those  *)
(* for suspending and scaling ask the same of it.                          *)
OpenDialog(action) ==
  /\ pageItem # NoItem /\ dialog = "none" /\ Allows(pageAccess.answer, action, pageItem)
  /\ dialog' = "open"
  /\ UNCHANGED <<perms, reviewTimers, reviews, pageItem, pageAccess, awaits, seen>>

CloseDialog ==
  /\ dialog # "none" /\ dialog' = "none"
  /\ UNCHANGED <<perms, reviewTimers, reviews, pageItem, pageAccess, awaits, seen>>

(* Confirming acts on the resource the page then has: module Contents.     *)
ConfirmDialog ==
  /\ dialog # "none" /\ pageItem # NoItem
  /\ dialog' = "none"
  /\ UNCHANGED <<perms, reviewTimers, reviews, pageItem, pageAccess, awaits, seen>>

(* A new session has a new evaluator; what is on its way is for the old one*)
NewEvaluator ==
  /\ perms' = [l \in Levels |-> "none"] /\ reviewTimers' = {} /\ reviews' = {}
  /\ pageItem' = NoItem /\ pageAccess' = NoAccess
  /\ awaits' = {} /\ dialog' = "none"
  /\ seen' = [l \in Levels |-> {}]

AccessNext ==
  \/ \E r \in Item : ShowResource(r)
  \/ ReceivePageProps \/ LeaveAccessPage \/ CloseDialog \/ ConfirmDialog \/ NewEvaluator
  \/ \E l \in Levels :
       \/ TimerFires(l)
       \/ \E granted \in SUBSET Space : ReviewAnswered(l, "reviewed", granted)
       \/ \E outcome \in {"unknown", "refused"} : ReviewAnswered(l, outcome, {})
  \/ \E action \in {"scale", "delete"} : OpenDialog(action)

AccessSpec == AccessInit /\ [][AccessNext]_accessVars
-----------------------------------------------------------------------------
AccessTypeOK ==
  /\ perms \in [Levels -> Answer] /\ reviewTimers \subseteq Levels /\ reviews \subseteq Levels
  /\ pageItem \in Item \cup {NoItem} /\ pageAccess \in [of : Item \cup {NoItem}, answer : Answer, told : SUBSET Space]
  /\ awaits \subseteq Item
  /\ dialog \in {"none", "open"}
  /\ seen \in [Levels -> SUBSET Space]

(* Whatever was cached before, and in whatever order the reviews of kind,  *)
(* namespace and object came back, what the user may do is withheld only if*)
(* the review that the answer rests on was told that the roles do not      *)
(* grant it, or was told nothing (getObjectPermissions). A no is not asked *)
(* about again while the session lasts, so it outlives a later grant, and  *)
(* one that the server gave because its own review failed lasts as long.   *)
PermittedIsOffered == pageAccess.answer = "no" => SpaceOf[pageAccess.of] \notin pageAccess.told
=============================================================================
