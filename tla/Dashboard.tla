----------------------------- MODULE Dashboard -----------------------------
(***************************************************************************)
(* The lists of the overview page: problems (ResourceProblems), counts of  *)
(* the resources by kind (ResourceCounts) and recent events                *)
(* (RecentUpdates), for the namespaces of the user's settings.  The        *)
(* problems box computes its lists when its props change: when events      *)
(* arrive, the settings change or a list of resources replaces             *)
(* problemResources.  A single resource changes problemResources in place, *)
(* which is no change of the props.                                        *)
(***************************************************************************)
EXTENDS Naturals, FiniteSets

CONSTANTS Member,       \* keys of resources
          HomeOf,       \* key -> its namespace, NoHome of a cluster resource
          NoHome,
          OwnersOf,     \* key -> what owns it, at any height
          Unready,      \* the keys whose resource has a Ready condition, not True
          Bare,         \* those whose status has no conditions (a lost claim, a cron job)
          MaxRecent     \* at most so many recent events

ASSUME DashboardAssumption == MaxRecent \in Nat

Homes == {HomeOf[k] : k \in Member} \ {NoHome}

VARIABLES stored,     \* keys of state.resources
          faulty,     \* keys of problemResources
          warned,     \* keys that events hold a warning, an error or NodeNotReady of
          recentEvents,     \* keys of recentEvents
          chosenSpaces,     \* usersettings.selectedNamespaces
          problemsBox         \* state of the problems box: [workload, cluster, tab], and whether
                              \* its last collection threw; <<>> unmounted

dashboardVars == <<stored, faulty, warned, recentEvents, chosenSpaces, problemsBox>>
-----------------------------------------------------------------------------
(* A resource without a namespace passes no choice of namespaces.          *)
Passing(keys, spaces) == {k \in keys : spaces = {} \/ HomeOf[k] \in spaces}

(* What the store attached below a resource, at any depth: what is owned   *)
(* by it through owners that are there.  eventsForResource finds the events*)
(* of all of it.                                                           *)
Below(k, held) ==
  {k} \union {m \in held : k \in OwnersOf[m] /\ (\A j \in OwnersOf[m] : k \in OwnersOf[j] => j \in held)}
Eventful(events, held) == {k \in Member : Below(k, held) \cap events # {}}

(* collectProblems: by events, or else by the condition Ready.  It throws  *)
(* at a resource that needs conditions and has none, and finds nothing.    *)
ByWorkload(bad, eventful, spaces) == Passing(bad, spaces) \cap eventful
ByCluster(bad, eventful, spaces)  == (Passing(bad, spaces) \ eventful) \cap Unready
Throws(bad, eventful, spaces) == (Passing(bad, spaces) \ eventful) \cap Bare # {}

FirstTab(workload) == IF workload # {} THEN "workload" ELSE "cluster"

(* componentWillReceiveProps: the tab stays while it has problems.  When   *)
(* the collection throws, the box keeps the lists it had.                  *)
KeptTab(b, workload, cluster) == b.tab
Tab(b, workload, cluster) ==
  IF (IF b.tab = "workload" THEN workload ELSE cluster) # {} THEN b.tab ELSE FirstTab(workload)

Collected(bad, eventful, spaces) ==
  LET w == ByWorkload(bad, eventful, spaces)
      c == ByCluster(bad, eventful, spaces)
  IN IF problemsBox = <<>> THEN problemsBox
     ELSE IF Throws(bad, eventful, spaces) THEN [problemsBox EXCEPT !.threw = TRUE]
     ELSE [workload |-> w, cluster |-> c, tab |-> Tab(problemsBox, w, c), threw |-> FALSE]
-----------------------------------------------------------------------------
(* constructor: a box whose first collection throws does not mount.        *)
MountBox ==
  /\ problemsBox = <<>>
  /\ LET eventful == Eventful(warned, stored)
         w == ByWorkload(faulty, eventful, chosenSpaces)
     IN /\ ~ Throws(faulty, eventful, chosenSpaces)
        /\ problemsBox' = [workload |-> w, cluster |-> ByCluster(faulty, eventful, chosenSpaces), tab |-> FirstTab(w),
                           threw |-> FALSE]
  /\ UNCHANGED <<stored, faulty, warned, recentEvents, chosenSpaces>>

UnmountBox == problemsBox # <<>> /\ problemsBox' = <<>> /\ UNCHANGED <<stored, faulty, warned, recentEvents, chosenSpaces>>

(* handleChangeTab: only to a tab that has problems.                       *)
HandleChangeTab(t) ==
  /\ problemsBox # <<>> /\ problemsBox[t] # {}
  /\ problemsBox' = [problemsBox EXCEPT !.tab = t]
  /\ UNCHANGED <<stored, faulty, warned, recentEvents, chosenSpaces>>

(* What the arrival of some resources makes the store judge anew: these    *)
(* and, in registerOwned, what owns them.                                  *)
Judged(keys) == keys \union {x \in stored : Below(x, stored \union keys) \cap keys # {}}

(* PUT_RESOURCE: updateProblemResources writes to the object the props     *)
(* hold.                                                                   *)
UpdateResource(k) ==
  /\ stored' = stored \union {k}
  /\ \E bad \in SUBSET Judged({k}) : faulty' = (faulty \ Judged({k})) \union bad
  /\ UNCHANGED <<warned, recentEvents, chosenSpaces, problemsBox>>

(* RECEIVE_RESOURCES: a new problemResources.                              *)
ReceiveAll(keys) ==
  /\ stored' = stored \union keys
  /\ LET eventful == Eventful(warned, stored \union keys)
     IN \E bad \in SUBSET Judged(keys) : faulty' = bad /\ problemsBox' = Collected(bad, eventful, chosenSpaces)
  /\ UNCHANGED <<warned, recentEvents, chosenSpaces>>

(* RECEIVE_EVENTS: a new events object, and new recent events.             *)
ReceiveEvent(k, warning) ==
  /\ warned' = IF warning THEN warned \union {k} ELSE warned
  /\ recentEvents' \in {r \in SUBSET (recentEvents \union {k}) : k \in r /\ Cardinality(r) <= MaxRecent}
  /\ problemsBox' = Collected(faulty, Eventful(warned', stored), chosenSpaces)
  /\ UNCHANGED <<stored, faulty, chosenSpaces>>

SelectNamespaceSetUnseen(spaces) == chosenSpaces' = spaces /\ UNCHANGED <<stored, faulty, warned, recentEvents, problemsBox>>
SelectNamespaceSet(spaces) ==
  /\ chosenSpaces' = spaces
  /\ problemsBox' = Collected(faulty, Eventful(warned, stored), spaces)
  /\ UNCHANGED <<stored, faulty, warned, recentEvents>>
-----------------------------------------------------------------------------
(* render of RecentUpdates and of ResourceCounts: connected, they follow   *)
(* the store.                                                              *)
RecentUpdates == Passing(recentEvents, chosenSpaces)
ResourceCounts == Passing(stored, chosenSpaces)

DashboardInit ==
  /\ stored = {} /\ faulty = {} /\ warned = {} /\ recentEvents = {} /\ chosenSpaces = {} /\ problemsBox = <<>>

DashboardNext ==
  \/ MountBox \/ UnmountBox
  \/ \E t \in {"workload", "cluster"} : HandleChangeTab(t)
  \/ \E k \in Member : UpdateResource(k) \/ \E b \in BOOLEAN : ReceiveEvent(k, b)
  \/ \E keys \in SUBSET Member : ReceiveAll(keys)
  \/ \E spaces \in SUBSET Homes : SelectNamespaceSet(spaces)

DashboardSpec == DashboardInit /\ [][DashboardNext]_dashboardVars
-----------------------------------------------------------------------------
DashboardTypeOK ==
  /\ stored \subseteq Member /\ faulty \subseteq Member /\ warned \subseteq Member
  /\ recentEvents \subseteq Member /\ Cardinality(recentEvents) <= MaxRecent /\ chosenSpaces \subseteq Homes
  /\ problemsBox = <<>> \/ problemsBox \in [workload : SUBSET Member, cluster : SUBSET Member, tab : {"workload", "cluster"},
                                            threw : BOOLEAN]

(* The problems box never stands on an empty tab while the other one lists *)
(* problems: it moves when the problems of its tab are gone                *)
(* (componentWillReceiveProps), and the user can not choose an empty tab.  *)
TabHasProblems ==
  problemsBox # <<>> /\ problemsBox.workload \union problemsBox.cluster # {} => problemsBox[problemsBox.tab] # {}

(* The problems box lists nothing of a namespace that is not chosen, and   *)
(* what it lists is in the recent events and the counts of the same page   *)
(* if it is there at all, unless collectProblems threw when the page       *)
(* changed last.                                                           *)
ChosenNamespacesOnly ==
  problemsBox # <<>> /\ ~ problemsBox.threw =>
    LET listed == problemsBox.workload \union problemsBox.cluster
    IN /\ chosenSpaces # {} => \A k \in listed : HomeOf[k] \in chosenSpaces
       /\ listed \cap stored \subseteq ResourceCounts
       /\ listed \cap recentEvents \subseteq RecentUpdates
=============================================================================
