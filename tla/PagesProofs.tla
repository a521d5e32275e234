----------------------------- MODULE PagesProofs -----------------------------
(***************************************************************************)
(* Proofs about the pages of the UI, which MCPages runs: for any errors,   *)
(* members, namespaces, rows and texts.                                    *)
(***************************************************************************)
EXTENDS MCPages, SequenceTheorems, FiniteSetTheorems, WellFoundedInduction, TLAPS

(* The errors of the header.                                               *)

RetriesTyped == errorRetries \in Seq(Nat) /\ \A i \in 1..Len(errorRetries) : errorRetries[i] \in retriable

ErrorsInv ==
  /\ nextErrorId \in Nat /\ errorList \subseteq 1..nextErrorId /\ latestError \in 0..nextErrorId
  /\ retriable \subseteq 1..nextErrorId /\ RetriesTyped
  /\ editingNow \in BOOLEAN /\ barError = latestError /\ barOpen \in BOOLEAN /\ dialogOpen \in BOOLEAN
  /\ NoEmptyNotice

\* Before any request failed the header shows nothing.
LEMMA ErrorsStart == ErrorsInit => ErrorsInv
<1> SUFFICES ASSUME ErrorsInit PROVE ErrorsInv
  OBVIOUS
<1>1. RetriesTyped
  BY EmptySeq DEF ErrorsInit, RetriesTyped
<1>2. errorList \subseteq 1..nextErrorId /\ latestError \in 0..nextErrorId /\ retriable \subseteq 1..nextErrorId /\ nextErrorId \in Nat
  BY DEF ErrorsInit
<1> QED
  BY <1>1, <1>2 DEF ErrorsInit, ErrorsInv, NoEmptyNotice

\* Whatever list and latest error reach the header, an open bar has an error and an open dialog lists one.
LEMMA HeaderStep ==
  ASSUME ErrorsInv, NEW list, NEW latest \in Nat, NEW nowEditing \in BOOLEAN, NEW wasOpen \in BOOLEAN, NEW wasDialog \in BOOLEAN,
         HeaderReceives(list, latest, nowEditing, wasOpen, wasDialog), wasOpen => latest # 0 \/ (~nowEditing /\ barOpen)
  PROVE  /\ NoEmptyNotice' /\ errorList' = list /\ latestError' = latest /\ barError' = latest
         /\ barOpen' \in BOOLEAN /\ dialogOpen' \in BOOLEAN
BY DEF ErrorsInv, HeaderReceives, NoEmptyNotice

\* Every step of the errors keeps the invariant.
LEMMA ErrorsStep == ErrorsInv /\ [ErrorsNext]_errorVars => ErrorsInv'
<1> SUFFICES ASSUME ErrorsInv, [ErrorsNext]_errorVars PROVE ErrorsInv'
  OBVIOUS
<1>0. 0 \in Nat /\ latestError \in Nat /\ (barOpen => latestError # 0)
  BY DEF ErrorsInv, NoEmptyNotice
<1>1. ASSUME NEW retry \in BOOLEAN, AddError(retry) PROVE ErrorsInv'
  <2>1. nextErrorId' = nextErrorId + 1 /\ nextErrorId' \in Nat /\ nextErrorId' # 0 /\ nextErrorId' \in 1..nextErrorId'
        /\ 1..nextErrorId \subseteq 1..nextErrorId' /\ nextErrorId' \in 0..nextErrorId'
    BY <1>1 DEF AddError, ErrorsInv
  <2>2. NoEmptyNotice' /\ errorList' = errorList \union {nextErrorId'} /\ latestError' = nextErrorId'
        /\ barError' = nextErrorId' /\ barOpen' \in BOOLEAN /\ dialogOpen' \in BOOLEAN
    BY <1>1, <2>1, HeaderStep DEF AddError, ErrorsInv
  <2>3. retriable' \subseteq 1..nextErrorId' /\ retriable \subseteq retriable' /\ errorRetries' = errorRetries /\ editingNow' = editingNow
    BY <1>1, <2>1 DEF AddError, ErrorsInv
  <2>4. RetriesTyped'
    BY <2>3 DEF ErrorsInv, RetriesTyped
  <2> QED
    <3>1. errorList' \subseteq 1..nextErrorId' /\ latestError' \in 0..nextErrorId' /\ barError' = latestError' /\ editingNow' \in BOOLEAN
      BY <2>1, <2>2, <2>3 DEF ErrorsInv
    <3> QED
      BY <2>1, <2>2, <2>3, <2>4, <3>1 DEF ErrorsInv
<1>2. ASSUME NEW ids, ClearErrors(ids) PROVE ErrorsInv'
  <2>1. NoEmptyNotice' /\ errorList' = Cleared(ids) /\ latestError' = latestError /\ barError' = latestError
        /\ barOpen' \in BOOLEAN /\ dialogOpen' \in BOOLEAN
    BY <1>2, <1>0, HeaderStep DEF ClearErrors, ErrorsInv
  <2> QED
    BY <1>2, <2>1 DEF ErrorsInv, RetriesTyped, Cleared, ClearErrors
<1>3. ASSUME NEW i \in 1..nextErrorId, RetryError(i) PROVE ErrorsInv'
  <2>1. NoEmptyNotice' /\ errorList' = Cleared({i}) /\ latestError' = latestError /\ barError' = latestError
        /\ barOpen' \in BOOLEAN /\ dialogOpen' \in BOOLEAN
    BY <1>3, <1>0, HeaderStep DEF RetryError, ErrorsInv
  <2>2. errorRetries' = Append(errorRetries, i) /\ i \in retriable /\ retriable' = retriable /\ i \in Nat
    BY <1>3 DEF RetryError, ErrorsInv
  <2>3. RetriesTyped'
    BY <2>2, AppendProperties DEF ErrorsInv, RetriesTyped
  <2> QED
    BY <1>3, <2>1, <2>3 DEF ErrorsInv, Cleared, RetryError
<1>4. CASE CloseBar
  <2>1. NoEmptyNotice' /\ errorList' = errorList /\ latestError' = 0 /\ barError' = 0
        /\ barOpen' \in BOOLEAN /\ dialogOpen' \in BOOLEAN
    BY <1>4, <1>0, HeaderStep DEF CloseBar, ErrorsInv
  <2> QED
    BY <1>4, <2>1 DEF ErrorsInv, RetriesTyped, CloseBar
<1>5. CASE OpenDialogOfErrors
  BY <1>5 DEF ErrorsInv, RetriesTyped, NoEmptyNotice, OpenDialogOfErrors
<1>6. CASE CloseDialogOfErrors
  BY <1>6 DEF ErrorsInv, RetriesTyped, NoEmptyNotice, CloseDialogOfErrors
<1>7. CASE EditingChanges
  <2>1. NoEmptyNotice' /\ errorList' = errorList /\ latestError' = latestError /\ barError' = latestError
        /\ barOpen' \in BOOLEAN /\ dialogOpen' \in BOOLEAN /\ editingNow' \in BOOLEAN
    BY <1>7, <1>0, HeaderStep DEF EditingChanges, ErrorsInv
  <2> QED
    BY <1>7, <2>1 DEF ErrorsInv, RetriesTyped, EditingChanges
<1>8. CASE InvalidateErrors
  <2>1. NoEmptyNotice' /\ errorList' = {} /\ latestError' = 0 /\ barError' = 0
        /\ barOpen' \in BOOLEAN /\ dialogOpen' \in BOOLEAN
    BY <1>8, <1>0, HeaderStep DEF InvalidateErrors, ErrorsInv
  <2> QED
    <3>1. UNCHANGED <<nextErrorId, retriable, errorRetries>> /\ editingNow' = FALSE
      BY <1>8 DEF InvalidateErrors
    <3>2. RetriesTyped'
      BY <3>1 DEF ErrorsInv, RetriesTyped
    <3>3. errorList' \subseteq 1..nextErrorId' /\ latestError' \in 0..nextErrorId' /\ nextErrorId' \in Nat
      BY <2>1, <3>1 DEF ErrorsInv
    <3> QED
      BY <2>1, <3>1, <3>2, <3>3 DEF ErrorsInv
<1>9. CASE UNCHANGED errorVars
  BY <1>9 DEF errorVars, ErrorsInv, NoEmptyNotice, RetriesTyped
<1> QED
  BY <1>1, <1>2, <1>3, <1>4, <1>5, <1>6, <1>7, <1>8, <1>9 DEF ErrorsNext

\* The types of the errors.
LEMMA ErrorsTyped == ErrorsInv => ErrorsTypeOK
<1> SUFFICES ASSUME ErrorsInv PROVE ErrorsTypeOK
  OBVIOUS
<1>1. Range(errorRetries) \subseteq retriable
  BY LenProperties DEF Range, ErrorsInv, RetriesTyped
<1> QED
  BY <1>1 DEF ErrorsInv, ErrorsTypeOK

-----------------------------------------------------------------------------
(* The problems box of the dashboard.                                      *)

BoxType == [workload : SUBSET Member, cluster : SUBSET Member, tab : {"workload", "cluster"}, threw : BOOLEAN]

\* What a box that is mounted lists: of the chosen namespaces unless it threw, under a tab that has problems.
BoxRight(box, spaces) ==
  /\ box \in BoxType
  /\ box.workload \union box.cluster # {} => box[box.tab] # {}
  /\ spaces # {} /\ ~ box.threw => \A k \in box.workload \union box.cluster : HomeOf[k] \in spaces

DashInv ==
  /\ stored \subseteq Member /\ faulty \subseteq Member /\ warned \subseteq Member
  /\ recentEvents \subseteq Member /\ Cardinality(recentEvents) <= MaxRecent /\ chosenSpaces \subseteq Homes
  /\ problemsBox # <<>> => BoxRight(problemsBox, chosenSpaces)

\* An empty dashboard.
LEMMA DashStart == DashboardInit => DashInv
BY FS_EmptySet, DashboardAssumption DEF DashboardInit, DashInv, DashboardAssumption

\* A box whose lists are computed anew is right, whichever tab is chosen so that it has problems.
LEMMA CollectedRight ==
  ASSUME NEW bad, bad \subseteq Member, NEW evts, NEW spaces, NEW tab \in {"workload", "cluster"},
         tab = "workload" => ByWorkload(bad, evts, spaces) # {} \/ ByCluster(bad, evts, spaces) = {},
         tab = "cluster" => ByCluster(bad, evts, spaces) # {} \/ ByWorkload(bad, evts, spaces) = {}
  PROVE  BoxRight([workload |-> ByWorkload(bad, evts, spaces), cluster |-> ByCluster(bad, evts, spaces), tab |-> tab,
                   threw |-> FALSE], spaces)
<1> DEFINE w == ByWorkload(bad, evts, spaces)
           c == ByCluster(bad, evts, spaces)
           box == [workload |-> w, cluster |-> c, tab |-> tab, threw |-> FALSE]
<1>1. w \subseteq Member /\ c \subseteq Member
  BY DEF ByWorkload, ByCluster, Passing
<1>2. spaces # {} => \A k \in w \union c : HomeOf[k] \in spaces
  BY DEF ByWorkload, ByCluster, Passing
<1> HIDE DEF w, c
<1>3. box \in BoxType /\ box.workload = w /\ box.cluster = c /\ box.tab = tab
  BY <1>1 DEF BoxType
<1>4. box[box.tab] = IF tab = "workload" THEN w ELSE c
  BY <1>3
<1>5. (tab = "workload" => w # {} \/ c = {}) /\ (tab = "cluster" => c # {} \/ w = {})
  BY DEF w, c
<1>6. w \union c # {} => box[box.tab] # {}
  BY <1>4, <1>5
<1>7. BoxRight(box, spaces)
  BY <1>2, <1>3, <1>6 DEF BoxRight
<1> QED
  BY <1>7 DEF w, c

\* When the props change the box is computed anew, and moves from a tab that became empty.
LEMMA CollectedAnew ==
  ASSUME DashInv, NEW bad, bad \subseteq Member, NEW evts, NEW spaces
  PROVE  Collected(bad, evts, spaces) # <<>> => BoxRight(Collected(bad, evts, spaces), spaces)
<1>1. CASE problemsBox = <<>>
  BY <1>1 DEF Collected
<1>3. CASE problemsBox # <<>> /\ Throws(bad, evts, spaces)
  <2>1. problemsBox \in BoxType /\ BoxRight(problemsBox, chosenSpaces)
    BY <1>3 DEF DashInv, BoxRight
  <2>2. Collected(bad, evts, spaces) = [problemsBox EXCEPT !.threw = TRUE]
    BY <1>3 DEF Collected
  <2> DEFINE next == Collected(bad, evts, spaces)
  <2>3. /\ next \in BoxType /\ next.threw /\ next.tab = problemsBox.tab /\ next[next.tab] = problemsBox[problemsBox.tab]
        /\ next.workload = problemsBox.workload /\ next.cluster = problemsBox.cluster
    BY <2>1, <2>2 DEF BoxType
  <2> HIDE DEF next
  <2>4. BoxRight(next, spaces)
    BY <2>1, <2>3 DEF BoxRight
  <2> QED
    BY <2>4 DEF next
<1>2. CASE problemsBox # <<>> /\ ~ Throws(bad, evts, spaces)
  <2> DEFINE w == ByWorkload(bad, evts, spaces)
             c == ByCluster(bad, evts, spaces)
             t == Tab(problemsBox, w, c)
  <2>1. problemsBox.tab \in {"workload", "cluster"}
    BY <1>2 DEF DashInv, BoxRight, BoxType
  <2>2. /\ t \in {"workload", "cluster"}
        /\ t = "workload" => w # {} \/ c = {}
        /\ t = "cluster" => c # {} \/ w = {}
    <3> HIDE DEF w, c
    <3> QED
      BY <2>1 DEF Tab, FirstTab
  <2>3. Collected(bad, evts, spaces) = [workload |-> w, cluster |-> c, tab |-> t, threw |-> FALSE]
    BY <1>2 DEF Collected
  <2> QED
    BY <2>2, <2>3, CollectedRight
<1> QED
  BY <1>1, <1>2, <1>3

\* Every step of the dashboard keeps the invariant.
LEMMA DashStep == DashInv /\ [DashboardNext]_dashboardVars => DashInv'
<1> SUFFICES ASSUME DashInv, [DashboardNext]_dashboardVars PROVE DashInv'
  OBVIOUS
<1>1. CASE MountBox
  <2> DEFINE eventful == Eventful(warned, stored)
             w == ByWorkload(faulty, eventful, chosenSpaces)
             c == ByCluster(faulty, eventful, chosenSpaces)
             t == FirstTab(w)
  <2>1. /\ t \in {"workload", "cluster"}
        /\ t = "workload" => w # {} \/ c = {}
        /\ t = "cluster" => c # {} \/ w = {}
    BY DEF FirstTab
  <2>2. problemsBox' = [workload |-> w, cluster |-> c, tab |-> t, threw |-> FALSE] /\ faulty \subseteq Member
    BY <1>1 DEF MountBox, DashInv
  <2>3. BoxRight(problemsBox', chosenSpaces)
    BY <2>1, <2>2, CollectedRight
  <2> QED
    BY <1>1, <2>3 DEF MountBox, DashInv
<1>2. CASE UnmountBox
  BY <1>2 DEF UnmountBox, DashInv
<1>3. ASSUME NEW t \in {"workload", "cluster"}, HandleChangeTab(t) PROVE DashInv'
  <2>1. problemsBox \in BoxType /\ BoxRight(problemsBox, chosenSpaces) /\ problemsBox[t] # {}
        /\ problemsBox' = [problemsBox EXCEPT !.tab = t]
    BY <1>3 DEF HandleChangeTab, DashInv, BoxRight
  <2>2. /\ problemsBox' \in BoxType /\ problemsBox'.tab = t /\ problemsBox'[t] = problemsBox[t]
        /\ problemsBox'.workload = problemsBox.workload /\ problemsBox'.cluster = problemsBox.cluster
    BY <2>1 DEF BoxType
  <2>3. BoxRight(problemsBox', chosenSpaces)
    BY <2>1, <2>2 DEF BoxRight
  <2> QED
    BY <1>3, <2>3 DEF HandleChangeTab, DashInv
<1>4. ASSUME NEW k \in Member, UpdateResource(k) PROVE DashInv'
  <2>1. Judged({k}) \subseteq Member
    BY <1>4 DEF DashInv, Judged
  <2> QED
    BY <1>4, <2>1 DEF UpdateResource, DashInv
<1>5. ASSUME NEW k \in Member, NEW warning \in BOOLEAN, ReceiveEvent(k, warning) PROVE DashInv'
  <2>1. problemsBox' # <<>> => BoxRight(problemsBox', chosenSpaces)
    BY <1>5, CollectedAnew DEF ReceiveEvent, DashInv
  <2>2. recentEvents' \subseteq Member /\ Cardinality(recentEvents') <= MaxRecent
    BY <1>5 DEF ReceiveEvent, DashInv
  <2> QED
    BY <1>5, <2>1, <2>2 DEF ReceiveEvent, DashInv
<1>6. ASSUME NEW keys \in SUBSET Member, ReceiveAll(keys) PROVE DashInv'
  <2>0. Judged(keys) \subseteq Member /\ faulty' \subseteq Member
    BY <1>6 DEF ReceiveAll, DashInv, Judged
  <2>1. problemsBox' # <<>> => BoxRight(problemsBox', chosenSpaces)
    BY <1>6, <2>0, CollectedAnew DEF ReceiveAll, DashInv
  <2> QED
    BY <1>6, <2>0, <2>1 DEF ReceiveAll, DashInv
<1>7. ASSUME NEW spaces \in SUBSET Homes, SelectNamespaceSet(spaces) PROVE DashInv'
  <2>1. problemsBox' # <<>> => BoxRight(problemsBox', spaces)
    BY <1>7, CollectedAnew DEF SelectNamespaceSet, DashInv
  <2> QED
    BY <1>7, <2>1 DEF SelectNamespaceSet, DashInv
<1>8. CASE UNCHANGED dashboardVars
  BY <1>8 DEF dashboardVars, DashInv
<1> QED
  BY <1>1, <1>2, <1>3, <1>4, <1>5, <1>6, <1>7, <1>8 DEF DashboardNext

\* The types of the dashboard, the tab that has problems and the chosen namespaces.
LEMMA DashRight == DashInv => DashboardTypeOK /\ TabHasProblems /\ ChosenNamespacesOnly
<1> SUFFICES ASSUME DashInv PROVE DashboardTypeOK /\ TabHasProblems /\ ChosenNamespacesOnly
  OBVIOUS
<1>1. DashboardTypeOK
  BY DEF DashInv, BoxRight, BoxType, DashboardTypeOK
<1>2. TabHasProblems
  BY DEF DashInv, BoxRight, TabHasProblems
<1>3. ChosenNamespacesOnly
  BY DEF DashInv, BoxRight, ChosenNamespacesOnly, RecentUpdates, ResourceCounts, Passing
<1> QED
  BY <1>1, <1>2, <1>3

-----------------------------------------------------------------------------
(* The access of the user.                                                 *)

\* The levels whose answers cover a resource.
LevelsFor(r) == {<<"kind">>, NamespaceKey(r), <<"object", r>>}

\* A review whose "no" is cached was not told that a resource it covers is granted.
CachedAsTold ==
  /\ seen \in [Levels -> SUBSET Space]
  /\ \A r \in Item : \A l \in LevelsFor(r) : perms[l] = "no" => SpaceOf[r] \notin seen[l]

AccessInv == AccessTypeOK /\ CachedAsTold /\ PermittedIsOffered

\* A review says "no" of the level of a resource only where the roles do not grant it.
LEMMA LevelsOf ==
  ASSUME NEW r \in Item, NEW granted \in SUBSET Space
  PROVE  /\ LevelsFor(r) \subseteq Levels
         /\ \A l \in LevelsFor(r) : Review(l, granted) = "no" => SpaceOf[r] \notin granted
<1>1. SpaceOf[r] \in Space
  BY AccessAssumption DEF AccessAssumption
<1>2. LevelsFor(r) \subseteq Levels
  BY <1>1 DEF Levels, LevelsFor, NamespaceKey, SpaceLevel
<1>3. Review(<<"object", r>>, granted) = IF SpaceOf[r] \in granted THEN "yes" ELSE "no"
  BY DEF Review
<1>4. Review(NamespaceKey(r), granted) = IF SpaceOf[r] \in granted THEN "yes" ELSE "no"
  BY DEF Review, NamespaceKey, SpaceLevel
<1>5. Review(<<"kind">>, granted) = IF granted # {} THEN "yes" ELSE "no"
  BY DEF Review
<1> QED
  BY <1>2, <1>3, <1>4, <1>5 DEF LevelsFor

\* The level of an object's review names that object.
LEMMA ObjectLevel ==
  ASSUME NEW l \in Levels, l[1] = "object"
  PROVE  l[2] \in Item /\ l \in LevelsFor(l[2])
<1>1. PICK r \in Item : l = <<"object", r>>
  BY DEF Levels
<1> QED
  BY <1>1 DEF LevelsFor

\* What the cache says of an object is the answer of a level that covers it.
LEMMA CachedRight ==
  ASSUME AccessInv, NEW r \in Item
  PROVE  /\ Cached(r) \in Answer /\ seen[CachedLevel(r)] \in SUBSET Space
         /\ Cached(r) = "no" => SpaceOf[r] \notin seen[CachedLevel(r)]
<1>1. CachedLevel(r) \in LevelsFor(r)
  BY DEF CachedLevel, LevelsFor
<1>2. CachedLevel(r) \in Levels
  BY <1>1, LevelsOf
<1> QED
  BY <1>1, <1>2 DEF Cached, AccessInv, AccessTypeOK, CachedAsTold

AccessOf == [of : Item \cup {NoItem}, answer : Answer, told : SUBSET Space]

\* Nothing is cached or offered at first.
LEMMA AccessStart == AccessInit => AccessInv
<1> SUFFICES ASSUME AccessInit PROVE AccessInv
  OBVIOUS
<1>1. AccessTypeOK
  BY DEF AccessInit, AccessTypeOK, NoAccess, Answer
<1>2. CachedAsTold
  BY <1>1, LevelsOf DEF AccessInit, CachedAsTold
<1>3. PermittedIsOffered
  BY DEF AccessInit, PermittedIsOffered, NoAccess
<1> QED
  BY <1>1, <1>2, <1>3 DEF AccessInv

\* Asking for the access to an object keeps what is offered right.
LEMMA AccessAsked ==
  ASSUME AccessInv, NEW r \in Item, GetObjectAccess(r), UNCHANGED <<perms, seen>>,
         Cached(r) = "none" => pageAccess' \in AccessOf /\ PermittedIsOffered'
  PROVE  /\ reviewTimers' \subseteq Levels /\ reviews' \subseteq Levels /\ pageAccess' \in AccessOf
         /\ awaits' \subseteq Item /\ CachedAsTold' /\ PermittedIsOffered'
<1>1. CachedAsTold'
  BY DEF AccessInv, CachedAsTold
<1>2. CASE Cached(r) # "none"
  <2>1. /\ pageAccess' = [of |-> r, answer |-> Cached(r), told |-> seen[CachedLevel(r)]]
        /\ UNCHANGED <<reviewTimers, reviews, awaits>>
    BY <1>2 DEF GetObjectAccess
  <2>2. pageAccess' \in AccessOf /\ PermittedIsOffered'
    BY <2>1, CachedRight DEF AccessOf, PermittedIsOffered
  <2> QED
    BY <1>1, <2>1, <2>2 DEF AccessInv, AccessTypeOK
<1>3. CASE Cached(r) = "none"
  <2>1. /\ reviewTimers' = reviewTimers \union {<<"kind">>, NamespaceKey(r)} /\ reviews' = reviews \union {<<"object", r>>}
        /\ awaits' = awaits \union {r}
    BY <1>3 DEF GetObjectAccess
  <2>2. LevelsFor(r) \subseteq Levels
    BY LevelsOf
  <2> QED
    BY <1>1, <1>3, <2>1, <2>2 DEF AccessInv, AccessTypeOK, LevelsFor
<1> QED
  BY <1>2, <1>3

\* Every step of the access keeps the invariant, whatever order the reviews are answered in.
LEMMA AccessStep == AccessInv /\ [AccessNext]_accessVars => AccessInv'
<1> SUFFICES ASSUME AccessInv, [AccessNext]_accessVars PROVE AccessInv'
  OBVIOUS
<1> USE DEF AccessInv
<1>0. /\ NoItem \notin Item /\ NoAccess \in AccessOf /\ pageAccess \in AccessOf /\ NoAccess.answer = "none"
      /\ UNCHANGED <<perms, seen>> => CachedAsTold'
      /\ UNCHANGED pageAccess => PermittedIsOffered'
      /\ pageAccess' = NoAccess => PermittedIsOffered'
  BY AccessAssumption DEF AccessAssumption, CachedAsTold, PermittedIsOffered, NoAccess, Answer, AccessOf, AccessTypeOK
<1>1. ASSUME NEW r \in Item, ShowResource(r) PROVE AccessInv'
  <2>1. Cached(r) = "none" => pageAccess' \in AccessOf /\ PermittedIsOffered'
    BY <1>0, <1>1 DEF ShowResource
  <2> QED
    BY <1>1, <2>1, AccessAsked DEF ShowResource, AccessTypeOK, AccessOf
<1>2. CASE ReceivePageProps
  <2>1. pageItem \in Item
    BY <1>2 DEF ReceivePageProps, AccessTypeOK
  <2>2. Cached(pageItem) = "none" => pageAccess' \in AccessOf /\ PermittedIsOffered'
    BY <1>0, <1>2 DEF ReceivePageProps
  <2> QED
    BY <1>2, <2>1, <2>2, AccessAsked DEF ReceivePageProps, AccessTypeOK, AccessOf
<1>3. CASE LeaveAccessPage
  BY <1>0, <1>3 DEF LeaveAccessPage, AccessTypeOK, AccessOf
<1>4. CASE CloseDialog
  BY <1>0, <1>4 DEF CloseDialog, AccessTypeOK
<1>5. CASE ConfirmDialog
  BY <1>0, <1>5 DEF ConfirmDialog, AccessTypeOK
<1>6. CASE NewEvaluator
  <2>1. AccessTypeOK'
    BY <1>0, <1>6 DEF NewEvaluator, AccessTypeOK, Answer, AccessOf
  <2>2. CachedAsTold'
    <3>1. \A r \in Item : LevelsFor(r) \subseteq Levels
      BY LevelsOf
    <3>2. \A r \in Item : LevelsFor(r)' = LevelsFor(r)
      BY DEF LevelsFor, NamespaceKey, SpaceLevel
    <3> QED
      BY <1>6, <3>1, <3>2 DEF NewEvaluator, CachedAsTold
  <2>3. PermittedIsOffered'
    BY <1>0, <1>6 DEF NewEvaluator
  <2> QED
    BY <2>1, <2>2, <2>3
<1>7. ASSUME NEW l \in Levels, TimerFires(l) PROVE AccessInv'
  BY <1>0, <1>7 DEF TimerFires, AccessTypeOK
<1>8. ASSUME NEW l \in Levels, NEW outcome \in {"reviewed", "unknown", "refused"}, NEW granted \in SUBSET Space,
             ReviewAnswered(l, outcome, granted)
      PROVE  AccessInv'
  <2> DEFINE a == IF outcome = "reviewed" THEN Review(l, granted) ELSE "no"
             saw == IF outcome = "reviewed" /\ a = "no" THEN granted ELSE {}
  <2>1. a \in Answer /\ saw \in SUBSET Space
    BY DEF Review, Answer
  <2>2. \A r \in Item : l \in LevelsFor(r) /\ a = "no" => SpaceOf[r] \notin saw
    BY LevelsOf
  <2>3. /\ reviews' = reviews \ {l} /\ UNCHANGED <<reviewTimers, pageItem, dialog>>
        /\ IF outcome = "refused" THEN UNCHANGED <<perms, seen>>
           ELSE perms' = [perms EXCEPT ![l] = a] /\ seen' = [seen EXCEPT ![l] = saw]
        /\ IF l[1] = "object"
           THEN /\ pageAccess' = IF l[2] \in awaits THEN [of |-> l[2], answer |-> a, told |-> saw] ELSE pageAccess
                /\ awaits' = awaits \ {l[2]}
           ELSE UNCHANGED <<pageAccess, awaits>>
    BY <1>8 DEF ReviewAnswered
  <2> HIDE DEF a, saw
  <2>4. perms' \in [Levels -> Answer] /\ CachedAsTold'
    <3>1. CASE outcome = "refused"
      BY <1>0, <2>3, <3>1 DEF AccessTypeOK
    <3>2. CASE outcome # "refused"
      <4>1. perms' = [perms EXCEPT ![l] = a] /\ seen' = [seen EXCEPT ![l] = saw]
        BY <2>3, <3>2
      <4>2. perms' \in [Levels -> Answer] /\ seen' \in [Levels -> SUBSET Space]
        BY <2>1, <4>1 DEF AccessTypeOK, CachedAsTold
      <4>3. ASSUME NEW r \in Item, NEW m \in LevelsFor(r), perms'[m] = "no" PROVE SpaceOf[r] \notin seen'[m]
        <5>1. m \in Levels
          BY LevelsOf
        <5>2. CASE m = l
          BY <2>2, <4>1, <4>3, <5>1, <5>2 DEF AccessTypeOK, CachedAsTold
        <5>3. CASE m # l
          BY <4>1, <4>3, <5>1, <5>3 DEF AccessTypeOK, CachedAsTold
        <5> QED
          BY <5>2, <5>3
      <4>4. \A r \in Item : LevelsFor(r)' = LevelsFor(r)
        BY DEF LevelsFor, NamespaceKey, SpaceLevel
      <4> QED
        BY <4>2, <4>3, <4>4 DEF CachedAsTold
    <3> QED
      BY <3>1, <3>2
  <2>5. pageAccess' \in AccessOf /\ awaits' \subseteq Item /\ PermittedIsOffered'
    <3>1. CASE UNCHANGED pageAccess
      BY <1>0, <2>3, <3>1 DEF AccessTypeOK
    <3>2. CASE l[1] = "object" /\ pageAccess' = [of |-> l[2], answer |-> a, told |-> saw] /\ awaits' = awaits \ {l[2]}
      <4>1. l[2] \in Item /\ l \in LevelsFor(l[2])
        BY <3>2, ObjectLevel
      <4> QED
        BY <2>1, <2>2, <3>2, <4>1 DEF AccessOf, PermittedIsOffered, AccessTypeOK
    <3> QED
      BY <2>3, <3>1, <3>2
  <2> QED
    BY <2>3, <2>4, <2>5 DEF AccessTypeOK, AccessOf, CachedAsTold
<1>9. ASSUME NEW action \in {"scale", "delete"}, OpenDialog(action) PROVE AccessInv'
  BY <1>0, <1>9 DEF OpenDialog, AccessTypeOK
<1>10. CASE UNCHANGED accessVars
  BY <1>0, <1>10 DEF accessVars, AccessTypeOK
<1>11. {} \in SUBSET Space
  OBVIOUS
<1> QED
  BY <1>1, <1>2, <1>3, <1>4, <1>5, <1>6, <1>7, <1>8, <1>9, <1>10, <1>11 DEF AccessNext

-----------------------------------------------------------------------------
(* The permissions pane.                                                   *)

\* The sets of subjects of bindings have subjects for elements.
LEMMA SubjectsOf == \A ss \in SubjectSets : ss \subseteq BoundSubject
BY DEF SubjectSets, kSubset

BindingTypes == [role : Role, subjects : SubjectSets, live : BOOLEAN]

\* The types of the permissions pane are kept by every step.
LEMMA PermissionsStep == PermissionsTypeOK /\ [PermissionsNext]_permissionVars => PermissionsTypeOK'
<1> SUFFICES ASSUME PermissionsTypeOK, [PermissionsNext]_permissionVars PROVE PermissionsTypeOK'
  OBVIOUS
<1> USE DEF PermissionsTypeOK
<1>1. ASSUME NEW b \in Binding, NEW r \in Role, NEW ss \in SubjectSets, PutBinding(b, r, ss) PROVE PermissionsTypeOK'
  BY <1>1, SubjectsOf DEF PutBinding
<1>2. ASSUME NEW r \in Role, PutRole(r) \/ RemoveRole(r) \/ ViewRole(r) PROVE PermissionsTypeOK'
  BY <1>2 DEF PutRole, RemoveRole, ViewRole
<1>3. ASSUME NEW b \in Binding, RemoveBinding(b) PROVE PermissionsTypeOK'
  <2>1. bindings[b] \in BindingTypes
    BY <1>3 DEF RemoveBinding, BindingTypes
  <2>2. bindings' = [bindings EXCEPT ![b] = [bindings[b] EXCEPT !.live = FALSE]]
    BY <1>3 DEF RemoveBinding
  <2>3. [bindings[b] EXCEPT !.live = FALSE] \in BindingTypes
    BY <2>1 DEF BindingTypes
  <2> QED
    BY <1>3, <2>2, <2>3 DEF RemoveBinding, BindingTypes
<1>7. ASSUME NEW b \in Binding, ViewBinding(b) PROVE PermissionsTypeOK'
  BY <1>7 DEF ViewBinding
<1>4. ASSUME NEW s \in BoundSubject, SetSubject(s) \/ ViewAccount(s) PROVE PermissionsTypeOK'
  BY <1>4 DEF SetSubject, ViewAccount
<1>5. CASE ClearSubject
  BY <1>5 DEF ClearSubject
<1>6. CASE UNCHANGED permissionVars
  BY <1>6 DEF permissionVars
<1> QED
  BY <1>1, <1>2, <1>3, <1>4, <1>5, <1>6, <1>7 DEF PermissionsNext

\* A binding is matched field by field exactly when it names the subject.
LEMMA BindsIfNamed ==
  ASSUME PermissionsTypeOK, NEW b \in Binding, bindings[b] # None, NEW subject \in BoundSubject
  PROVE  BindsToSubject(b, subject) <=> subject \in bindings[b].subjects
<1>1. bindings[b].subjects \subseteq BoundSubject
  BY SubjectsOf DEF PermissionsTypeOK
<1> QED
  BY <1>1, SubjectAssumption DEF BindsToSubject, NameOf, SubjectAssumption

\* The rules under a binding of a role that is there are those of a ClusterRole, each once.
LEMMA RulesUnder ==
  ASSUME NEW b \in Binding, roles[bindings[b].role] = "live", NEW rule
  PROVE  ConvertRule(rule, SpaceOfBinding[b]) \in RulesOf(b)
           <=> SpaceOfRole[bindings[b].role] = Everywhere /\ rule \in Rules[bindings[b].role]
<1>1. \A x : ConvertRule(rule, SpaceOfBinding[b]) = ConvertRule(x, SpaceOfBinding[b]) => rule = x
  BY DEF ConvertRule
<1> QED
  BY <1>1 DEF RulesOf

\* What the pane of a subject lists is what the cluster grants it.
LEMMA PermissionsRight == PermissionsTypeOK => ShownAsGranted
<1> SUFFICES ASSUME PermissionsTypeOK, pane # None, pane.by = "subject" PROVE ListedGrants = Granted(pane.of)
  BY DEF ShownAsGranted
<1>1. pane.of \in BoundSubject
  BY DEF PermissionsTypeOK
<1> DEFINE Bound == {c \in Binding : bindings[c] # None /\ BindsToSubject(c, pane.of)}
           G == [binding : Binding, rule : UNION {Rules[r] : r \in Role}]
<1>2. Permissions = {[binding |-> b, rules |-> RulesOf(b)] : b \in Bound}
  BY DEF Permissions, GetPermissions
<1>3. ASSUME NEW g \in G, bindings[g.binding] # None, roles[bindings[g.binding].role] = "live"
      PROVE  (\E p \in Permissions : p.binding = g.binding /\ ConvertRule(g.rule, SpaceOfBinding[g.binding]) \in p.rules)
               <=> /\ pane.of \in bindings[g.binding].subjects
                   /\ SpaceOfRole[bindings[g.binding].role] = Everywhere /\ g.rule \in Rules[bindings[g.binding].role]
  <2>1. g.binding \in Binding
    OBVIOUS
  <2>2. (\E p \in Permissions : p.binding = g.binding /\ ConvertRule(g.rule, SpaceOfBinding[g.binding]) \in p.rules)
          <=> g.binding \in Bound /\ ConvertRule(g.rule, SpaceOfBinding[g.binding]) \in RulesOf(g.binding)
    <3> DEFINE x == ConvertRule(g.rule, SpaceOfBinding[g.binding])
    <3> HIDE DEF x, Bound
    <3>1. ASSUME NEW p \in Permissions, p.binding = g.binding, x \in p.rules
          PROVE  g.binding \in Bound /\ x \in RulesOf(g.binding)
      <4>1. PICK b \in Bound : p = [binding |-> b, rules |-> RulesOf(b)]
        BY <1>2
      <4> QED
        BY <3>1, <4>1
    <3>2. ASSUME g.binding \in Bound, x \in RulesOf(g.binding)
          PROVE  \E p \in Permissions : p.binding = g.binding /\ x \in p.rules
      <4>1. [binding |-> g.binding, rules |-> RulesOf(g.binding)] \in Permissions
        BY <1>2, <3>2
      <4> QED
        BY <3>2, <4>1
    <3> QED
      BY <3>1, <3>2 DEF x
  <2>3. g.binding \in Bound <=> pane.of \in bindings[g.binding].subjects
    BY <1>1, <1>3, <2>1, BindsIfNamed
  <2> QED
    BY <1>3, <2>1, <2>2, <2>3, RulesUnder
<1>4. \A g \in G : g \in ListedGrants <=> g \in Granted(pane.of)
  BY <1>3 DEF ListedGrants, Granted, ConvertRule
<1>5. ListedGrants \subseteq G /\ Granted(pane.of) \subseteq G
  BY DEF ListedGrants, Granted
<1> QED
  BY <1>4, <1>5

-----------------------------------------------------------------------------
(* The editor.                                                             *)

\* A text that a model accepts or that names no kind, without variables.
Accepted(t) == t # Empty => t.fault \in {"none", "kindless"}

CheckOf == [to : EditKey \cup {"new"}, text : Texts \cup {Empty}, hand : Texts \cup {Empty},
            here : BOOLEAN, typed : BOOLEAN]

\* A validation is that of the page that is there, unless that is gone, and hands over what it validates until the user types on.
ChecksRight(cs, p) ==
  /\ cs \subseteq CheckOf
  /\ \A c \in cs : c.here => c.to = p
  /\ \A c \in cs : c.to = "new" /\ ~c.typed => c.hand = c.text /\ Accepted(c.text)

\* What was typed is in an editor that is open, and the page of a new resource holds the same text as its editor.
EditorInv ==
  /\ EditorTypeOK
  /\ TypedTextKept
  /\ page = "new" => text = newText
  /\ ChecksRight(checks, page)
  /\ CreatedAsValidated

\* No page is open at first.
LEMMA EditorStart == EditorInit => EditorInv
BY DEF EditorInit, EditorInv, EditorTypeOK, CreatedAsValidated, TypedTextKept, ChecksRight

\* The validations that follow a text of the page stay right when the user typed it, or the page is that of a resource.
LEMMA FollowingRight ==
  ASSUME ChecksRight(checks, page), NEW t \in Texts \cup {Empty}, NEW b \in BOOLEAN, b \/ page # "new"
  PROVE  ChecksRight(Following(t, b), page)
<1>1. ASSUME NEW c \in Following(t, b)
      PROVE  \E d \in checks : /\ c \in CheckOf /\ c.to = d.to /\ c.text = d.text /\ c.here = d.here
                               /\ c.hand = (IF d.here THEN t ELSE d.hand) /\ c.typed = (d.typed \/ (b /\ d.here))
  <2>1. PICK d \in checks : c = [d EXCEPT !.hand = IF d.here THEN t ELSE @, !.typed = @ \/ (b /\ d.here)]
    BY DEF Following
  <2>2. d \in CheckOf
    BY DEF ChecksRight
  <2> QED
    BY <2>1, <2>2 DEF CheckOf
<1>2. ASSUME NEW c \in Following(t, b), c.here PROVE c.to = page
  BY <1>1, <1>2 DEF ChecksRight
<1>3. ASSUME NEW c \in Following(t, b), c.to = "new", ~c.typed PROVE c.hand = c.text /\ Accepted(c.text)
  <2>1. PICK d \in checks : /\ c.to = d.to /\ c.text = d.text
                            /\ c.hand = (IF d.here THEN t ELSE d.hand) /\ c.typed = (d.typed \/ (b /\ d.here))
    BY <1>1
  <2>2. ~d.typed /\ (b => ~d.here)
    BY <1>3, <2>1, Zenon
  <2>3. ~d.here
    BY <1>3, <2>1, <2>2 DEF ChecksRight
  <2> QED
    BY <1>3, <2>1, <2>2, <2>3 DEF ChecksRight
<1> QED
  BY <1>1, <1>2, <1>3 DEF ChecksRight

\* The properties of the editor change: a text is kept while the editor is open and forgotten when it is closed.
LEMMA PropsReceived ==
  ASSUME EditorInv, ReceiveProps, UNCHANGED <<page, newText, access>>, mine' \in {mine, Empty}, sent' = {},
         contents' \in Texts \cup {Empty}, editedResource' \in EditKey \cup {NoEditKey}, templates' \subseteq Texts
  PROVE  EditorInv'
<1> DEFINE open == IsOpen(page, editing', contents', editedResource')
<1>0. CreatedAsValidated' /\ mine' \in Texts \cup {Empty}
  BY DEF CreatedAsValidated, EditorInv, EditorTypeOK
<1>1. CASE page = "none"
  <2>1. UNCHANGED <<text, validator, asked, checks, emptied>>
    BY <1>1 DEF ReceiveProps
  <2>2. ~Opened
    BY <1>1, EditorAssumption DEF Opened, IsOpen, EditorAssumption
  <2>3. TypedTextKept'
    BY <1>1, <2>1, <2>2 DEF EditorInv, TypedTextKept
  <2>4. ChecksRight(checks', page')
    BY <2>1 DEF EditorInv
  <2>5. EditorTypeOK'
    BY <1>0, <2>1 DEF EditorInv, EditorTypeOK
  <2>6. page' # "new"
    BY <1>1
  <2> QED
    BY <1>0, <2>3, <2>4, <2>5, <2>6 DEF EditorInv
<1>2. CASE page # "none"
  <2>1. /\ text' = DoReceiveContents(text, Given(page, contents', newText), open)
        /\ validator' = IF swagger' /\ validator = "none"
                        THEN (IF page = "new" THEN NoEditKey ELSE editedResource') ELSE validator
        /\ checks' = IF page = "new" THEN checks ELSE Following(text', FALSE)
        /\ emptied' = (mine' # Empty /\ (emptied \/ ~open))
    BY <1>2 DEF ReceiveProps
  <2>2. Opened' = open
    BY DEF Opened
  <2>3. page = "new" => open
    BY DEF IsOpen
  <2> HIDE DEF open
  <2>4. text' \in Texts \cup {Empty}
    BY <2>1 DEF EditorInv, EditorTypeOK, DoReceiveContents, Given
  <2>5. ChecksRight(checks', page')
    BY <2>1, <2>4, FollowingRight DEF EditorInv
  <2>6. EditorTypeOK'
    BY <1>0, <2>1, <2>4, <2>5 DEF EditorInv, EditorTypeOK, ChecksRight, CheckOf
  <2>7. TypedTextKept'
    BY <2>1, <2>2 DEF EditorInv, TypedTextKept, DoReceiveContents
  <2>8. page' = "new" => text' = newText'
    BY <2>1, <2>3 DEF EditorInv, DoReceiveContents, Given
  <2> QED
    BY <1>0, <2>5, <2>6, <2>7, <2>8 DEF EditorInv
<1> QED
  BY <1>1, <1>2

\* Every step of the editor keeps the invariant.
LEMMA EditorStep == EditorInv /\ [EditorNext]_editorVars => EditorInv'
<1> SUFFICES ASSUME EditorInv, [EditorNext]_editorVars PROVE EditorInv'
  OBVIOUS
<1>0. /\ contents \in Texts \cup {Empty} /\ editedResource \in EditKey \cup {NoEditKey} /\ templates \subseteq Texts
      /\ page \in EditKey \cup {"new", "none"} /\ EditorTypeOK /\ Templates \subseteq Texts
  BY DEF EditorInv, EditorTypeOK, Templates
<1>1. ASSUME NEW p \in PageKey \cup {"new"}, NEW view \in BOOLEAN, OpenPage(p, view /\ p # "new") PROVE EditorInv'
  <2>0. p \in EditKey \cup {"new"}
    BY <1>1, EditorAssumption
  <2>1. mine' = mine /\ emptied' = emptied /\ page = "none" /\ page' = p /\ checks' = checks /\ sent' = {}
    BY <1>1 DEF OpenPage
  <2>2. ChecksRight(checks', page')
    <3>1. ASSUME NEW c \in checks PROVE ~c.here
      <4>1. c.to \in EditKey \cup {"new"} /\ (c.here => c.to = page)
        BY DEF EditorInv, ChecksRight, CheckOf
      <4> QED
        BY <2>1, <4>1, EditorAssumption DEF EditorAssumption
    <3> QED
      BY <2>1, <3>1 DEF EditorInv, ChecksRight
  <2>3. EditorTypeOK'
    BY <1>0, <1>1, <2>0, <2>1 DEF OpenPage, EditorTypeOK, Given
  <2>4. TypedTextKept' /\ CreatedAsValidated'
    <3>1. ~Opened
      BY <2>1, EditorAssumption DEF Opened, IsOpen, EditorAssumption
    <3> QED
      BY <2>1, <3>1 DEF EditorInv, TypedTextKept, CreatedAsValidated
  <2> QED
    BY <1>1, <2>1, <2>2, <2>3, <2>4 DEF OpenPage, EditorInv, Given
<1>2. CASE ClosePage
  <2>1. ASSUME NEW c \in checks'
        PROVE  /\ c \in CheckOf /\ ~c.here
               /\ c.to = "new" /\ ~c.typed => c.hand = c.text /\ Accepted(c.text)
    <3>1. PICK d \in checks : c = [d EXCEPT !.here = FALSE]
      BY <1>2 DEF ClosePage
    <3>2. d \in CheckOf
      BY DEF EditorInv, ChecksRight
    <3>3. c \in CheckOf /\ ~c.here /\ c.to = d.to /\ c.typed = d.typed /\ c.hand = d.hand /\ c.text = d.text
      BY <3>1, <3>2 DEF CheckOf
    <3>4. d.to = "new" /\ ~d.typed => d.hand = d.text /\ Accepted(d.text)
      BY DEF EditorInv, ChecksRight
    <3> QED
      BY <3>3, <3>4
  <2>2. ChecksRight(checks', page')
    BY <2>1 DEF ChecksRight
  <2>3. \A c \in checks' : c.to \in EditKey \cup {"new"} /\ {c.text, c.hand} \subseteq Texts \cup {Empty}
    BY <2>1 DEF CheckOf
  <2>4. EditorTypeOK'
    BY <1>0, <1>2, <2>3 DEF ClosePage, EditorTypeOK
  <2>5. CreatedAsValidated' /\ TypedTextKept' /\ page' # "new"
    BY <1>2 DEF ClosePage, CreatedAsValidated, TypedTextKept
  <2> QED
    BY <2>2, <2>4, <2>5 DEF EditorInv
<1>3. CASE SelectView
  BY <1>0, <1>3, PropsReceived DEF SelectView
<1>4. CASE TryGoBack
  BY <1>0, <1>4, PropsReceived DEF TryGoBack
<1>5. CASE EnsureEdited
  BY <1>0, <1>5, PropsReceived DEF EnsureEdited
<1>6. ASSUME NEW c \in Stored \cup {Empty}, NEW selects \in BOOLEAN, ReceiveStoreContents(c, selects) PROVE EditorInv'
  <2>1. c \in Texts \cup {Empty} /\ (c # Empty => c.key \in EditKey)
    BY EditorAssumption DEF Stored, EditorAssumption
  <2> QED
    BY <1>0, <1>6, <2>1, PropsReceived DEF ReceiveStoreContents
<1>7. CASE ReceiveSwagger
  BY <1>0, <1>7, PropsReceived DEF ReceiveSwagger
<1>8. CASE ReceiveTemplates
  BY <1>0, <1>8, PropsReceived DEF ReceiveTemplates
<1>9. ASSUME NEW a \in {"edit", "view"}, AccessAnswered(a) PROVE EditorInv'
  BY <1>9 DEF AccessAnswered, EditorInv, EditorTypeOK, CreatedAsValidated, TypedTextKept, Opened
<1>10. ASSUME NEW t \in Texts \cup {Empty}, Opened, OnChange(t) PROVE EditorInv'
  <2>1. checks' = Following(t, TRUE) /\ UNCHANGED page /\ sent' = {} /\ mine' = t /\ text' = t /\ emptied' = FALSE
    BY <1>10 DEF OnChange
  <2>2. ChecksRight(checks', page')
    BY <2>1, FollowingRight DEF EditorInv
  <2>3. \A c \in checks' : c.to \in EditKey \cup {"new"} /\ {c.text, c.hand} \subseteq Texts \cup {Empty}
    BY <2>2 DEF ChecksRight, CheckOf
  <2>4. TypedTextKept' /\ CreatedAsValidated'
    BY <1>10, <2>1 DEF OnChange, TypedTextKept, CreatedAsValidated, Opened
  <2>5. EditorTypeOK'
    BY <1>0, <1>10, <2>1, <2>3 DEF OnChange, EditorTypeOK
  <2> QED
    BY <1>10, <2>1, <2>2, <2>4, <2>5 DEF OnChange, EditorInv
<1>11. CASE ApplyChanges
  <2> DEFINE check == [to |-> page, text |-> text, here |-> TRUE, typed |-> FALSE, hand |-> IF page = "new" THEN newText ELSE text]
  <2>1. checks' = {check} /\ sent' = {} /\ ~Validate(text, TRUE)
        /\ UNCHANGED <<page, editing, contents, editedResource, swagger, templates, text, newText, validator, access, mine, emptied>>
    BY <1>11 DEF ApplyChanges
  <2>2. text \in Texts \cup {Empty} /\ newText \in Texts \cup {Empty} /\ page \in EditKey \cup {"new"}
    BY <1>0, <1>11, EditorAssumption DEF EditorTypeOK, ApplyChanges, Opened, IsOpen, EditorAssumption
  <2>3. page = "new" => newText = text /\ Accepted(text)
    <3>1. page = "new" => newText = text
      BY DEF EditorInv
    <3>2. ASSUME page = "new", text # Empty PROVE text.fault \in {"none", "kindless"}
      <4>1. text.fault # "variables" /\ text.fault # "invalid"
        BY <2>1, <3>2 DEF Validate, TestVariables, VariablesIn
      <4>2. text.fault \in {"none", "variables", "invalid", "kindless"}
        BY <2>2, <3>2, EditorAssumption DEF EditorAssumption, Faults
      <4> QED
        BY <4>1, <4>2
    <3> QED
      BY <3>1, <3>2 DEF Accepted
  <2>4. check \in CheckOf /\ check.to = page /\ check.text = text /\ (page = "new" => check.hand = text)
    BY <2>2, <2>3 DEF CheckOf
  <2> HIDE DEF check
  <2>5. ChecksRight(checks', page')
    BY <2>1, <2>3, <2>4 DEF ChecksRight
  <2>6. \A c \in checks' : c.to \in EditKey \cup {"new"} /\ {c.text, c.hand} \subseteq Texts \cup {Empty}
    BY <2>5 DEF ChecksRight, CheckOf
  <2> QED
    BY <1>0, <2>1, <2>5, <2>6 DEF EditorInv, EditorTypeOK, CreatedAsValidated, TypedTextKept, Opened
<1>12. CASE UNCHANGED editorVars
  BY <1>12 DEF editorVars, EditorInv, EditorTypeOK, CreatedAsValidated, TypedTextKept, Opened, ChecksRight
<1>13. ASSUME NEW t \in Texts \cup {Empty}, HandleEditorChange(t) PROVE EditorInv'
  BY <1>10, <1>13 DEF HandleEditorChange
<1>14. ASSUME NEW t \in Templates, OnApplyTemplate(t) PROVE EditorInv'
  BY <1>0, <1>10, <1>14 DEF OnApplyTemplate, Opened, IsOpen
<1>15. CASE Validated
  <2>1. ASSUME NEW s \in sent'
        PROVE  /\ s.to \in EditKey \cup {"new"} /\ {s.text, s.checked} \subseteq Texts \cup {Empty}
               /\ s.to = "new" /\ ~s.typed => s.text = s.checked /\ Accepted(s.text)
    <3>1. PICK c \in checks : s = [to |-> c.to, checked |-> c.text, text |-> c.hand, typed |-> c.typed]
      BY <1>15 DEF Validated
    <3>2. c \in CheckOf /\ (c.to = "new" /\ ~c.typed => c.hand = c.text /\ Accepted(c.text))
      BY DEF EditorInv, ChecksRight
    <3>3. s.to = c.to /\ s.checked = c.text /\ s.text = c.hand /\ s.typed = c.typed
      BY <3>1
    <3> QED
      BY <3>2, <3>3 DEF CheckOf
  <2>2. CreatedAsValidated'
    BY <2>1 DEF CreatedAsValidated, Accepted
  <2>3. checks' = {} /\ UNCHANGED <<page, editing, contents, editedResource, swagger, templates, text, newText, validator, access, asked, mine, emptied>>
    BY <1>15 DEF Validated
  <2>4. EditorTypeOK'
    BY <1>0, <2>1, <2>3 DEF EditorTypeOK
  <2> QED
    BY <2>2, <2>3, <2>4 DEF EditorInv, TypedTextKept, Opened, ChecksRight
<1>16. CASE RenderAgain
  BY <1>0, <1>16, PropsReceived DEF RenderAgain
<1> QED
  BY <1>1, <1>2, <1>3, <1>4, <1>5, <1>6, <1>7, <1>8, <1>9, <1>11, <1>12, <1>13, <1>14, <1>15, <1>16 DEF EditorNext

-----------------------------------------------------------------------------
(* The contents of resources.                                              *)

\* The name under which the request of an operation runs.
NameFor(op) ==
  CASE op \in {"scale", "detach"} -> "resource.contents" [] op = "edit" -> "resources.current" [] OTHER -> "resources.contents"

RequestOf == [verb : {"GET", "PATCH"}, of : Thing, body : [of : Thing, value : Value] \cup {NoContents}, waiters : SUBSET Nat]

\* The calls that wait for a request: of its name, not ended; a scale that came alone is its first, unless its patch was sent.
WaitersRight ==
  \A n \in RequestName : flight[n] # NoRequest =>
    /\ flight[n] \in RequestOf
    /\ \A c \in flight[n].waiters :
         /\ c \in DOMAIN calls /\ calls[c].stage # "ended" /\ NameFor(calls[c].op) = n
         /\ calls[c].op = "scale" /\ calls[c].alone /\ ~calls[c].sent =>
              /\ flight[n].verb = "GET" /\ flight[n].of = calls[c].of /\ calls[c].stage = "contents"
              /\ \A d \in flight[n].waiters : c <= d

\* What a patch on its way, or a call, carries for a resource was asked for that resource.
AskedFor ==
  /\ \A c \in DOMAIN calls : calls[c].op = "scale" => calls[c].of \in Workload /\ calls[c].want \in written[calls[c].of]
  /\ \A n \in RequestName : flight[n] # NoRequest /\ flight[n].verb = "PATCH" =>
       /\ flight[n].body \in [of : Thing, value : Value]
       /\ flight[n].body.of = flight[n].of => flight[n].body.value \in written[flight[n].of]

ContentsKept ==
  /\ cluster \in [Thing -> Value \cup {Gone}] /\ store \in [Thing -> Value \cup {Gone}]
  /\ written \in [Thing -> SUBSET (Value \cup {Gone})]
  /\ \A r \in Thing : {cluster[r], store[r], Gone, IF r \in Pod THEN Owned ELSE 0} \subseteq written[r]

ContentsInv ==
  /\ calls \in Seq(Call) /\ editor \in [of : Thing, value : Value] \cup {NoContents}
  /\ removal \in [asked : SUBSET Thing, open : SUBSET Thing] /\ removal.open \subseteq removal.asked
  /\ DOMAIN flight = RequestName
  /\ ContentsKept /\ WaitersRight /\ AskedFor /\ SoleScaleSent

\* The calls have a first one.
LEMMA FirstOf ==
  ASSUME NEW cs, cs \subseteq Nat, cs # {}
  PROVE  First(cs) \in cs /\ \A d \in cs : First(cs) <= d
<1>1. PICK x \in cs : \A y \in cs : <<y, x>> \notin OpToRel(<, Nat)
  BY WFMin, NatLessThanWellFounded
<1>2. ASSUME NEW y \in Nat, y < x PROVE <<y, x>> \in OpToRel(<, Nat)
  <2>1. x \in Nat /\ <<y, x>> \in Nat \X Nat /\ <<y, x>>[1] = y /\ <<y, x>>[2] = x
    OBVIOUS
  <2> QED
    BY <1>2, <2>1, Zenon DEF OpToRel
<1>3. \A y \in cs : ~(y < x)
  BY <1>1, <1>2, Zenon
<1>4. \A y \in cs : x <= y
  BY <1>3
<1> QED
  BY <1>4 DEF First

\* The names under which operations run.
LEMMA Names == \A op \in {"scale", "detach", "edit", "apply"} : NameFor(op) \in RequestName
BY DEF NameFor, RequestName

\* A workload or pod has its value, everything is unanswered and nothing asked at first.
LEMMA ContentsStart == ContentsInit => ContentsInv
<1> SUFFICES ASSUME ContentsInit PROVE ContentsInv
  OBVIOUS
<1>1. calls \in Seq(Call) /\ DOMAIN calls = {}
  BY EmptySeq DEF ContentsInit
<1>2. editor = NoContents /\ DOMAIN flight = RequestName /\ \A n \in RequestName : flight[n] = NoRequest
  BY DEF ContentsInit
<1>3. removal \in [asked : SUBSET Thing, open : SUBSET Thing] /\ removal.open \subseteq removal.asked
  BY DEF ContentsInit, NoRemoval
<1>4. ContentsKept
  BY DEF ContentsInit, ContentsKept, Value, Thing
<1> QED
  BY <1>1, <1>2, <1>3, <1>4 DEF ContentsInv, WaitersRight, AskedFor, SoleScaleSent

\* A call starts: it asks for its own request, or joins the one in flight after everyone who waits there.
LEMMA CallStarted ==
  ASSUME ContentsInv, NEW op \in {"scale", "detach", "edit", "apply"}, NEW r \in Thing, NEW v \in Value,
         NEW verb \in {"GET", "PATCH"}, NEW body \in [of : Thing, value : Value] \cup {NoContents},
         StartCall(op, r, v, NameFor(op), Fetch(verb, r, body)),
         op = "scale" => verb = "GET" /\ r \in Workload /\ v \in written'[r],
         verb = "PATCH" => body \in [of : Thing, value : Value] /\ (body.of = r => body.value \in written'[r]),
         \A x \in Thing : written[x] \subseteq written'[x], ContentsKept', UNCHANGED <<editor, removal>>
  PROVE  ContentsInv'
<1> DEFINE name == NameFor(op)
           alone == flight[name] = NoRequest
           call == [op |-> op, of |-> r, want |-> v, alone |-> alone, read |-> FALSE,
                    stage |-> IF verb = "GET" THEN "contents" ELSE "patch", sent |-> alone /\ verb = "PATCH"]
           k == Len(calls) + 1
           fresh == [verb |-> verb, of |-> r, body |-> body, waiters |-> {k}]
           joined == [flight[name] EXCEPT !.waiters = @ \union {k}]
<1>1. calls' = Append(calls, call) /\ call \in Call
  BY DEF StartCall, Fetch, Call
<1>2. name \in RequestName
  BY Names
<1> HIDE DEF call, name
<1>3. /\ calls' \in Seq(Call) /\ Len(calls) \in Nat /\ Len(calls') = k /\ k \in Nat
      /\ DOMAIN calls = 1..Len(calls) /\ DOMAIN calls' = 1..k /\ calls'[k] = call
      /\ \A c \in DOMAIN calls : c \in DOMAIN calls' /\ calls'[c] = calls[c] /\ c <= k /\ c \in Nat
  <2>1. calls \in Seq(Call)
    BY DEF ContentsInv
  <2>2. /\ Append(calls, call) \in Seq(Call) /\ Len(Append(calls, call)) = Len(calls) + 1 /\ Len(calls) \in Nat
        /\ Append(calls, call)[Len(calls) + 1] = call /\ DOMAIN calls = 1..Len(calls)
        /\ \A i \in 1..Len(calls) : Append(calls, call)[i] = calls[i]
    BY <1>1, <2>1, AppendProperties, LenProperties
  <2> QED
    BY <1>1, <2>2, LenProperties
<1>4. /\ call.op = op /\ call.of = r /\ call.want = v /\ call.alone = alone /\ ~call.read
      /\ call.stage = (IF verb = "GET" THEN "contents" ELSE "patch") /\ call.sent = (alone /\ verb = "PATCH")
  BY DEF call
<1>5. /\ DOMAIN flight' = RequestName
      /\ \A n \in RequestName : n # name => flight'[n] = flight[n]
      /\ alone => flight'[name] = fresh
      /\ ~alone => flight'[name] = joined
  <2>1. DOMAIN flight = RequestName
    BY DEF ContentsInv
  <2>2. flight' = Requested(flight, name, Fetch(verb, r, body), {k})
    BY <1>3 DEF StartCall, name
  <2>3. [Fetch(verb, r, body) EXCEPT !.waiters = Fetch(verb, r, body).waiters \union {k}] = fresh
    <3> HIDE DEF k
    <3> QED
      BY DEF Fetch
  <2> HIDE DEF fresh, k
  <2>4. CASE alone
    BY <1>2, <2>1, <2>2, <2>3, <2>4 DEF Requested
  <2>5. CASE ~alone
    BY <1>2, <2>1, <2>2, <2>5 DEF Requested
  <2> QED
    BY <2>4, <2>5
<1>6. ASSUME ~alone
      PROVE  /\ flight[name] \in RequestOf /\ joined \in RequestOf /\ joined.verb = flight[name].verb /\ joined.of = flight[name].of
             /\ joined.body = flight[name].body /\ joined.waiters = flight[name].waiters \union {k}
  <2>1. flight[name] \in RequestOf
    BY <1>2, <1>6 DEF ContentsInv, WaitersRight
  <2> QED
    BY <1>3, <2>1 DEF RequestOf
<1>7. WaitersRight'
  <2>1. ASSUME NEW n \in RequestName, n # name, flight[n] # NoRequest
        PROVE  /\ flight'[n] \in RequestOf
               /\ \A c \in flight'[n].waiters :
                    /\ c \in DOMAIN calls' /\ calls'[c].stage # "ended" /\ NameFor(calls'[c].op) = n
                    /\ calls'[c].op = "scale" /\ calls'[c].alone /\ ~calls'[c].sent =>
                         /\ flight'[n].verb = "GET" /\ flight'[n].of = calls'[c].of /\ calls'[c].stage = "contents"
                         /\ \A d \in flight'[n].waiters : c <= d
    BY <1>3, <1>5, <2>1 DEF ContentsInv, WaitersRight
  <2>2. CASE alone
    <3>1. flight'[name] = fresh /\ fresh \in RequestOf /\ fresh.waiters = {k} /\ fresh.verb = verb /\ fresh.of = r
      BY <1>3, <1>5, <2>2 DEF RequestOf
    <3>2. calls'[k].stage # "ended" /\ NameFor(calls'[k].op) = name /\ calls'[k].of = r
          /\ (calls'[k].op = "scale" => verb = "GET" /\ calls'[k].stage = "contents")
      BY <1>3, <1>4 DEF name
    <3> HIDE DEF fresh
    <3> QED
      BY <1>3, <1>5, <2>1, <3>1, <3>2 DEF WaitersRight
  <2>3. CASE ~alone
    <3>1. flight'[name] = joined
      BY <1>5, <2>3
    <3>2. calls'[k].stage # "ended" /\ NameFor(calls'[k].op) = name /\ ~calls'[k].alone /\ k \in DOMAIN calls'
      <4>1. k \in DOMAIN calls' /\ calls'[k] = call
        BY <1>3
      <4> HIDE DEF k
      <4> QED
        BY <1>4, <2>3, <4>1 DEF name
    <3>3. ASSUME NEW c \in flight[name].waiters
          PROVE /\ c \in DOMAIN calls' /\ calls'[c].stage # "ended" /\ NameFor(calls'[c].op) = name
                /\ calls'[c].op = "scale" /\ calls'[c].alone /\ ~calls'[c].sent =>
                     /\ joined.verb = "GET" /\ joined.of = calls'[c].of /\ calls'[c].stage = "contents"
                     /\ \A d \in joined.waiters : c <= d
      BY <1>2, <1>3, <1>6, <2>3 DEF ContentsInv, WaitersRight
    <3> HIDE DEF joined, k
    <3> QED
      BY <1>5, <1>6, <2>1, <2>3, <3>1, <3>2, <3>3 DEF WaitersRight
  <2> QED
    BY <2>2, <2>3
<1>8. AskedFor'
  <2>1. ASSUME NEW c \in DOMAIN calls', calls'[c].op = "scale" PROVE calls'[c].of \in Workload /\ calls'[c].want \in written'[calls'[c].of]
    <3>1. CASE c = k
      BY <1>3, <1>4, <2>1, <3>1
    <3>2. CASE c # k
      <4>1. c \in DOMAIN calls /\ calls'[c] = calls[c]
        BY <1>3, <3>2
      <4> QED
        BY <2>1, <4>1 DEF ContentsInv, AskedFor, Thing
    <3> QED
      BY <3>1, <3>2
  <2>2. ASSUME NEW n \in RequestName, flight'[n] # NoRequest, flight'[n].verb = "PATCH"
        PROVE  /\ flight'[n].body \in [of : Thing, value : Value]
               /\ flight'[n].body.of = flight'[n].of => flight'[n].body.value \in written'[flight'[n].of]
    <3>1. CASE n # name
      <4>1. flight'[n] = flight[n] /\ flight[n].of \in Thing
        BY <1>5, <2>2, <3>1 DEF ContentsInv, WaitersRight, RequestOf
      <4> QED
        BY <2>2, <4>1 DEF ContentsInv, AskedFor
    <3>2. CASE n = name /\ alone
      <4>1. flight'[n].verb = verb /\ flight'[n].of = r /\ flight'[n].body = body
        BY <1>5, <3>2
      <4> QED
        BY <2>2, <4>1
    <3>3. CASE n = name /\ ~alone
      <4>1. flight[n] # NoRequest /\ flight'[n].verb = flight[n].verb /\ flight'[n].of = flight[n].of
            /\ flight'[n].body = flight[n].body /\ flight[n].of \in Thing
        <5>1. flight[name].of \in Thing
          BY <1>6, <3>3 DEF RequestOf
        <5> QED
          BY <1>5, <1>6, <3>3, <5>1
      <4> QED
        BY <2>2, <4>1 DEF ContentsInv, AskedFor
    <3> QED
      BY <3>1, <3>2, <3>3
  <2> QED
    BY <2>1, <2>2 DEF AskedFor
<1>9. SoleScaleSent'
  BY <1>3, <1>4 DEF ContentsInv, SoleScaleSent
<1> QED
  BY <1>3, <1>5, <1>7, <1>8, <1>9 DEF ContentsInv

\* A request ends: those who waited go on, the first of the scales sends the patch that the others join.
LEMMA RequestEnded ==
  ASSUME ContentsInv, NEW name \in RequestName, flight[name] # NoRequest,
         NEW ed \in [of : Thing, value : Value] \cup {NoContents}, Ended(name, ed),
         flight[name].verb = "GET" /\ ed # NoContents => ed.of = flight[name].of,
         ContentsKept', UNCHANGED <<written, removal>>
  PROVE  ContentsInv'
<1> DEFINE scales == Scales(name)
           patches == scales # {} /\ ed # NoContents /\ ed.of \in Workload
           first == calls[First(scales)]
           freed == [flight EXCEPT ![name] = NoRequest]
           patch == [verb |-> "PATCH", of |-> first.of, body |-> [of |-> ed.of, value |-> first.want], waiters |-> scales]
           waits == flight[name].waiters
<1>0. /\ calls \in Seq(Call) /\ DOMAIN calls = 1..Len(calls) /\ Len(calls) \in Nat /\ DOMAIN flight = RequestName
      /\ \A c \in DOMAIN calls : calls[c] \in Call
  BY LenProperties, ElementOfSeq DEF ContentsInv
<1>1. /\ waits \subseteq DOMAIN calls /\ scales \subseteq waits
      /\ \A c \in scales : calls[c].stage = "contents" /\ calls[c].op = "scale"
      /\ \A c \in waits : calls[c].stage = "contents" /\ calls[c].op = "scale" => c \in scales
  BY DEF ContentsInv, WaitersRight, Scales
<1>2. \A c \in waits : NameFor(calls[c].op) = name
  BY DEF ContentsInv, WaitersRight
<1>3. /\ editor' = ed
      /\ flight' = IF patches THEN Requested(freed, name, Fetch("PATCH", first.of, ContentsOf(ed.of, first.want)), scales) ELSE freed
      /\ calls' = [c \in DOMAIN calls |->
           IF c \notin waits THEN calls[c]
           ELSE [calls[c] EXCEPT !.stage = IF patches /\ c \in scales THEN "patch" ELSE "ended",
                                 !.read = calls[c].read \/ ed # NoContents,
                                 !.sent = calls[c].sent \/ (patches /\ c = First(scales) /\ ed.of = calls[c].of)]]
  BY DEF Ended, PatchUrl
<1> HIDE DEF scales
<1>4. patches => First(scales) \in scales /\ \A d \in scales : First(scales) <= d
  <2>1. scales \subseteq Nat
    BY <1>0, <1>1
  <2> QED
    BY <2>1, FirstOf
<1>5. /\ DOMAIN flight' = RequestName
      /\ \A n \in RequestName : n # name => flight'[n] = flight[n]
      /\ patches => flight'[name] = patch
      /\ ~patches => flight'[name] = NoRequest
  <2>1. freed[name] = NoRequest /\ DOMAIN freed = RequestName /\ \A n \in RequestName : n # name => freed[n] = flight[n]
    BY <1>0
  <2> DEFINE req == Fetch("PATCH", first.of, ContentsOf(ed.of, first.want))
  <2>2. [req EXCEPT !.waiters = req.waiters \union scales] = patch
    <3> HIDE DEF first
    <3> QED
      BY DEF Fetch, ContentsOf
  <2>3. CASE patches
    <3>1. flight' = Requested(freed, name, req, scales)
      BY <1>3, <2>3
    <3> HIDE DEF req, freed, patch
    <3> QED
      BY <2>1, <2>2, <2>3, <3>1 DEF Requested
  <2>4. CASE ~patches
    BY <1>3, <2>1, <2>4
  <2> QED
    BY <2>3, <2>4
<1>6. ASSUME NEW c \in DOMAIN calls
      PROVE  /\ calls'[c] \in Call /\ calls'[c].op = calls[c].op /\ calls'[c].of = calls[c].of
             /\ calls'[c].want = calls[c].want /\ calls'[c].alone = calls[c].alone
             /\ c \notin waits => calls'[c] = calls[c]
             /\ c \in waits => /\ calls'[c].stage = IF patches /\ c \in scales THEN "patch" ELSE "ended"
                               /\ calls'[c].read => calls[c].read \/ ed # NoContents
                               /\ calls[c].sent => calls'[c].sent
                               /\ patches /\ c = First(scales) /\ ed.of = calls[c].of => calls'[c].sent
  <2>1. calls[c] \in Call
    BY <1>0
  <2>2. CASE c \notin waits
    BY <1>3, <2>1, <2>2
  <2>3. CASE c \in waits
    <3> DEFINE stage == IF patches /\ c \in scales THEN "patch" ELSE "ended"
               read == calls[c].read \/ ed # NoContents
               sentNow == calls[c].sent \/ (patches /\ c = First(scales) /\ ed.of = calls[c].of)
    <3>1. calls'[c] = [calls[c] EXCEPT !.stage = stage, !.read = read, !.sent = sentNow]
      BY <1>3, <2>3
    <3>2. stage \in {"contents", "patch", "ended"} /\ read \in BOOLEAN /\ sentNow \in BOOLEAN
      OBVIOUS
    <3>3. /\ read => calls[c].read \/ ed # NoContents
          /\ calls[c].sent => sentNow
          /\ patches /\ c = First(scales) /\ ed.of = calls[c].of => sentNow
      OBVIOUS
    <3> HIDE DEF stage, read, sentNow, patches
    <3>4. /\ calls'[c] \in Call /\ calls'[c].op = calls[c].op /\ calls'[c].of = calls[c].of
          /\ calls'[c].want = calls[c].want /\ calls'[c].alone = calls[c].alone
          /\ calls'[c].stage = stage /\ calls'[c].read = read /\ calls'[c].sent = sentNow
      BY <2>1, <3>1, <3>2 DEF Call
    <3> QED
      BY <2>3, <3>3, <3>4 DEF stage
  <2> QED
    BY <2>2, <2>3
<1>7. calls' \in Seq(Call) /\ DOMAIN calls' = DOMAIN calls
  <2>1. DOMAIN calls' = 1..Len(calls) /\ calls' = [c \in 1..Len(calls) |-> calls'[c]] /\ \A c \in 1..Len(calls) : calls'[c] \in Call
    BY <1>0, <1>3, <1>6
  <2>2. calls' \in [1..Len(calls) -> Call]
    BY <2>1
  <2>3. calls' \in Seq(Call)
    BY <1>0, <2>2
  <2> QED
    BY <1>0, <2>1, <2>3
<1>8. ASSUME NEW c \in waits, calls[c].op = "scale", calls[c].alone, ed # NoContents
      PROVE  calls'[c].sent
  <2>1. CASE calls[c].sent
    BY <1>1, <1>6, <2>1
  <2>2. CASE ~calls[c].sent
    <3>1. flight[name].verb = "GET" /\ flight[name].of = calls[c].of /\ calls[c].stage = "contents" /\ \A d \in waits : c <= d
      BY <1>8, <2>2 DEF ContentsInv, WaitersRight
    <3>2. c \in scales /\ ed.of = calls[c].of /\ calls[c].of \in Workload
      BY <1>1, <1>8, <3>1 DEF ContentsInv, AskedFor
    <3>3. patches
      BY <1>8, <3>2
    <3>4. First(scales) <= c /\ c <= First(scales) /\ First(scales) \in Nat /\ c \in Nat
      BY <1>0, <1>1, <1>4, <3>1, <3>2, <3>3
    <3>5. c = First(scales)
      BY <3>4
    <3> QED
      BY <1>1, <1>6, <3>2, <3>3, <3>5
  <2> QED
    BY <2>1, <2>2
<1>9. patches => /\ first \in Call /\ first.op = "scale" /\ ed \in [of : Thing, value : Value]
                 /\ patch \in RequestOf /\ patch.verb = "PATCH" /\ patch.of = first.of /\ patch.waiters = scales
                 /\ patch.body \in [of : Thing, value : Value] /\ patch.body.of = ed.of /\ patch.body.value = first.want
                 /\ first.want \in written[first.of] /\ first.of \in Thing
  <2> SUFFICES ASSUME patches PROVE /\ first \in Call /\ first.op = "scale" /\ ed \in [of : Thing, value : Value]
                 /\ patch \in RequestOf /\ patch.verb = "PATCH" /\ patch.of = first.of /\ patch.waiters = scales
                 /\ patch.body \in [of : Thing, value : Value] /\ patch.body.of = ed.of /\ patch.body.value = first.want
                 /\ first.want \in written[first.of] /\ first.of \in Thing
    OBVIOUS
  <2>1. first \in Call /\ first.op = "scale" /\ first.want \in written[first.of] /\ scales \subseteq Nat
    BY <1>0, <1>1, <1>4 DEF ContentsInv, AskedFor
  <2>2. first.of \in Thing /\ first.want \in Value /\ ed \in [of : Thing, value : Value] /\ ed.of \in Thing
    BY <2>1 DEF Call
  <2> HIDE DEF first
  <2> QED
    BY <2>1, <2>2 DEF RequestOf
<1> HIDE DEF patch, first, patches
<1>10. WaitersRight'
  <2>1. ASSUME NEW n \in RequestName, flight'[n] # NoRequest, n # name
        PROVE  /\ flight'[n] \in RequestOf
               /\ \A c \in flight'[n].waiters :
                    /\ c \in DOMAIN calls' /\ calls'[c].stage # "ended" /\ NameFor(calls'[c].op) = n
                    /\ calls'[c].op = "scale" /\ calls'[c].alone /\ ~calls'[c].sent =>
                         /\ flight'[n].verb = "GET" /\ flight'[n].of = calls'[c].of /\ calls'[c].stage = "contents"
                         /\ \A d \in flight'[n].waiters : c <= d
    <3>1. flight'[n] = flight[n] /\ flight[n] # NoRequest
      BY <1>5, <2>1
    <3>2. \A c \in flight[n].waiters : c \in DOMAIN calls /\ NameFor(calls[c].op) = n
      BY <3>1 DEF ContentsInv, WaitersRight
    <3>3. \A c \in flight[n].waiters : c \notin waits
      BY <1>2, <2>1, <3>2
    <3>4. \A c \in flight[n].waiters : calls'[c] = calls[c]
      BY <1>6, <3>2, <3>3
    <3> QED
      BY <1>7, <3>1, <3>4 DEF ContentsInv, WaitersRight
  <2>2. ASSUME flight'[name] # NoRequest
        PROVE  /\ flight'[name] \in RequestOf
               /\ \A c \in flight'[name].waiters :
                    /\ c \in DOMAIN calls' /\ calls'[c].stage # "ended" /\ NameFor(calls'[c].op) = name
                    /\ ~(calls'[c].op = "scale" /\ calls'[c].alone /\ ~calls'[c].sent)
    <3>1. patches
      BY <1>5, <2>2
    <3>2. flight'[name] \in RequestOf /\ flight'[name].waiters = scales /\ ed # NoContents
      BY <1>5, <1>9, <3>1 DEF patches
    <3>3. ASSUME NEW c \in scales
          PROVE  /\ c \in DOMAIN calls' /\ calls'[c].stage # "ended" /\ NameFor(calls'[c].op) = name
                 /\ calls'[c].alone => calls'[c].sent
      BY <1>1, <1>2, <1>6, <1>7, <1>8, <3>1, <3>2
    <3> QED
      BY <3>2, <3>3
  <2> QED
    BY <2>1, <2>2 DEF WaitersRight
<1>11. AskedFor'
  <2>1. \A c \in DOMAIN calls' : calls'[c].op = "scale" => calls'[c].of \in Workload /\ calls'[c].want \in written'[calls'[c].of]
    BY <1>6, <1>7 DEF ContentsInv, AskedFor
  <2>2. ASSUME NEW n \in RequestName, flight'[n] # NoRequest, flight'[n].verb = "PATCH"
        PROVE  /\ flight'[n].body \in [of : Thing, value : Value]
               /\ flight'[n].body.of = flight'[n].of => flight'[n].body.value \in written'[flight'[n].of]
    <3>1. CASE n # name
      BY <1>5, <2>2, <3>1 DEF ContentsInv, AskedFor
    <3>2. CASE n = name
      BY <1>5, <1>9, <2>2, <3>2
    <3> QED
      BY <3>1, <3>2
  <2> QED
    BY <2>1, <2>2 DEF AskedFor
<1>12. SoleScaleSent'
  <2> SUFFICES ASSUME NEW c \in DOMAIN calls, calls'[c].op = "scale", calls'[c].alone, calls'[c].read PROVE calls'[c].sent
    BY <1>7 DEF SoleScaleSent
  <2>1. calls[c].op = "scale" /\ calls[c].alone
    BY <1>6
  <2>2. CASE c \notin waits
    BY <1>6, <2>1, <2>2 DEF ContentsInv, SoleScaleSent
  <2>3. CASE c \in waits /\ ed # NoContents
    BY <1>8, <2>1, <2>3
  <2>4. CASE c \in waits /\ ed = NoContents
    <3>1. calls[c].read
      BY <1>6, <2>4
    <3>2. calls[c].sent
      BY <2>1, <3>1 DEF ContentsInv, SoleScaleSent
    <3> QED
      BY <1>6, <2>4, <3>2
  <2> QED
    BY <2>2, <2>3, <2>4
<1> QED
  BY <1>3, <1>5, <1>7, <1>10, <1>11, <1>12 DEF ContentsInv

\* What was asked for a resource is a value of it, once somebody asks for one more.
LEMMA OneMoreAsked ==
  ASSUME ContentsInv, NEW r \in Thing, NEW v \in Value, written' = [written EXCEPT ![r] = @ \union {v}],
         cluster' = cluster, store' = store \/ store' = [store EXCEPT ![r] = v]
  PROVE  ContentsKept' /\ v \in written'[r] /\ \A x \in Thing : written[x] \subseteq written'[x]
<1>1. /\ written' \in [Thing -> SUBSET (Value \cup {Gone})] /\ v \in written'[r]
      /\ \A x \in Thing : written[x] \subseteq written'[x]
  BY DEF ContentsInv, ContentsKept
<1>2. store' \in [Thing -> Value \cup {Gone}] /\ \A x \in Thing : store'[x] \in written'[x]
  BY <1>1 DEF ContentsInv, ContentsKept
<1> QED
  BY <1>1, <1>2 DEF ContentsInv, ContentsKept

\* A step that leaves calls, requests and what was asked alone only has to keep the values.
LEMMA OnlyValues ==
  ASSUME ContentsInv, ContentsKept', UNCHANGED <<editor, flight, calls, written>>,
         removal' \in [asked : SUBSET Thing, open : SUBSET Thing], removal'.open \subseteq removal'.asked
  PROVE  ContentsInv'
BY DEF ContentsInv, WaitersRight, AskedFor, SoleScaleSent

\* Every step of the operations on resources keeps the invariant.
LEMMA ContentsStep == ContentsInv /\ [ContentsNext]_contentVars => ContentsInv'
<1> SUFFICES ASSUME ContentsInv, [ContentsNext]_contentVars PROVE ContentsInv'
  OBVIOUS
<1>0. /\ Workload \subseteq Thing /\ Pod \subseteq Thing /\ ReplicaCount \subseteq Value /\ {Owned, Detached, 0} \subseteq Value
      /\ ContentsKept /\ removal \in [asked : SUBSET Thing, open : SUBSET Thing] /\ removal.open \subseteq removal.asked
      /\ editor \in [of : Thing, value : Value] \cup {NoContents}
  BY DEF ContentsInv, Thing, Value
<1>1. ASSUME NEW r \in Workload, NEW n \in ReplicaCount, ScaleResource(r, n) PROVE ContentsInv'
  <2>1. /\ StartCall("scale", r, n, "resource.contents", Fetch("GET", r, NoContents))
        /\ written' = [written EXCEPT ![r] = @ \union {n}] /\ UNCHANGED <<cluster, store, editor, removal>>
    BY <1>1 DEF ScaleResource
  <2>2. ContentsKept' /\ n \in written'[r] /\ \A x \in Thing : written[x] \subseteq written'[x]
    BY <1>0, <2>1, OneMoreAsked
  <2>3. NameFor("scale") = "resource.contents" /\ r \in Thing /\ n \in Value
    BY <1>0 DEF NameFor
  <2> QED
    BY <2>1, <2>2, <2>3, CallStarted
<1>2. ASSUME NEW r \in Workload, NEW n \in ReplicaCount, ApplyResourceChanges(r, n) PROVE ContentsInv'
  <2> DEFINE body == ContentsOf(editor.of, n)
  <2>1. /\ StartCall("apply", r, n, "resources.contents", Fetch("PATCH", r, body)) /\ editor # NoContents
        /\ written' = [written EXCEPT ![r] = @ \union {n}] /\ UNCHANGED <<cluster, store, editor, removal>>
    BY <1>2 DEF ApplyResourceChanges
  <2>2. ContentsKept' /\ n \in written'[r] /\ \A x \in Thing : written[x] \subseteq written'[x]
    BY <1>0, <2>1, OneMoreAsked
  <2>3. NameFor("apply") = "resources.contents" /\ r \in Thing /\ n \in Value
    BY <1>0 DEF NameFor
  <2>4. body \in [of : Thing, value : Value] /\ body.value = n
    BY <1>0, <2>1, <2>3 DEF ContentsOf
  <2> HIDE DEF body
  <2> QED
    BY <2>1, <2>2, <2>3, <2>4, CallStarted
<1>3. ASSUME NEW p \in Pod, DetachResource(p) PROVE ContentsInv'
  <2> DEFINE body == ContentsOf(p, Detached)
  <2>1. /\ StartCall("detach", p, Detached, "resource.contents", Fetch("PATCH", p, body))
        /\ written' = [written EXCEPT ![p] = @ \union {Detached}] /\ UNCHANGED <<cluster, editor, removal>>
        /\ store' = [store EXCEPT ![p] = Detached]
    BY <1>3 DEF DetachResource
  <2>2. p \in Thing /\ Detached \in Value /\ NameFor("detach") = "resource.contents"
    BY <1>0 DEF NameFor
  <2>3. ContentsKept' /\ Detached \in written'[p] /\ \A x \in Thing : written[x] \subseteq written'[x]
    BY <2>1, <2>2, OneMoreAsked
  <2>4. body \in [of : Thing, value : Value] /\ body.value = Detached
    BY <2>2 DEF ContentsOf
  <2> HIDE DEF body
  <2> QED
    BY <2>1, <2>2, <2>3, <2>4, CallStarted
<1>4. ASSUME NEW r \in Thing, EditResource(r) PROVE ContentsInv'
  <2>1. /\ StartCall("edit", r, cluster[r], "resources.current", Fetch("GET", r, NoContents)) /\ cluster[r] # Gone
        /\ UNCHANGED <<cluster, store, editor, removal, written>>
    BY <1>4 DEF EditResource
  <2>2. cluster[r] \in Value /\ NameFor("edit") = "resources.current"
    BY <1>0, <2>1 DEF ContentsKept, NameFor
  <2>3. ContentsKept'
    BY <1>0, <2>1 DEF ContentsKept
  <2> QED
    BY <2>1, <2>2, <2>3, CallStarted
<1>5. ASSUME NEW name \in RequestName, FetchResourceContents(name) PROVE ContentsInv'
  <2> DEFINE r == flight[name].of
  <2>1. flight[name] # NoRequest /\ flight[name].verb = "GET" /\ UNCHANGED <<cluster, store, removal, written>>
    BY <1>5 DEF FetchResourceContents
  <2>2. r \in Thing /\ ContentsKept'
    BY <1>0, <2>1 DEF ContentsInv, WaitersRight, RequestOf, ContentsKept
  <2>3. CASE cluster[r] # Gone /\ Ended(name, ReceiveContents(ContentsOf(r, cluster[r])))
    <3>1. cluster[r] \in Value
      BY <1>0, <2>2, <2>3 DEF ContentsKept
    <3>2. ContentsOf(r, cluster[r]) \in [of : Thing, value : Value] /\ ContentsOf(r, cluster[r]).of = r
      BY <2>2, <3>1 DEF ContentsOf
    <3> QED
      BY <2>1, <2>2, <2>3, <3>2, RequestEnded DEF ReceiveContents
  <2>4. CASE Ended(name, NoContents)
    BY <2>1, <2>2, <2>4, RequestEnded
  <2> QED
    BY <1>5, <2>3, <2>4 DEF FetchResourceContents
<1>6. ASSUME NEW name \in RequestName, UpdateResourceContents(name) PROVE ContentsInv'
  <2> DEFINE r == flight[name].of
             body == flight[name].body
  <2>1. flight[name] # NoRequest /\ flight[name].verb = "PATCH" /\ UNCHANGED <<store, removal, written>>
    BY <1>6 DEF UpdateResourceContents
  <2>2. r \in Thing /\ body \in [of : Thing, value : Value] /\ (body.of = r => body.value \in written[r])
    BY <2>1 DEF ContentsInv, WaitersRight, RequestOf, AskedFor
  <2>3. CASE body.of = r /\ cluster' = [cluster EXCEPT ![r] = body.value] /\ Ended(name, ReceiveContents(body))
    <3>1. ContentsKept'
      <4> HIDE DEF body, r
      <4> QED
        BY <1>0, <2>1, <2>2, <2>3 DEF ContentsKept
    <3> QED
      BY <2>1, <2>2, <2>3, <3>1, RequestEnded DEF ReceiveContents
  <2>4. CASE Ended(name, editor) /\ UNCHANGED cluster
    <3>1. ContentsKept'
      BY <1>0, <2>1, <2>4 DEF ContentsKept
    <3> QED
      BY <1>0, <2>1, <2>4, <3>1, RequestEnded
  <2> QED
    BY <1>6, <2>3, <2>4 DEF UpdateResourceContents
<1>7. ASSUME NEW things \in SUBSET Thing, RemoveResources(things) PROVE ContentsInv'
  <2>1. PICK chosen \in SUBSET Thing : removal' = [asked |-> chosen, open |-> chosen]
    BY <1>7 DEF RemoveResources
  <2>2. ContentsKept' /\ UNCHANGED <<editor, flight, calls, written>>
    BY <1>0, <1>7 DEF RemoveResources, ContentsKept
  <2>3. removal' \in [asked : SUBSET Thing, open : SUBSET Thing] /\ removal'.open \subseteq removal'.asked
    BY <2>1
  <2> QED
    BY <2>2, <2>3, OnlyValues
<1>8. ASSUME NEW r \in Thing, NEW refused \in BOOLEAN, DeleteAnswered(r, refused) PROVE ContentsInv'
  <2>1. UNCHANGED <<editor, flight, calls, written>>
    BY <1>8 DEF DeleteAnswered
  <2>2. removal' \in [asked : SUBSET Thing, open : SUBSET Thing] /\ removal'.open \subseteq removal'.asked
    BY <1>0, <1>8 DEF DeleteAnswered, NoRemoval
  <2>3. cluster' \in [Thing -> Value \cup {Gone}] /\ \A x \in Thing : cluster'[x] \in written[x]
    BY <1>0, <1>8 DEF DeleteAnswered, ContentsKept
  <2>4. store' \in [Thing -> Value \cup {Gone}] /\ \A x \in Thing : store'[x] \in written[x]
    BY <1>0, <1>8 DEF DeleteAnswered, ContentsKept
  <2>5. ContentsKept'
    BY <1>0, <2>1, <2>3, <2>4 DEF ContentsKept
  <2> QED
    BY <2>1, <2>2, <2>5, OnlyValues
<1>9. ASSUME NEW r \in Thing, CreateResource(r) PROVE ContentsInv'
  <2> DEFINE v == IF r \in Pod THEN Owned ELSE 0
  <2>1. UNCHANGED <<editor, flight, calls, removal, written>> /\ cluster' = [cluster EXCEPT ![r] = v]
        /\ store' = [store EXCEPT ![r] = cluster'[r]]
    BY <1>9 DEF CreateResource
  <2>2. v \in Value /\ v \in written[r]
    BY <1>0 DEF ContentsKept
  <2> HIDE DEF v
  <2>3. ContentsKept'
    BY <1>0, <2>1, <2>2 DEF ContentsKept
  <2> QED
    BY <1>0, <2>1, <2>3, OnlyValues
<1>10. ASSUME NEW r \in Thing, Watched(r) PROVE ContentsInv'
  <2>1. ContentsKept' /\ UNCHANGED <<editor, flight, calls, removal, written>>
    BY <1>0, <1>10 DEF Watched, ContentsKept
  <2> QED
    BY <1>0, <2>1, OnlyValues
<1>11. ASSUME NEW r \in Thing, OtherClient(r) PROVE ContentsInv'
  <2>1. r \notin Pod
    BY <1>11, ContentsAssumption DEF OtherClient, ContentsAssumption
  <2>2. ContentsKept' /\ UNCHANGED <<editor, flight, calls, removal, written>>
    BY <1>0, <1>11, <2>1 DEF OtherClient, ContentsKept
  <2> QED
    BY <1>0, <2>2, OnlyValues
<1>12. CASE UNCHANGED contentVars
  BY <1>12 DEF contentVars, ContentsInv, ContentsKept, WaitersRight, AskedFor, SoleScaleSent
<1>13. ASSUME NEW r \in Thing, SelectThing(r) PROVE ContentsInv'
  BY <1>13 DEF SelectThing, ContentsInv, ContentsKept, WaitersRight, AskedFor, SoleScaleSent
<1> QED
  BY <1>1, <1>2, <1>3, <1>4, <1>5, <1>6, <1>7, <1>8, <1>9, <1>10, <1>11, <1>12, <1>13 DEF ContentsNext

\* What is selected, and what the patches under way say was last applied, are resources if anything.
PickedRight ==
  /\ picked \in Thing \cup {NoContents}
  /\ annotated \in [RequestName -> Thing \cup {NoContents}]

\* Whatever starts or answers a request keeps the types of what is selected.
LEMMA PickedStep == ContentsInv /\ PickedRight /\ [ContentsNext]_contentVars => PickedRight'
<1> SUFFICES ASSUME ContentsInv, PickedRight, [ContentsNext]_contentVars PROVE PickedRight'
  OBVIOUS
<1>1. ASSUME picked' \in Thing \cup {NoContents}, NEW name \in RequestName, NEW b \in BOOLEAN, Annotate(name, b) PROVE PickedRight'
  BY <1>1 DEF Annotate, PickedRight
<1>2. ASSUME NEW op, NEW r \in Thing, NEW v, NEW name \in RequestName, NEW verb \in {"GET", "PATCH"}, NEW body,
             StartCall(op, r, v, name, Fetch(verb, r, body))
      PROVE  PickedRight'
  <2>1. Fetch(verb, r, body).verb = verb
    BY DEF Fetch
  <2>2. CASE flight[name] = NoRequest
    <3>1. picked' \in Thing \cup {NoContents} /\ Annotate(name, verb = "PATCH")
      BY <1>2, <2>1, <2>2 DEF StartCall, PickedRight
    <3> QED
      BY <1>1, <3>1
  <2>3. CASE flight[name] # NoRequest
    BY <1>2, <2>3 DEF StartCall, PickedRight
  <2> QED
    BY <2>2, <2>3
<1>3. ASSUME picked' \in Thing \cup {NoContents}, NEW name \in RequestName, NEW ed, Ended(name, ed) PROVE PickedRight'
  <2>1. PICK b \in BOOLEAN : Annotate(name, b)
    BY <1>3 DEF Ended
  <2> QED
    BY <1>1, <1>3, <2>1
<1>4. ASSUME NEW r \in Workload, NEW n \in ReplicaCount, ScaleResource(r, n) \/ ApplyResourceChanges(r, n) PROVE PickedRight'
  <2>1. r \in Thing /\ "resource.contents" \in RequestName /\ "resources.contents" \in RequestName
    BY DEF Thing, RequestName
  <2>2. CASE ScaleResource(r, n)
    BY <1>2, <2>1, <2>2 DEF ScaleResource
  <2>3. CASE ApplyResourceChanges(r, n)
    BY <1>2, <2>1, <2>3 DEF ApplyResourceChanges
  <2> QED
    BY <1>4, <2>2, <2>3
<1>5. ASSUME NEW p \in Pod, DetachResource(p) PROVE PickedRight'
  <2>1. p \in Thing /\ "resource.contents" \in RequestName
    BY DEF Thing, RequestName
  <2> QED
    BY <1>2, <1>5, <2>1 DEF DetachResource
<1>6. ASSUME NEW r \in Thing, EditResource(r) PROVE PickedRight'
  <2>1. "resources.current" \in RequestName
    BY DEF RequestName
  <2> QED
    BY <1>2, <1>6, <2>1 DEF EditResource
<1>7. ASSUME NEW name \in RequestName, FetchResourceContents(name) PROVE PickedRight'
  <2>1. picked' \in Thing \cup {NoContents} /\ \E ed : Ended(name, ed)
    BY <1>7 DEF FetchResourceContents, PickedRight
  <2> QED
    BY <1>3, <2>1
<1>8. ASSUME NEW name \in RequestName, UpdateResourceContents(name) PROVE PickedRight'
  <2>1. flight[name].of \in Thing
    BY <1>8 DEF UpdateResourceContents, ContentsInv, WaitersRight, RequestOf
  <2>2. picked' \in Thing \cup {NoContents} /\ \E ed : Ended(name, ed)
    BY <1>8, <2>1 DEF UpdateResourceContents, PickedRight
  <2> QED
    BY <1>3, <2>2
<1>9. ASSUME NEW r \in Thing, SelectThing(r) PROVE PickedRight'
  BY <1>9 DEF SelectThing, PickedRight
<1>10. ASSUME UNCHANGED <<picked, annotated>> PROVE PickedRight'
  BY <1>10 DEF PickedRight
<1>11. ASSUME NEW r \in Thing, CreateResource(r) \/ OtherClient(r) \/ Watched(r) PROVE PickedRight'
  BY <1>10, <1>11 DEF CreateResource, OtherClient, Watched
<1>12. ASSUME NEW r \in Thing, NEW refused \in BOOLEAN, DeleteAnswered(r, refused) PROVE PickedRight'
  BY <1>10, <1>12 DEF DeleteAnswered
<1>13. ASSUME NEW things \in SUBSET Thing, RemoveResources(things) PROVE PickedRight'
  BY <1>10, <1>13 DEF RemoveResources
<1>14. CASE UNCHANGED contentVars
  BY <1>10, <1>14 DEF contentVars
<1> QED
  BY <1>4, <1>5, <1>6, <1>7, <1>8, <1>9, <1>11, <1>12, <1>13, <1>14 DEF ContentsNext

\* The types of the operations, and that the cluster holds what was asked for.
LEMMA ContentsRight == ContentsInv /\ PickedRight => ContentsTypeOK /\ SoleScaleSent /\ WrittenAsAsked
<1> SUFFICES ASSUME ContentsInv, PickedRight PROVE ContentsTypeOK /\ SoleScaleSent /\ WrittenAsAsked
  OBVIOUS
<1>1. \A r \in Thing : store[r] \in written[r] /\ cluster[r] \in written[r] /\ written[r] \subseteq Value \union {Gone}
  BY DEF ContentsInv, ContentsKept
<1>2. \A n \in RequestName : flight[n] # NoRequest => \A c \in flight[n].waiters : calls[c].stage # "ended"
  BY DEF ContentsInv, WaitersRight
<1>3. {picked} \cup {annotated[n] : n \in RequestName} \subseteq Thing \cup {NoContents}
  BY DEF PickedRight
<1> QED
  BY <1>1, <1>2, <1>3 DEF ContentsInv, ContentsTypeOK, WrittenAsAsked

-----------------------------------------------------------------------------
(* The actions on the rows of a table.                                     *)

\* A menu is open exactly for a row, and a hovered row is the hovered resource.
MenuOf(st) ==
  /\ st.actionsOpen <=> st.hoveredResource # NoRow
  /\ st.hoveredRow # NoRow => st.hoveredRow = st.hoveredResource

\* How the screen may lag behind the state: every change of the menu renders; a dialog on the screen lists at least
\* the selected resources; nothing on the screen takes the event of a tap for a resource.
ScreenInv ==
  /\ pageState \in PageStates /\ screen \in PageStates /\ actionsClicked \in BOOLEAN /\ crashed \in BOOLEAN
  /\ MenuOf(pageState) /\ MenuOf(screen) /\ screen.actionsOpen = pageState.actionsOpen
  /\ ~crashed => ~Unrenderable(screen)
  /\ screen.open \ {"scale"} # {} => pageState.selectedResources \subseteq screen.selectedResources
  /\ actionsPage = "workloads" => screen.hoveredResource = pageState.hoveredResource

RowsInv ==
  /\ actionsPage \in DOMAIN View /\ rows \subseteq Row /\ selectedIds \subseteq Row /\ awaited \subseteq Row
  /\ ScreenInv /\ ActsOnListed

\* A page starts without menu and dialog.
LEMMA RowsStart == RowsInit => RowsInv
<1> SUFFICES ASSUME RowsInit PROVE RowsInv
  OBVIOUS
<1>1. Fresh \in PageStates /\ MenuOf(Fresh) /\ ~Unrenderable(Fresh)
  BY DEF Fresh, PageStates, MenuOf, Unrenderable
<1> QED
  BY <1>1 DEF RowsInit, RowsInv, ScreenInv, ActsOnListed

\* setState keeps the screen close enough to the state, on every page.
LEMMA StateSet ==
  ASSUME RowsInv, actionsPage' = actionsPage, NEW new \in PageStates, NEW clicked \in BOOLEAN, SetState(new, clicked), ~crashed,
         MenuOf(new),
         \/ new.selectedResources \subseteq pageState.selectedResources
         \/ screen.open \ {"scale"} = {} \/ new.actionsOpen # pageState.actionsOpen,
         \/ new.hoveredResource = pageState.hoveredResource
         \/ new.actionsOpen # pageState.actionsOpen \/ new.hoveredRow # pageState.hoveredRow
  PROVE  ScreenInv'
<1>1. PageStates' = PageStates
  BY DEF PageStates, Dialogs
<1>2. /\ pageState' = new /\ screen' = (IF RendersFor(new) THEN new ELSE screen)
      /\ crashed' = (RendersFor(new) /\ Unrenderable(new))
      /\ actionsClicked' = (clicked /\ (RendersFor(new) /\ actionsPage # "cluster" => new.actionsOpen))
  BY DEF SetState
<1>3. new.actionsOpen # pageState.actionsOpen => RendersFor(new)
  BY DEF RowsInv, View, RendersFor, WorkloadsRenders, AccessRenders, RelatedRenders, NodePodsRenders, ClusterRenders
<1>4. actionsPage = "workloads" /\ new.hoveredRow # pageState.hoveredRow => RendersFor(new)
  BY DEF RendersFor, WorkloadsRenders
<1>5. actionsClicked' \in BOOLEAN /\ crashed' \in BOOLEAN
  BY <1>2
<1>6. CASE RendersFor(new)
  BY <1>1, <1>2, <1>5, <1>6 DEF ScreenInv
<1>7. CASE ~RendersFor(new)
  <2>1. pageState' = new /\ screen' = screen /\ ~crashed'
    BY <1>2, <1>7
  <2>2. new.actionsOpen = pageState.actionsOpen /\ (actionsPage = "workloads" => new.hoveredRow = pageState.hoveredRow)
    BY <1>3, <1>4, <1>7
  <2> QED
    BY <1>1, <1>5, <2>1, <2>2 DEF RowsInv, ScreenInv, Unrenderable
<1> QED
  BY <1>6, <1>7

\* A menu on the screen belongs to a menu of the state, whose resource is a row.
LEMMA MenuShownIsOpen ==
  ASSUME RowsInv, MenuShown
  PROVE  pageState.actionsOpen /\ pageState.hoveredResource \in Row
BY DEF RowsInv, ScreenInv, MenuShown, MenuOf, PageStates

\* The menu closes: its state has no row, and it renders.
LEMMA MenuCloses ==
  ASSUME RowsInv
  PROVE  /\ Closed(pageState) \in PageStates /\ MenuOf(Closed(pageState)) /\ ~Closed(pageState).actionsOpen
         /\ Closed(pageState).hoveredRow = NoRow /\ Closed(pageState).hoveredResource = NoRow
         /\ Closed(pageState).selectedResources = pageState.selectedResources
         /\ Closed(pageState).open = pageState.open
BY DEF RowsInv, ScreenInv, MenuOf, Closed, PageStates

\* A menu opens for a row, whatever is on the screen.
LEMMA MenuOpens ==
  ASSUME RowsInv, ~crashed, NEW r \in Row, NEW clicked \in BOOLEAN, SetState(Hovering(r), clicked), actionsPage' = actionsPage
  PROVE  ScreenInv'
<1> DEFINE new == Hovering(r)
<1>1. pageState \in PageStates /\ MenuOf(pageState) /\ r # NoRow
  BY RowsAssumption DEF RowsInv, ScreenInv, RowsAssumption
<1>2. /\ new \in PageStates /\ new.actionsOpen /\ new.hoveredRow = r /\ new.hoveredResource = r
      /\ new.selectedResources = pageState.selectedResources
  BY <1>1 DEF Hovering, PageStates
<1>3. SetState(new, clicked)
  OBVIOUS
<1> HIDE DEF new
<1>4. MenuOf(new)
  BY <1>1, <1>2 DEF MenuOf
<1>5. \/ new.hoveredResource = pageState.hoveredResource \/ new.hoveredRow # pageState.hoveredRow
  BY <1>1, <1>2 DEF MenuOf
<1> QED
  BY <1>2, <1>3, <1>4, <1>5, StateSet

\* What handleDelete takes for resources: checked rows, or what it was given.
LEMMA DeleteTakes ==
  ASSUME RowsInv, NEW r \in Row \cup {NoRow, Tap}, actionsPage # "cluster"
  PROVE  HandleDelete(r) \in SUBSET (Row \cup {Tap})
BY DEF RowsInv, View, HandleDelete, WorkloadsDelete, AccessDelete, RelatedDelete, NodePodsDelete

\* An item of a row's menu opens the dialog it is for.
LEMMA MenuActionStep ==
  ASSUME RowsInv, NEW d \in Dialogs, MenuAction(d), actionsPage # "cluster"
  PROVE  RowsInv'
<1> DEFINE given == IF actionsPage = "related" THEN pageState.hoveredResource ELSE NoRow
           chosen == CASE d = "delete" -> HandleDelete(given)
                       [] d = "scale" -> Closed(pageState).selectedResources [] OTHER -> {pageState.hoveredResource}
           new == [Closed(pageState) EXCEPT !.open = Closed(pageState).open \union {d}, !.selectedResources = chosen]
<1>1. pageState.actionsOpen /\ pageState.hoveredResource \in Row /\ pageState \in PageStates
  BY MenuShownIsOpen DEF MenuAction, RowsInv, ScreenInv
<1>2. SetState(new, actionsClicked) /\ ~crashed /\ act' = NoAct /\ UNCHANGED <<actionsPage, rows, selectedIds, awaited>>
  BY DEF MenuAction
<1>3. chosen \in SUBSET (Row \cup {Tap})
  <2>1. HandleDelete(given) \in SUBSET (Row \cup {Tap})
    BY <1>1, DeleteTakes
  <2>2. Closed(pageState).selectedResources \in SUBSET (Row \cup {Tap})
    BY MenuCloses, <1>1 DEF PageStates
  <2> HIDE DEF given
  <2> QED
    BY <1>1, <2>1, <2>2
<1> HIDE DEF chosen
<1>4. new \in PageStates /\ ~new.actionsOpen /\ new.hoveredResource = NoRow /\ new.hoveredRow = NoRow
  BY <1>3, MenuCloses DEF PageStates
<1> HIDE DEF new
<1>5. MenuOf(new)
  BY <1>4 DEF MenuOf
<1>6. ScreenInv'
  BY <1>1, <1>2, <1>4, <1>5, StateSet DEF RowsInv, ScreenInv
<1> QED
  BY <1>2, <1>6 DEF RowsInv, ActsOnListed

\* No dialog is on the screen while the table and its toolbar can be reached.
LEMMA NoDialogWhenReachable ==
  ASSUME RowsInv, TableReachable
  PROVE  ~crashed /\ ~MenuShown /\ screen.open \ {"scale"} = {}
BY DEF RowsInv, ScreenInv, PageStates, TableReachable, DialogShown

\* A button of the toolbar opens its dialog.
LEMMA ToolStep ==
  ASSUME RowsInv, NEW d \in Dialogs, Tool(d), actionsPage # "cluster"
  PROVE  RowsInv'
<1> DEFINE chosen == IF d = "delete" THEN HandleDelete(Tap) ELSE {Tap}
           new == [pageState EXCEPT !.open = pageState.open \union {d}, !.actionsOpen = FALSE, !.selectedResources = chosen]
<1>1. ~crashed /\ ~MenuShown /\ screen.open \ {"scale"} = {}
  BY NoDialogWhenReachable DEF Tool
<1>2. SetState(new, actionsClicked) /\ act' = NoAct /\ UNCHANGED <<actionsPage, rows, selectedIds, awaited>>
  BY DEF Tool
<1>3. chosen \in SUBSET (Row \cup {Tap})
  BY DeleteTakes
<1>4. pageState.hoveredResource = NoRow /\ pageState.hoveredRow = NoRow /\ pageState \in PageStates /\ actionsClicked \in BOOLEAN
  BY <1>1 DEF MenuShown, RowsInv, ScreenInv, MenuOf
<1> HIDE DEF chosen
<1>5. new \in PageStates /\ ~new.actionsOpen /\ new.hoveredResource = NoRow /\ new.hoveredRow = NoRow
  BY <1>3, <1>4 DEF PageStates
<1> HIDE DEF new
<1>6. MenuOf(new)
  BY <1>5 DEF MenuOf
<1>7. ScreenInv'
  BY <1>1, <1>2, <1>4, <1>5, <1>6, StateSet
<1> QED
  BY <1>2, <1>7 DEF RowsInv, ActsOnListed

\* A dialog is closed: what is selected stays or is given up.
LEMMA DialogCloses ==
  ASSUME RowsInv, ~crashed, NEW d, NEW clicked \in BOOLEAN, NEW selected, NEW hovered, actionsPage' = actionsPage,
         selected = {} \/ selected = pageState.selectedResources, hovered \in {NoRow, pageState.hoveredRow},
         SetState([pageState EXCEPT !.open = pageState.open \ {d}, !.selectedResources = selected, !.hoveredRow = hovered], clicked)
  PROVE  ScreenInv'
<1> DEFINE new == [pageState EXCEPT !.open = pageState.open \ {d}, !.selectedResources = selected, !.hoveredRow = hovered]
<1>1. pageState \in PageStates /\ MenuOf(pageState)
  BY DEF RowsInv, ScreenInv
<1>2. SetState(new, clicked)
  OBVIOUS
<1>3. /\ new \in PageStates /\ new.actionsOpen = pageState.actionsOpen /\ new.hoveredResource = pageState.hoveredResource
      /\ new.hoveredRow = hovered /\ new.selectedResources = selected
  BY <1>1 DEF PageStates
<1> HIDE DEF new
<1>4. MenuOf(new)
  BY <1>1, <1>3 DEF MenuOf
<1> QED
  BY <1>2, <1>3, <1>4, StateSet

\* A dialog is cancelled.
LEMMA CancelStep ==
  ASSUME RowsInv, NEW d, CancelDialog(d)
  PROVE  RowsInv'
<1> DEFINE selected == IF d \in {"delete", "detach"} THEN {} ELSE pageState.selectedResources
           hovered == IF d = "scale" THEN NoRow ELSE pageState.hoveredRow
<1>1. /\ ~crashed /\ act' = NoAct /\ UNCHANGED <<actionsPage, rows, selectedIds, awaited>>
      /\ SetState([pageState EXCEPT !.open = pageState.open \ {d}, !.selectedResources = selected, !.hoveredRow = hovered], actionsClicked)
  BY DEF CancelDialog
<1>2. /\ selected = {} \/ selected = pageState.selectedResources
      /\ hovered \in {NoRow, pageState.hoveredRow} /\ actionsClicked \in BOOLEAN
  BY DEF RowsInv, ScreenInv
<1> HIDE DEF selected, hovered
<1>3. ScreenInv'
  BY <1>1, <1>2, DialogCloses
<1> QED
  BY <1>1, <1>3 DEF RowsInv, ActsOnListed

\* A confirmed action reaches only rows that the screen lists.
LEMMA ConfirmStep ==
  ASSUME RowsInv, NEW d \in Dialogs, ConfirmAction(d)
  PROVE  RowsInv'
<1> DEFINE selected == IF d \in {"delete", "detach"} THEN {} ELSE pageState.selectedResources
           listed == IF d = "scale" THEN {screen.hoveredResource} ELSE screen.selectedResources
           clicked == actionsClicked /\ d # "suspend"
<1>0. pageState \in PageStates /\ screen \in PageStates
  BY DEF RowsInv, ScreenInv
<1>1. /\ ~crashed /\ DialogShown(d) /\ UNCHANGED <<actionsPage, rows, awaited>>
      /\ act' = [what |-> d, of |-> ActOn(d), listed |-> listed]
      /\ selectedIds' = IF d = "scale" THEN selectedIds ELSE Selection({}, actionsClicked)
      /\ SetState([pageState EXCEPT !.open = pageState.open \ {d}, !.selectedResources = selected], clicked)
  BY DEF ConfirmAction
<1>2. [pageState EXCEPT !.open = pageState.open \ {d}, !.selectedResources = selected]
        = [pageState EXCEPT !.open = pageState.open \ {d}, !.selectedResources = selected, !.hoveredRow = pageState.hoveredRow]
  <2> HIDE DEF selected
  <2> QED
    BY <1>0 DEF PageStates
<1>3. (selected = {} \/ selected = pageState.selectedResources) /\ clicked \in BOOLEAN
  OBVIOUS
<1>4. ScreenInv'
  <2> HIDE DEF selected, clicked
  <2>1. SetState([pageState EXCEPT !.open = pageState.open \ {d}, !.selectedResources = selected, !.hoveredRow = pageState.hoveredRow],
                 clicked)
    BY <1>1, <1>2, Zenon
  <2>2. actionsPage' = actionsPage /\ ~crashed /\ pageState.hoveredRow \in {NoRow, pageState.hoveredRow}
    BY <1>1
  <2> QED
    BY <1>3, <2>1, <2>2, DialogCloses
<1>5. selectedIds' \subseteq Row
  BY <1>1 DEF RowsInv, Selection
<1>6. ActOn(d) \subseteq listed \intersect Row
  <2>1. CASE d = "scale"
    <3>1. actionsPage = "workloads"
      BY <2>1 DEF RowsInv, Dialogs, View, WorkloadsView, AccessView, RelatedView, NodePodsView, ClusterView
    <3> QED
      BY <1>0, <2>1, <3>1 DEF ActOn, RowsInv, ScreenInv, PageStates
  <2>2. CASE d # "scale"
    <3>1. d \in screen.open \ {"scale"}
      BY <1>1, <2>2 DEF DialogShown
    <3>2. pageState.selectedResources \subseteq screen.selectedResources /\ Tap \notin screen.selectedResources
      BY <1>1, <3>1 DEF RowsInv, ScreenInv, Unrenderable
    <3> QED
      BY <1>0, <2>2, <3>2 DEF ActOn, PageStates
  <2> QED
    BY <2>1, <2>2
<1>7. ActsOnListed'
  BY <1>1, <1>6 DEF ActsOnListed
<1> QED
  BY <1>1, <1>4, <1>5, <1>7 DEF RowsInv

\* Every step of the pages with rows keeps the invariant.
LEMMA RowsStep == RowsInv /\ [RowsNext]_tableVars => RowsInv'
<1> SUFFICES ASSUME RowsInv, [RowsNext]_tableVars PROVE RowsInv'
  OBVIOUS
<1>0. actionsPage' = actionsPage => PageStates' = PageStates
  BY DEF PageStates, Dialogs
<1>1. ASSUME NEW ids \in SUBSET Row, SelectRows(ids) PROVE RowsInv'
  <2>1. act' = NoAct /\ UNCHANGED <<actionsPage, rows, pageState, screen, actionsClicked, awaited, crashed>>
    BY <1>1 DEF SelectRows
  <2>2. selectedIds' \subseteq Row
    BY <1>1 DEF SelectRows, Selection, RowsInv
  <2>3. ScreenInv'
    BY <1>0, <2>1 DEF RowsInv, ScreenInv, Unrenderable
  <2> QED
    BY <2>1, <2>2, <2>3 DEF RowsInv, ActsOnListed
<1>2. ASSUME NEW live \in SUBSET Row, ReceiveTableProps(live) PROVE RowsInv'
  <2>1. /\ rows' = live /\ screen' = pageState /\ crashed' = Unrenderable(pageState) /\ act' = NoAct
        /\ actionsClicked' = (actionsClicked /\ (pageState.actionsOpen \/ actionsPage = "cluster"))
        /\ UNCHANGED <<actionsPage, pageState, selectedIds, awaited>>
    BY <1>2 DEF ReceiveTableProps
  <2>2. actionsClicked' \in BOOLEAN /\ crashed' \in BOOLEAN
    BY <2>1 DEF Unrenderable
  <2>3. ScreenInv'
    BY <1>0, <2>1, <2>2 DEF RowsInv, ScreenInv
  <2> QED
    BY <2>1, <2>3 DEF RowsInv, ActsOnListed
<1>3. ASSUME NEW r \in Row, AskAccess(r) PROVE RowsInv'
  <2>1. act' = NoAct /\ awaited' \subseteq Row /\ UNCHANGED <<actionsPage, rows, pageState, screen, selectedIds, crashed>>
        /\ actionsClicked' \in BOOLEAN
    BY <1>3 DEF AskAccess, RowsInv
  <2>2. ScreenInv'
    BY <1>0, <2>1 DEF RowsInv, ScreenInv, Unrenderable
  <2> QED
    BY <2>1, <2>2 DEF RowsInv, ActsOnListed
<1>4. ASSUME NEW r \in Row, AccessArrives(r) PROVE RowsInv'
  <2>1. ScreenInv'
    BY <1>4, MenuOpens DEF AccessArrives, RowsInv, ScreenInv
  <2> QED
    BY <1>4, <2>1 DEF AccessArrives, RowsInv, ActsOnListed
<1>5. ASSUME NEW r \in Row, OpenMenu(r) PROVE RowsInv'
  <2>1. ScreenInv'
    BY <1>5, MenuOpens DEF OpenMenu, TableReachable
  <2> QED
    BY <1>5, <2>1 DEF OpenMenu, RowsInv, ActsOnListed
<1>6. ASSUME MenuShown, ~crashed, SetState(Closed(pageState), actionsClicked), UNCHANGED <<actionsPage, rows, selectedIds, awaited>>,
             ActsOnListed'
      PROVE  RowsInv'
  <2>1. pageState.actionsOpen /\ actionsClicked \in BOOLEAN
    BY <1>6, MenuShownIsOpen DEF RowsInv, ScreenInv
  <2>2. ScreenInv'
    BY <1>6, <2>1, MenuCloses, StateSet
  <2> QED
    BY <1>6, <2>2 DEF RowsInv
<1>7. CASE CloseMenu
  BY <1>6, <1>7 DEF CloseMenu, ActsOnListed
<1>8. CASE DetachNow
  <2>1. act'.what = "detachNow"
    BY <1>8 DEF DetachNow
  <2> QED
    BY <1>6, <1>8, <2>1 DEF DetachNow, ActsOnListed
<1>9. CASE LeaveTable
  <2>1. Fresh \in PageStates /\ MenuOf(Fresh) /\ ~Unrenderable(Fresh)
    BY DEF Fresh, PageStates, MenuOf, Unrenderable
  <2> QED
    BY <1>0, <1>9, <2>1 DEF LeaveTable, RowsInv, ScreenInv, ActsOnListed
<1>10. ASSUME NEW d \in Dialogs, Confirms(d), actionsPage # "cluster" PROVE RowsInv'
  BY <1>10, MenuActionStep, CancelStep, ConfirmStep DEF Confirms
<1>11. CASE AsksFirst
  BY <1>3, <1>4, <1>11 DEF AsksFirst
<1>12. CASE WorkloadsSteps
  <2>1. actionsPage = "workloads" /\ Dialogs = WorkloadsView.menu /\ WorkloadsView.tools \subseteq Dialogs
    BY <1>12 DEF WorkloadsSteps, Dialogs, View, WorkloadsView
  <2> QED
    BY <1>7, <1>10, <1>11, <1>12, <2>1, ToolStep DEF WorkloadsSteps
<1>13. CASE AccessSteps
  <2>1. actionsPage = "access" /\ "delete" \in Dialogs
    BY <1>13 DEF AccessSteps, Dialogs, View, AccessView
  <2> QED
    BY <1>7, <1>10, <1>11, <1>13, <2>1, ToolStep DEF AccessSteps
<1>14. CASE RelatedSteps
  <2>1. actionsPage = "related" /\ "delete" \in Dialogs /\ "detach" \in Dialogs
    BY <1>14 DEF RelatedSteps, Dialogs, View, RelatedView
  <2> QED
    BY <1>7, <1>10, <1>11, <1>14, <2>1, ToolStep DEF RelatedSteps
<1>15. CASE NodePodsSteps
  <2>1. actionsPage = "nodePods" /\ "delete" \in Dialogs
    BY <1>15 DEF NodePodsSteps, Dialogs, View, NodePodsView
  <2> QED
    BY <1>7, <1>8, <1>10, <1>11, <1>15, <2>1, ToolStep DEF NodePodsSteps
<1>16. CASE ClusterSteps
  BY <1>5, <1>7, <1>16 DEF ClusterSteps
<1>17. CASE UNCHANGED tableVars
  BY <1>0, <1>17 DEF tableVars, RowsInv, ScreenInv, Unrenderable, ActsOnListed
<1> QED
  BY <1>1, <1>2, <1>9, <1>12, <1>13, <1>14, <1>15, <1>16, <1>17 DEF RowsNext

\* The types of the pages with rows.
LEMMA RowsTyped == RowsInv => RowsTypeOK
BY DEF RowsInv, ScreenInv, RowsTypeOK

-----------------------------------------------------------------------------
(* The tables.                                                             *)

StoreStates == {"absent", "shown", "filtered", "deleted"}
Orders == {"", "asc", "desc"}

TablesInv ==
  /\ tablePage \in ListPages /\ inStore \in [Listable -> StoreStates] /\ statusOf \in [Listable -> TableStatus]
  /\ pageRows \subseteq [of : Listable, status : TableStatus] /\ IsFiniteSet(pageRows)
  /\ ToSet(tableRows) \subseteq [of : Listable, status : TableStatus] /\ IsFiniteSet(ToSet(tableRows))
  /\ pageRows = {} => ToSet(tableRows) = {}
  /\ orderBy \in [by : DOMAIN Columns[tablePage] \union {NoValue}, order : Orders]
  /\ labels \in [Taps \intersect DOMAIN Columns[tablePage] -> Orders]
  /\ jumped \in BOOLEAN /\ tableFailed \in BOOLEAN
  /\ tablePage # "nodes" => labels = LabelsFor(orderBy)
  /\ tableFailed \/ (\E c \in DOMAIN labels : CompareThrows(c, ToSet(tableRows))) \/ InOrder(orderBy, tableRows)
  /\ HasRevision /\ ~jumped /\ ~tableFailed => pageRows = Objects(inStore, statusOf) /\ ToSet(tableRows) = pageRows

\* A sequence of the elements of a finite set, each once, has all of them.
LEMMA InjectiveSequence ==
  ASSUME NEW S, IsFiniteSet(S), NEW f \in [1..Cardinality(S) -> S], \A i, j \in 1..Cardinality(S) : i # j => f[i] # f[j]
  PROVE  ToSet(f) = S
<1>1. Cardinality(S) \in Nat
  BY FS_CardinalityType
<1>2. IsFiniteSet(1..Cardinality(S)) /\ Cardinality(1..Cardinality(S)) = Cardinality(S)
  BY <1>1, FS_Interval
<1>3. f \in Injection(1..Cardinality(S), S)
  BY DEF Injection, IsInjective
<1>4. f \in Surjection(1..Cardinality(S), S)
  BY <1>2, <1>3, FS_Injection
<1> QED
  BY <1>4 DEF Surjection, ToSet

\* The elements of a finite set, each once.
LEMMA SetOnce ==
  ASSUME NEW S, IsFiniteSet(S)
  PROVE  SetToSeq(S) \in Seq(S) /\ IsInjective(SetToSeq(S)) /\ ToSet(SetToSeq(S)) = S
<1>1. Cardinality(S) \in Nat
  BY FS_CardinalityType
<1>2. IsFiniteSet(1..Cardinality(S)) /\ Cardinality(1..Cardinality(S)) = Cardinality(S)
  BY <1>1, FS_Interval
<1>3. PICK g : g \in Bijection(1..Cardinality(S), S)
  BY <1>2, FS_SameCardinalityBij DEF ExistsBijection
<1>4. g \in [1..Cardinality(S) -> S] /\ IsInjective(g)
  BY <1>3 DEF Bijection, Injection
<1>5. SetToSeq(S) \in [1..Cardinality(S) -> S] /\ IsInjective(SetToSeq(S))
  BY <1>4 DEF SetToSeq
<1>6. ToSet(SetToSeq(S)) = S
  BY <1>5, InjectiveSequence DEF IsInjective
<1>7. SetToSeq(S) \in Seq(S)
  BY <1>1, <1>5
<1> QED BY <1>5, <1>6, <1>7

\* The sequences of a finite set have its elements.
LEMMA SequencesOfSet ==
  ASSUME NEW S, IsFiniteSet(S)
  PROVE  (\A f \in SetToSeqs(S) : ToSet(f) = S) /\ ToSet(SetToSeq(S)) = S
<1>1. \A f \in SetToSeqs(S) : ToSet(f) = S
  BY InjectiveSequence DEF SetToSeqs
<1>2. ToSet(SetToSeq(S)) = S
  BY SetOnce
<1> QED
  BY <1>1, <1>2

\* A copy of rows has those rows, in the order that was asked for.
LEMMA SortedCopy ==
  ASSUME NEW S, IsFiniteSet(S), NEW o, NEW copy \in Sorted(S, o)
  PROVE  ToSet(copy) = S /\ InOrder(o, copy)
BY SequencesOfSet DEF Sorted, InOrder

\* What a page shows does not depend on the step while the page stays the same.
LEMMA SamePage ==
  ASSUME tablePage' = tablePage
  PROVE  /\ Listable' = Listable /\ (HasRevision' <=> HasRevision)
         /\ Objects(inStore, statusOf)' = Objects(inStore', statusOf')
         /\ InOrder(orderBy, tableRows)' <=> InOrder(orderBy', tableRows')
         /\ LabelsFor(orderBy)' = [c \in DOMAIN labels' |-> IF c = orderBy'.by THEN orderBy'.order ELSE ""]
<1>1. Listable' = Listable /\ (HasRevision' <=> HasRevision)
  BY DEF Listable, HasRevision
<1>2. Objects(inStore, statusOf)' = Objects(inStore', statusOf')
  BY <1>1 DEF Objects, Listed, WorkloadsRows, AccessRows, RelatedRows, NodePodsRows, NodesRows, ClusterRows, Alive, Known
<1>3. InOrder(orderBy, tableRows)' <=> InOrder(orderBy', tableRows')
  BY DEF InOrder, Comparable, NotAfter, CellValue, StatusPlace
<1>4. LabelsFor(orderBy)' = [c \in DOMAIN labels' |-> IF c = orderBy'.by THEN orderBy'.order ELSE ""]
  BY DEF LabelsFor
<1> QED
  BY <1>1, <1>2, <1>3, <1>4

\* Nor does an exception of the comparison, while the table has the same rows.
LEMMA SameThrows ==
  ASSUME tablePage' = tablePage, ToSet(tableRows') = ToSet(tableRows), NEW c
  PROVE  CompareThrows(c, ToSet(tableRows))' <=> CompareThrows(c, ToSet(tableRows))
BY DEF CompareThrows, Comparable, CellValue

\* The rows of a page are listable resources with their status, finitely many.
LEMMA ObjectsTyped ==
  ASSUME TablesInv, NEW in, NEW status \in [Listable -> TableStatus]
  PROVE  /\ Listed(in) \subseteq Listable /\ IsFiniteSet(Objects(in, status))
         /\ Objects(in, status) \subseteq [of : Listable, status : TableStatus]
<1>1. Listed(in) \subseteq Listable
  BY DEF Listed, WorkloadsRows, AccessRows, RelatedRows, NodePodsRows, NodesRows, ClusterRows
<1>2. IsFiniteSet(Listed(in))
  BY <1>1, TablesAssumption, FS_Subset DEF TablesInv, TablesAssumption, Listable
<1> DEFINE f == [r \in Listed(in) |-> [of |-> r, status |-> status[r]]]
<1>3. f \in Surjection(Listed(in), Objects(in, status))
  BY DEF Surjection, Objects
<1>4. IsFiniteSet(Objects(in, status))
  BY <1>2, <1>3, FS_Surjection
<1> QED
  BY <1>1, <1>4 DEF Objects

\* The order the table starts with is one of its columns', or none.
LEMMA StartOrder ==
  ASSUME tablePage \in ListPages
  PROVE  /\ InitialOrder \in [by : DOMAIN Columns[tablePage] \union {NoValue}, order : Orders]
         /\ tablePage # "nodes" => InitialOrder = Unordered
         /\ \A c : InitialLabel(c) \in Orders
         /\ \A c \in Taps : tablePage # "nodes" => InitialLabel(c) = ""
<1>1. tablePage = "nodes" => "status" \in DOMAIN Columns[tablePage]
  BY DEF Columns, NodesColumns
<1>2. InitialOrder \in [by : DOMAIN Columns[tablePage] \union {NoValue}, order : Orders]
  BY <1>1 DEF InitialOrder, Unordered, Orders
<1>3. (tablePage # "nodes" => InitialOrder = Unordered) /\ \A c : InitialLabel(c) \in Orders
  BY DEF InitialOrder, InitialLabel, Orders
<1>4. \A c \in Taps : tablePage # "nodes" => InitialLabel(c) = ""
  <2> SUFFICES ASSUME NEW c \in Taps, tablePage # "nodes" PROVE InitialLabel(c) = ""
    OBVIOUS
  <2>1. InitialOrder.by = NoValue
    BY DEF InitialOrder, Unordered
  <2>2. c # NoValue
    BY TablesAssumption DEF TablesAssumption
  <2> QED
    BY <2>1, <2>2 DEF InitialLabel
<1> QED
  BY <1>2, <1>3, <1>4

\* An empty table.
LEMMA TablesStart == TablesInit => TablesInv
<1> SUFFICES ASSUME TablesInit PROVE TablesInv
  OBVIOUS
<1>1. ToSet(<<>>) = {} /\ IsFiniteSet({})
  BY FS_EmptySet DEF ToSet
<1>2. InOrder(orderBy, tableRows)
  BY DEF TablesInit, InOrder
<1>3. DOMAIN labels = Taps \intersect DOMAIN Columns[tablePage] /\ labels = [c \in DOMAIN labels |-> InitialLabel(c)]
  BY DEF TablesInit
<1>4. /\ orderBy \in [by : DOMAIN Columns[tablePage] \union {NoValue}, order : Orders]
      /\ labels \in [Taps \intersect DOMAIN Columns[tablePage] -> Orders]
  BY <1>3, StartOrder DEF TablesInit
<1>5. tablePage # "nodes" => labels = LabelsFor(orderBy)
  <2> SUFFICES ASSUME tablePage # "nodes" PROVE labels = LabelsFor(orderBy)
    OBVIOUS
  <2>1. orderBy = Unordered /\ \A c \in DOMAIN labels : InitialLabel(c) = ""
    BY <1>3, StartOrder DEF TablesInit
  <2>3. DOMAIN labels \subseteq Taps
    BY <1>3
  <2>4. \A c \in DOMAIN labels : InitialLabel(c) = IF c = orderBy.by THEN orderBy.order ELSE ""
    BY <2>1, <2>3, TablesAssumption DEF Unordered, TablesAssumption
  <2>5. [c \in DOMAIN labels |-> InitialLabel(c)] = [c \in DOMAIN labels |-> IF c = orderBy.by THEN orderBy.order ELSE ""]
    BY <2>4
  <2> QED
    BY <1>3, <2>5 DEF LabelsFor
<1>6. pageRows = Objects(inStore, statusOf) /\ ToSet(tableRows) = pageRows
  <2>1. \A r \in Listable : inStore[r] = "absent"
    BY DEF TablesInit
  <2>2. Listed(inStore) = {}
    BY <2>1 DEF Listed, WorkloadsRows, AccessRows, RelatedRows, NodePodsRows, NodesRows, ClusterRows
  <2> QED
    BY <1>1, <2>2 DEF Objects, TablesInit
<1>7. inStore \in [Listable -> StoreStates] /\ statusOf \in [Listable -> TableStatus]
  BY TablesAssumption DEF TablesInit, StoreStates, TablesAssumption
<1> QED
  BY <1>1, <1>2, <1>4, <1>5, <1>6, <1>7 DEF TablesInit, TablesInv

\* One filter more or less changes the rows in one direction: none of them, or their number.
LEMMA FiltersOneWay ==
  ASSUME TablesInv, NEW R, NEW from, NEW to, HasRevision,
         <<from, to>> = <<"shown", "filtered">> \/ <<from, to>> = <<"filtered", "shown">>
  PROVE  Listed(Marked(R, from, to)) \subseteq Listed(inStore) \/ Listed(inStore) \subseteq Listed(Marked(R, from, to))
<1> DEFINE new == Marked(R, from, to)
<1>1. \A r \in Listable : new[r] = IF r \in R /\ inStore[r] = from THEN to ELSE inStore[r]
  BY DEF Marked
<1>2. \A r \in Listable : /\ new[r] # "absent" <=> inStore[r] # "absent"
                          /\ new[r] \in {"shown", "filtered"} <=> inStore[r] \in {"shown", "filtered"}
  BY <1>1
<1>3. Alive(new) = Alive(inStore) /\ Known(new) = Known(inStore)
  BY <1>2 DEF Alive, Known
<1>4. \/ \A r \in Listable : new[r] = "shown" => inStore[r] = "shown"
      \/ \A r \in Listable : inStore[r] = "shown" => new[r] = "shown"
  BY <1>1
<1> HIDE DEF new
<1>5. WorkloadsRows(new) \subseteq WorkloadsRows(inStore) \/ WorkloadsRows(inStore) \subseteq WorkloadsRows(new)
  BY <1>4 DEF WorkloadsRows
<1>6. NodesRows(new) \subseteq NodesRows(inStore) \/ NodesRows(inStore) \subseteq NodesRows(new)
  BY <1>4 DEF NodesRows
<1>7. RelatedRows(new) \subseteq RelatedRows(inStore) \/ RelatedRows(inStore) \subseteq RelatedRows(new)
  BY <1>3, <1>4 DEF RelatedRows
<1>8. ClusterRows(new) = ClusterRows(inStore)
  BY <1>2 DEF ClusterRows
<1>9. Listed(new) \subseteq Listed(inStore) \/ Listed(inStore) \subseteq Listed(new)
  BY <1>5, <1>6, <1>7, <1>8 DEF Listed, HasRevision
<1> QED
  BY <1>9 DEF new

\* The page and its table receive their properties: a copy that is kept is of the same rows.
LEMMA ReceivedRight ==
  ASSUME TablesInv, ~tableFailed, NEW change, NEW in \in [Listable -> StoreStates], NEW status \in [Listable -> TableStatus],
         Receive(change, in, status), jumped' \in BOOLEAN,
         HasRevision /\ ~jumped' =>
           \/ change = "store"
           \/ /\ change = "filter" /\ ~jumped /\ status = statusOf
              /\ Listed(in) \subseteq Listed(inStore) \/ Listed(inStore) \subseteq Listed(in)
  PROVE  TablesInv'
<1> DEFINE newRows == IF Recomputes(change) THEN Objects(in, status) ELSE pageRows
           o == IF tablePage = "nodes" /\ newRows = {} THEN InitialOrder ELSE orderBy
           changed == PropsChanged(change, newRows)
           throws == changed /\ o.by # NoValue /\ CompareThrows(o.by, newRows)
<1>1. /\ inStore' = in /\ statusOf' = status /\ pageRows' = newRows /\ orderBy' = o /\ tablePage' = tablePage
      /\ tableFailed' \in (IF throws THEN BOOLEAN ELSE {Recomputes(change) /\ ResolveThrows(in)})
      /\ tableRows' \in (IF changed THEN Sorted(newRows, o) ELSE {tableRows})
      /\ labels' = (IF o # orderBy THEN [c \in DOMAIN labels |-> InitialLabel(c)] ELSE labels)
  BY DEF Receive
<1>2. newRows \subseteq [of : Listable, status : TableStatus] /\ IsFiniteSet(newRows)
  BY ObjectsTyped DEF TablesInv
<1>3. o \in [by : DOMAIN Columns[tablePage] \union {NoValue}, order : Orders]
  BY StartOrder DEF TablesInv
<1>4. tableFailed' \in BOOLEAN
  <2>1. (Recomputes(change) /\ ResolveThrows(in)) \in BOOLEAN
    OBVIOUS
  <2> QED
    BY <1>1, <2>1
<1>5. labels' \in [Taps \intersect DOMAIN Columns[tablePage] -> Orders] /\ DOMAIN labels' = DOMAIN labels
  BY <1>1, StartOrder DEF TablesInv
<1>6. tablePage # "nodes" => o = orderBy /\ labels' = labels
  BY <1>1
<1>7. changed => ToSet(tableRows') = newRows /\ InOrder(o, tableRows')
  BY <1>1, <1>2, SortedCopy
<1>8. ~changed => tableRows' = tableRows /\ Cardinality(newRows) = Cardinality(pageRows)
  BY <1>1 DEF PropsChanged
<1> HIDE DEF newRows, o, changed, throws
<1>9. newRows = {} => ToSet(tableRows') = {}
  <2>1. CASE changed
    BY <1>7, <2>1
  <2>2. CASE ~changed
    <3>1. newRows = {} => pageRows = {}
      BY <1>8, <2>2, FS_EmptySet DEF TablesInv
    <3> QED
      BY <1>8, <2>2, <3>1 DEF TablesInv
  <2> QED
    BY <2>1, <2>2
<1>10. ToSet(tableRows') \subseteq [of : Listable, status : TableStatus] /\ IsFiniteSet(ToSet(tableRows'))
  BY <1>2, <1>7, <1>8 DEF TablesInv
<1>11. (\E c \in DOMAIN labels' : CompareThrows(c, ToSet(tableRows))') \/ InOrder(o, tableRows')
  <2>1. CASE changed
    BY <1>7, <2>1
  <2>2. CASE ~changed /\ o = orderBy
    BY <1>1, <1>5, <1>8, <2>2, SameThrows DEF TablesInv
  <2>3. CASE ~changed /\ o # orderBy
    <3>1. ToSet(tableRows') = {}
      BY <1>9, <2>3 DEF o
    <3>2. DOMAIN tableRows' = {}
      BY <3>1 DEF ToSet
    <3> QED
      BY <3>2 DEF InOrder
  <2> QED
    BY <2>1, <2>2, <2>3
<1>12. ASSUME HasRevision, ~jumped' PROVE newRows = Objects(in, status) /\ ToSet(tableRows') = newRows
  <2>1. Recomputes("store") /\ Recomputes("filter")
    BY <1>12 DEF HasRevision, Recomputes
  <2>2. change \in {"store", "filter"}
    BY <1>12
  <2>3. newRows = Objects(in, status)
    BY <2>1, <2>2 DEF newRows
  <2>4. CASE changed
    BY <1>7, <2>3, <2>4
  <2>5. CASE ~changed
    <3>1. change = "filter"
      BY <1>12, <2>2, <2>5 DEF changed, PropsChanged
    <3>2. /\ ~jumped /\ status = statusOf
          /\ Listed(in) \subseteq Listed(inStore) \/ Listed(inStore) \subseteq Listed(in)
      BY <1>12, <3>1
    <3>3. pageRows = Objects(inStore, statusOf) /\ ToSet(tableRows) = pageRows /\ IsFiniteSet(pageRows)
      BY <1>12, <3>2 DEF TablesInv
    <3>4. newRows \subseteq pageRows \/ pageRows \subseteq newRows
      BY <2>3, <3>2, <3>3 DEF Objects
    <3>5. newRows = pageRows
      BY <1>2, <1>8, <2>5, <3>3, <3>4, FS_Subset
    <3> QED
      BY <1>8, <2>3, <2>5, <3>3, <3>5
  <2> QED
    BY <2>4, <2>5
<1>13. tablePage # "nodes" => labels' = [c \in DOMAIN labels' |-> IF c = orderBy'.by THEN orderBy'.order ELSE ""]
  <2> SUFFICES ASSUME tablePage # "nodes"
               PROVE  labels' = [c \in DOMAIN labels' |-> IF c = orderBy'.by THEN orderBy'.order ELSE ""]
    OBVIOUS
  <2>1. orderBy' = orderBy /\ labels' = labels
    BY <1>1, <1>6
  <2>2. labels = LabelsFor(orderBy)
    BY DEF TablesInv
  <2>3. labels = [c \in DOMAIN labels |-> IF c = orderBy.by THEN orderBy.order ELSE ""]
    BY <2>2 DEF LabelsFor
  <2> QED
    BY <2>1, <2>3
<1>14. Listable' = Listable /\ tablePage' = tablePage
  BY <1>1, SamePage
<1>15. tablePage' # "nodes" => labels' = LabelsFor(orderBy)'
  BY <1>1, <1>13, SamePage
<1>16. tableFailed' \/ (\E c \in DOMAIN labels' : CompareThrows(c, ToSet(tableRows))') \/ InOrder(orderBy, tableRows)'
  BY <1>1, <1>11, SamePage
<1>17. HasRevision' /\ ~jumped' /\ ~tableFailed' => pageRows' = Objects(inStore, statusOf)' /\ ToSet(tableRows') = pageRows'
  BY <1>1, <1>12, SamePage
<1> QED
  BY <1>1, <1>2, <1>3, <1>4, <1>5, <1>9, <1>10, <1>14, <1>15, <1>16, <1>17 DEF TablesInv

\* Every step of the tables keeps the invariant: a copy is taken again whenever the rows differ.
LEMMA TablesStep == TablesInv /\ [TablesNext]_filterTableVars => TablesInv'
<1> SUFFICES ASSUME TablesInv, [TablesNext]_filterTableVars PROVE TablesInv'
  OBVIOUS
<1>0. /\ tablePage \in ListPages /\ inStore \in [Listable -> StoreStates] /\ statusOf \in [Listable -> TableStatus]
      /\ jumped \in BOOLEAN /\ tableFailed \in BOOLEAN
  BY DEF TablesInv
<1>1. ASSUME NEW r \in Listable, Delete(r) PROVE TablesInv'
  <2>1. [inStore EXCEPT ![r] = "deleted"] \in [Listable -> StoreStates]
    BY <1>0 DEF StoreStates
  <2>2. ~tableFailed /\ Receive("store", [inStore EXCEPT ![r] = "deleted"], statusOf) /\ jumped' \in BOOLEAN
    BY <1>1 DEF Delete
  <2> QED
    BY <1>0, <2>1, <2>2, ReceivedRight
<1>2. ASSUME NEW r \in Listable, NEW in \in {"shown", "filtered"}, NEW st \in TableStatus, Put(r, in, st) PROVE TablesInv'
  <2>1. [inStore EXCEPT ![r] = in] \in [Listable -> StoreStates] /\ [statusOf EXCEPT ![r] = st] \in [Listable -> TableStatus]
    BY <1>0 DEF StoreStates
  <2>2. ~tableFailed /\ Receive("store", [inStore EXCEPT ![r] = in], [statusOf EXCEPT ![r] = st]) /\ jumped' \in BOOLEAN
    BY <1>2 DEF Put
  <2> QED
    BY <2>1, <2>2, ReceivedRight
<1>3. ASSUME NEW R \in SUBSET Listable, NEW from, NEW to, ChangeFilter(R, from, to),
             <<from, to>> = <<"shown", "filtered">> \/ <<from, to>> = <<"filtered", "shown">>
      PROVE  TablesInv'
  <2>1. Marked(R, from, to) \in [Listable -> StoreStates]
    BY <1>0, <1>3 DEF Marked, StoreStates
  <2>2. ~tableFailed /\ Receive("filter", Marked(R, from, to), statusOf) /\ jumped' = jumped
    BY <1>3 DEF ChangeFilter
  <2>3. HasRevision => \/ Listed(Marked(R, from, to)) \subseteq Listed(inStore)
                       \/ Listed(inStore) \subseteq Listed(Marked(R, from, to))
    BY <1>3, FiltersOneWay
  <2> HIDE DEF Marked
  <2> QED
    BY <1>0, <2>1, <2>2, <2>3, ReceivedRight
<1>4. ASSUME NEW R \in SUBSET Listable, NEW change, ReplaceFilters(R, change) PROVE TablesInv'
  <2> DEFINE in == [r \in Listable |-> IF inStore[r] \in {"absent", "deleted"} THEN inStore[r]
                                       ELSE IF r \in R THEN "filtered" ELSE "shown"]
  <2>1. in \in [Listable -> StoreStates]
    BY DEF StoreStates
  <2>2. ~tableFailed /\ Receive(change, in, statusOf) /\ jumped' = TRUE
    BY <1>4 DEF ReplaceFilters
  <2> HIDE DEF in
  <2> QED
    BY <1>0, <2>1, <2>2, ReceivedRight
<1>5. CASE HoverRow
  <2>1. /\ tableRows' \in Sorted(pageRows, orderBy) /\ tableFailed' \in BOOLEAN
        /\ UNCHANGED <<tablePage, inStore, statusOf, pageRows, orderBy, labels, jumped>> /\ ~tableFailed
    BY <1>5 DEF HoverRow
  <2>2. ToSet(tableRows') = pageRows /\ InOrder(orderBy, tableRows')
    BY <2>1, SortedCopy DEF TablesInv
  <2>3. LabelsFor(orderBy)' = LabelsFor(orderBy)
    BY <2>1, SamePage DEF LabelsFor
  <2>4. InOrder(orderBy, tableRows)' /\ Listable' = Listable /\ (HasRevision' <=> HasRevision)
        /\ Objects(inStore, statusOf)' = Objects(inStore, statusOf)
    BY <2>1, <2>2, SamePage
  <2> QED
    BY <2>1, <2>2, <2>3, <2>4 DEF TablesInv
<1>6. CASE LeavePage
  <2>1. /\ inStore' = [r \in Listable |-> "absent"] /\ pageRows' = {} /\ tableRows' = <<>> /\ orderBy' = InitialOrder
        /\ labels' = [c \in DOMAIN labels |-> InitialLabel(c)] /\ jumped' = FALSE /\ tableFailed' = FALSE
        /\ tablePage' = tablePage /\ statusOf' = statusOf
    BY <1>6 DEF LeavePage
  <2>2. DOMAIN labels = Taps \intersect DOMAIN Columns[tablePage] /\ DOMAIN labels' = DOMAIN labels
    BY <2>1 DEF TablesInv
  <2>3. labels' \in [Taps \intersect DOMAIN Columns[tablePage] -> Orders]
        /\ orderBy' \in [by : DOMAIN Columns[tablePage] \union {NoValue}, order : Orders]
    BY <1>0, <2>1, <2>2, StartOrder
  <2>4. tablePage # "nodes" => labels' = LabelsFor(orderBy)'
    <3> SUFFICES ASSUME tablePage # "nodes" PROVE labels' = LabelsFor(orderBy)'
      OBVIOUS
    <3>1. orderBy' = Unordered
      BY <1>0, <2>1, StartOrder
    <3>2. \A c \in DOMAIN labels : InitialLabel(c) = ""
      BY <1>0, <2>2, StartOrder
    <3>3. \A c \in DOMAIN labels : InitialLabel(c) = IF c = orderBy'.by THEN orderBy'.order ELSE ""
      BY <2>2, <3>1, <3>2, TablesAssumption DEF Unordered, TablesAssumption
    <3>4. labels' = [c \in DOMAIN labels' |-> IF c = orderBy'.by THEN orderBy'.order ELSE ""]
      BY <2>1, <2>2, <3>3
    <3> QED
      BY <2>1, <3>4, SamePage
  <2>5. ToSet(<<>>) = {} /\ IsFiniteSet({})
    BY FS_EmptySet DEF ToSet
  <2>6. InOrder(orderBy, tableRows)'
    BY <2>1 DEF InOrder
  <2>7. Objects(inStore', statusOf') = {}
    <3>1. \A r \in Listable : inStore'[r] = "absent"
      BY <2>1
    <3>2. Listed(inStore') = {}
      BY <3>1 DEF Listed, WorkloadsRows, AccessRows, RelatedRows, NodePodsRows, NodesRows, ClusterRows
    <3> QED
      BY <3>2 DEF Objects
  <2>8. Listable' = Listable /\ (HasRevision' <=> HasRevision) /\ Objects(inStore, statusOf)' = {}
    BY <2>1, <2>7, SamePage
  <2>9. inStore' \in [Listable -> StoreStates]
    BY <2>1 DEF StoreStates
  <2> HIDE DEF TablesInit
  <2> QED
    BY <1>0, <2>1, <2>3, <2>4, <2>5, <2>6, <2>8, <2>9 DEF TablesInv
<1>7. ASSUME NEW c \in Taps, OnRequestSort(c) PROVE TablesInv'
  <2> DEFINE o == [by |-> c, order |-> NextOrder(c)]
  <2>1. /\ UNCHANGED <<tablePage, inStore, statusOf, pageRows, jumped, tableFailed>> /\ c \in DOMAIN labels
        /\ \/ tableRows' \in Sorted(ToSet(tableRows), o) /\ orderBy' = o /\ labels' = LabelsFor(o)
           \/ CompareThrows(c, ToSet(tableRows)) /\ tableRows' \in SetToSeqs(ToSet(tableRows))
              /\ UNCHANGED <<orderBy, labels>>
    BY <1>7 DEF OnRequestSort
  <2>2. IsFiniteSet(ToSet(tableRows)) /\ DOMAIN labels = Taps \intersect DOMAIN Columns[tablePage]
    BY DEF TablesInv
  <2>3. NextOrder(c) \in {"asc", "desc"} /\ o \in [by : DOMAIN Columns[tablePage] \union {NoValue}, order : Orders]
    BY <2>1, <2>2 DEF NextOrder, Orders
  <2>4. /\ Listable' = Listable /\ (HasRevision' <=> HasRevision)
        /\ Objects(inStore, statusOf)' = Objects(inStore, statusOf)
    BY <2>1, SamePage
  <2>5. CASE tableRows' \in Sorted(ToSet(tableRows), o) /\ orderBy' = o /\ labels' = LabelsFor(o)
    <3>1. ToSet(tableRows') = ToSet(tableRows) /\ InOrder(o, tableRows')
      BY <2>2, <2>5, SortedCopy
    <3>2. labels' = [d \in DOMAIN labels |-> IF d = o.by THEN o.order ELSE ""]
      BY <2>5 DEF LabelsFor
    <3>3. labels' \in [Taps \intersect DOMAIN Columns[tablePage] -> Orders] /\ DOMAIN labels' = DOMAIN labels
      BY <2>2, <2>3, <3>2 DEF Orders
    <3>4. labels' = LabelsFor(orderBy)'
      BY <2>1, <2>5, <3>2, <3>3, SamePage
    <3>5. InOrder(orderBy, tableRows)'
      BY <2>1, <2>5, <3>1, SamePage
    <3> HIDE DEF o
    <3> QED
      BY <2>1, <2>3, <2>4, <2>5, <3>1, <3>3, <3>4, <3>5 DEF TablesInv
  <2>6. CASE CompareThrows(c, ToSet(tableRows)) /\ tableRows' \in SetToSeqs(ToSet(tableRows)) /\ UNCHANGED <<orderBy, labels>>
    <3>1. ToSet(tableRows') = ToSet(tableRows)
      BY <2>2, <2>6, SequencesOfSet
    <3>2. \E d \in DOMAIN labels' : CompareThrows(d, ToSet(tableRows))'
      BY <2>1, <2>6, <3>1, SameThrows
    <3>3. LabelsFor(orderBy)' = LabelsFor(orderBy)
      BY <2>6 DEF LabelsFor
    <3> QED
      BY <2>1, <2>4, <2>6, <3>1, <3>2, <3>3 DEF TablesInv
  <2> QED
    BY <2>1, <2>5, <2>6
<1>8. CASE UNCHANGED filterTableVars
  <2>1. UNCHANGED <<tablePage, inStore, statusOf, pageRows, tableRows, orderBy, labels, jumped, tableFailed>>
    BY <1>8 DEF filterTableVars
  <2>2. (\E c \in DOMAIN labels : CompareThrows(c, ToSet(tableRows)))' <=> \E c \in DOMAIN labels : CompareThrows(c, ToSet(tableRows))
    BY <2>1, SameThrows
  <2>3. LabelsFor(orderBy)' = LabelsFor(orderBy)
    BY <2>1 DEF LabelsFor
  <2>4. /\ Listable' = Listable /\ (HasRevision' <=> HasRevision)
        /\ Objects(inStore, statusOf)' = Objects(inStore, statusOf)
        /\ InOrder(orderBy, tableRows)' <=> InOrder(orderBy, tableRows)
    BY <2>1, SamePage
  <2> QED
    BY <2>1, <2>2, <2>3, <2>4 DEF TablesInv
<1> QED
  BY <1>1, <1>2, <1>3, <1>4, <1>5, <1>6, <1>7, <1>8 DEF TablesNext

\* What the invariant says of the tables.
LEMMA TablesShown == TablesInv => TablesTypeOK /\ TableShowsRows /\ SortedAsLabelled
<1> SUFFICES ASSUME TablesInv PROVE TablesTypeOK /\ TableShowsRows /\ SortedAsLabelled
  OBVIOUS
<1>1. TablesTypeOK
  BY DEF TablesInv, TablesTypeOK, StoreStates, Orders
<1>2. TableShowsRows
  BY DEF TablesInv, TableShowsRows
<1>3. SortedAsLabelled
  BY DEF TablesInv, SortedAsLabelled
<1> QED
  BY <1>1, <1>2, <1>3
-----------------------------------------------------------------------------
(* The numbers: a computation keeps its input, and what it has so far is   *)
(* right for the part of the input it has dealt with.  Rounding and sums   *)
(* first, then each computation.                                           *)

\* Rounding down.
LEMMA Rounded ==
  ASSUME NEW n \in Nat \ {0}, NEW b \in Nat
  PROVE  b \div n \in Nat /\ n * (b \div n) <= b /\ \A a \in Nat : n * a <= b => a <= b \div n
<1> DEFINE q == b \div n
           m == b % n
<1>1. q \in Nat /\ m \in 0..(n - 1) /\ b = n * q + m
  OBVIOUS
<1> HIDE DEF q, m
<1>2. n * q \in Nat
  BY <1>1
<1>3. ASSUME NEW a \in Nat, n * a <= b PROVE a <= q
  <2> SUFFICES ASSUME q + 1 <= a PROVE FALSE
    BY <1>1
  <2>1. n * (q + 1) <= n * a
    BY <1>1
  <2>2. n * (q + 1) = n * q + n
    BY <1>1
  <2>3. n * a \in Nat
    OBVIOUS
  <2> QED BY <1>1, <1>2, <1>3, <2>1, <2>2, <2>3
<1> QED BY <1>1, <1>2, <1>3 DEF q

\* The sum of nothing.
LEMMA SumOfNone == ASSUME NEW f, DOMAIN f = {} PROVE IsFiniteSet(Units(f)) /\ SumOver(f) = 0
<1>1. Units(f) = {}
  BY DEF Units
<1> QED BY <1>1, FS_EmptySet DEF SumOver

\* A number more: its units are added to those of the others.
LEMMA SumAdded ==
  ASSUME NEW f, NEW g, NEW x, x \notin DOMAIN f, DOMAIN g = DOMAIN f \cup {x}, \A y \in DOMAIN f : g[y] = f[y],
         g[x] \in Nat, IsFiniteSet(Units(f))
  PROVE  IsFiniteSet(Units(g)) /\ SumOver(g) = SumOver(f) + g[x] /\ SumOver(f) \in Nat
<1> DEFINE v == g[x]
           more == {x} \X (1..v)
<1>1. Units(g) = Units(f) \cup more
  <2>1. {{y} \X (1..g[y]) : y \in DOMAIN g} = {{y} \X (1..f[y]) : y \in DOMAIN f} \cup {more}
    <3>1. \A y \in DOMAIN f : {y} \X (1..g[y]) = {y} \X (1..f[y])
      OBVIOUS
    <3>2. DOMAIN g = DOMAIN f \cup {x}
      OBVIOUS
    <3> DEFINE G(y) == {y} \X (1..g[y])
               F(y) == {y} \X (1..f[y])
    <3>3. (\A y \in DOMAIN f : G(y) = F(y)) /\ more = G(x)
      BY <3>1
    <3> HIDE DEF G, F, more
    <3>4. {G(y) : y \in DOMAIN g} = {F(y) : y \in DOMAIN f} \cup {more}
      BY <3>2, <3>3
    <3> QED BY <3>4 DEF G, F
  <2> DEFINE A == {{y} \X (1..f[y]) : y \in DOMAIN f}
             B == {{y} \X (1..g[y]) : y \in DOMAIN g}
  <2>2. B = A \cup {more} /\ Units(g) = UNION B /\ Units(f) = UNION A
    BY <2>1, Zenon DEF Units
  <2> HIDE DEF A, B, more
  <2> QED BY <2>2
<1>2. Units(f) \cap more = {}
  <2> SUFFICES ASSUME NEW u \in Units(f), u \in more PROVE FALSE
    OBVIOUS
  <2>1. PICK y \in DOMAIN f : u \in {y} \X (1..f[y])
    BY DEF Units
  <2>2. u[1] = y /\ u[1] = x
    BY <2>1
  <2> QED BY <2>2
<1>3. IsFiniteSet(more) /\ Cardinality(more) = v
  <2>1. IsFiniteSet({x}) /\ Cardinality({x}) = 1
    BY FS_Singleton, Zenon
  <2>2. IsFiniteSet(1..v) /\ Cardinality(1..v) = v
    <3>1. v \in Int /\ 1 \in Int /\ v \in Nat
      OBVIOUS
    <3> HIDE DEF v
    <3>2. IsFiniteSet(1..v) /\ Cardinality(1..v) = IF 1 > v THEN 0 ELSE v - 1 + 1
      BY <3>1, FS_Interval
    <3> QED BY <3>1, <3>2
  <2>3. IsFiniteSet(more) /\ Cardinality(more) = Cardinality({x}) * Cardinality(1..v)
    BY <2>1, <2>2, FS_Product, Zenon
  <2>4. v \in Nat
    OBVIOUS
  <2> HIDE DEF v, more
  <2> QED BY <2>1, <2>2, <2>3, <2>4
<1>6. v \in Nat /\ g[x] = v
  OBVIOUS
<1> HIDE DEF more, v
<1>4. IsFiniteSet(Units(f) \cup more) /\ Cardinality(Units(f) \cup more) = Cardinality(Units(f)) + Cardinality(more) - Cardinality(Units(f) \cap more)
  BY <1>3, FS_Union
<1>5. Cardinality(Units(f)) \in Nat /\ Cardinality({}) = 0
  BY FS_CardinalityType, FS_EmptySet
<1>7. Cardinality(Units(f) \cap more) = 0
  BY <1>2, <1>5
<1>8. IsFiniteSet(Units(g)) /\ Cardinality(Units(g)) = Cardinality(Units(f)) + v
  <2> DEFINE a == Cardinality(Units(f))
             c == Cardinality(Units(f) \cup more)
  <2>1. c = a + v - 0 /\ a \in Nat
    BY <1>3, <1>4, <1>5, <1>7
  <2> HIDE DEF a, c
  <2>2. c = a + v
    BY <1>6, <2>1
  <2> QED BY <1>1, <1>4, <2>2, Zenon DEF a, c
<1> QED BY <1>5, <1>6, <1>8 DEF SumOver

\* A sum of numbers of a finite set is a number.
LEMMA SumIsNumber ==
  ASSUME NEW S, IsFiniteSet(S), NEW f \in [S -> Nat]
  PROVE  IsFiniteSet(Units(f)) /\ SumOver(f) \in Nat
<1> DEFINE unitsOf(y) == {y} \X (1..f[y])
           allUnits == {unitsOf(y) : y \in S}
<1>1. \A y \in S : IsFiniteSet(unitsOf(y))
  <2> SUFFICES ASSUME NEW y \in S PROVE IsFiniteSet(unitsOf(y))
    OBVIOUS
  <2>1. IsFiniteSet({y}) /\ IsFiniteSet(1..f[y])
    <3>1. f[y] \in Int /\ 1 \in Int
      OBVIOUS
    <3> QED BY <3>1, FS_Singleton, FS_Interval, Zenon
  <2> QED BY <2>1, FS_Product, Zenon
<1>2. IsFiniteSet(allUnits)
  <2> DEFINE g == [y \in S |-> unitsOf(y)]
  <2>1. g \in Surjection(S, allUnits)
    BY DEF Surjection
  <2> QED BY <2>1, FS_Surjection, Zenon
<1>3. Units(f) = UNION allUnits
  BY DEF Units
<1>4. IsFiniteSet(Units(f))
  BY <1>1, <1>2, <1>3, FS_UNION, Zenon
<1> QED BY <1>4, FS_CardinalityType DEF SumOver

\* The percentages of two nodes are ranked as their ratios are.
LEMMA RatiosRanked ==
  ASSUME NEW x1 \in Nat, NEW t1 \in Nat \ {0}, NEW x2 \in Nat, NEW t2 \in Nat \ {0}, x1 * t2 <= x2 * t1
  PROVE  Fixed(<<100 * x1, t1>>, 0)[1] <= Fixed(<<100 * x2, t2>>, 0)[1]
<1> DEFINE c1 == (200 * x1 + t1) \div (2 * t1)
           c2 == (200 * x2 + t2) \div (2 * t2)
<1>1. 10^0 = 1
  OBVIOUS
<1>2. Fixed(<<100 * x1, t1>>, 0)[1] = c1 /\ Fixed(<<100 * x2, t2>>, 0)[1] = c2
  BY <1>1 DEF Fixed
<1>3. c1 \in Nat /\ (2 * t1) * c1 <= 200 * x1 + t1
  <2>1. 2 * t1 \in Nat \ {0} /\ 200 * x1 + t1 \in Nat
    OBVIOUS
  <2> QED BY <2>1, Rounded
<1> HIDE DEF c1
<1>4. (2 * t2) * c1 <= 200 * x2 + t2
  <2> DEFINE a == 2 * t2 * c1
             b == 200 * x2 + t2
  <2>1. a \in Nat /\ b \in Nat
    BY <1>3
  <2>2. t2 * ((2 * t1) * c1) <= t2 * (200 * x1 + t1)
    BY <1>3
  <2>3. t2 * ((2 * t1) * c1) = t1 * a
    BY <1>3
  <2>4. t2 * (200 * x1 + t1) = 200 * (x1 * t2) + t1 * t2
    OBVIOUS
  <2>5. t1 * b = 200 * (x2 * t1) + t1 * t2
    OBVIOUS
  <2>6. x1 * t2 \in Nat /\ x2 * t1 \in Nat /\ t1 * t2 \in Nat
    OBVIOUS
  <2>7. t1 * a <= t1 * b
    <3> DEFINE p == x1 * t2
               q == x2 * t1
               r == t1 * t2
               lhs == t1 * a
               rhs == t1 * b
    <3>1. lhs <= 200 * p + r /\ rhs = 200 * q + r /\ p <= q /\ p \in Nat /\ q \in Nat /\ r \in Nat
      BY <2>2, <2>3, <2>4, <2>5, <2>6
    <3>2. lhs \in Nat
      BY <2>1
    <3> HIDE DEF p, q, r, lhs, rhs
    <3>3. lhs <= rhs
      BY <3>1, <3>2
    <3> QED BY <3>3 DEF lhs, rhs
  <2> HIDE DEF a, b
  <2>8. a <= b
    <3> SUFFICES ASSUME b + 1 <= a PROVE FALSE
      BY <2>1
    <3>1. t1 * (b + 1) <= t1 * a
      BY <2>1
    <3>2. t1 * (b + 1) = t1 * b + t1 /\ t1 * b \in Nat /\ t1 * a \in Nat
      BY <2>1
    <3> QED BY <2>7, <3>1, <3>2
  <2> QED BY <2>8, <1>3 DEF a, b
<1>5. 2 * t2 \in Nat \ {0} /\ 200 * x2 + t2 \in Nat
  OBVIOUS
<1>6. c1 <= c2
  BY <1>3, <1>4, <1>5, Rounded
<1> QED BY <1>2, <1>6

\* How many decimals a number is shown with.
LEMMA DecimalsOf ==
  ASSUME NEW n \in Nat
  PROVE  /\ Decimals(n) \in 0..3
         /\ n >= 10^(5 - Decimals(n)) \/ Decimals(n) = 3
         /\ \A e \in 0..(Decimals(n) - 1) : n < 10^(5 - e)
<1> DEFINE P(d) == (n >= 10^(5 - d) \/ d = 3) /\ \A e \in 0..(d - 1) : n < 10^(5 - e)
<1>1. 10^5 = 100000 /\ 10^4 = 10000 /\ 10^3 = 1000
  OBVIOUS
<1>2. 5 - 0 = 5 /\ 5 - 1 = 4 /\ 5 - 2 = 3
  OBVIOUS
<1>3. \E d \in 0..3 : P(d)
  <2>1. CASE n >= 100000
    <3>1. P(0)
      BY <1>1, <1>2, <2>1
    <3> QED BY <3>1
  <2>2. CASE n < 100000 /\ n >= 10000
    <3>1. n >= 10^(5 - 1)
      BY <1>1, <1>2, <2>2
    <3>2. \A e \in 0..0 : n < 10^(5 - e)
      BY <1>1, <1>2, <2>2
    <3>3. P(1)
      BY <3>1, <3>2
    <3> QED BY <3>3
  <2>3. CASE n < 10000 /\ n >= 1000
    <3>1. n >= 10^(5 - 2)
      BY <1>1, <1>2, <2>3
    <3>2. \A e \in 0..1 : n < 10^(5 - e)
      <4>1. n < 10^(5 - 0) /\ n < 10^(5 - 1)
        BY <1>1, <1>2, <2>3
      <4>2. \A e \in 0..1 : e = 0 \/ e = 1
        OBVIOUS
      <4> QED BY <4>1, <4>2
    <3>3. P(2)
      BY <3>1, <3>2
    <3> QED BY <3>3
  <2>4. CASE n < 1000
    <3>2. \A e \in 0..2 : n < 10^(5 - e)
      <4>1. n < 10^(5 - 0) /\ n < 10^(5 - 1) /\ n < 10^(5 - 2)
        BY <1>1, <1>2, <2>4
      <4>2. \A e \in 0..2 : e = 0 \/ e = 1 \/ e = 2
        OBVIOUS
      <4> QED BY <4>1, <4>2
    <3>3. P(3)
      BY <3>2
    <3> QED BY <3>3
  <2> QED BY <2>1, <2>2, <2>3, <2>4
<1>4. Decimals(n) = CHOOSE d \in 0..3 : P(d)
  BY Zenon DEF Decimals
<1> HIDE DEF P
<1>5. Decimals(n) \in 0..3 /\ P(Decimals(n))
  BY <1>3, <1>4
<1> QED BY <1>5, Zenon DEF P

\* A number of a hundredth or more is shown to within a twentieth.
LEMMA ShownPrecisely ==
  ASSUME NEW n \in Nat, n >= 100
  PROVE  LET fixed == IF n < 10^(5 - Decimals(n)) THEN Fixed(<<n, 10000>>, 0) ELSE Fixed(<<n, 10000>>, Decimals(n))
             shown == fixed[1] * (10000 \div fixed[2])
         IN 20 * (shown - n) <= n /\ 20 * (n - shown) <= n
<1> DEFINE d == Decimals(n)
<1>0. 10^5 = 100000 /\ 10^4 = 10000 /\ 10^3 = 1000 /\ 10^2 = 100 /\ 10^1 = 10 /\ 10^0 = 1
  OBVIOUS
<1>1. /\ d \in 0..3 /\ (n >= 10^(5 - d) \/ d = 3)
      /\ \A e \in 0..(d - 1) : n < 10^(5 - e)
  BY DecimalsOf
<1> HIDE DEF d
<1>2. 10^(5 - d) \in Nat
  <2>1. 5 - 0 = 5 /\ 5 - 1 = 4 /\ 5 - 2 = 3 /\ 5 - 3 = 2 /\ (d = 0 \/ d = 1 \/ d = 2 \/ d = 3)
    BY <1>1
  <2>2. 10^(5 - d) \in {10^5, 10^4, 10^3, 10^2}
    BY <2>1
  <2> QED BY <1>0, <2>2
<1>3. ~(n < 10^(5 - d))
  <2>1. CASE d = 3
    <3>1. 10^(5 - d) = 100
      <4>1. 5 - 3 = 2
        OBVIOUS
      <4> QED BY <1>0, <2>1, <4>1
    <3> QED BY <3>1
  <2> QED BY <1>1, <1>2, <2>1
<1> DEFINE fixed == Fixed(<<n, 10000>>, d)
<1>4. LET shown == fixed[1] * (10000 \div fixed[2])
      IN 20 * (shown - n) <= n /\ 20 * (n - shown) <= n
  <2>1. CASE d = 0
    <3>1. n >= 100000
      <4>1. 5 - 0 = 5
        OBVIOUS
      <4> QED BY <1>0, <1>1, <2>1, <4>1
    <3>2. fixed = <<(2 * n * 1 + 10000) \div 20000, 1>>
      BY <1>0, <2>1 DEF Fixed
    <3> QED BY <3>1, <3>2
  <2>2. CASE d = 1
    <3>1. n >= 10000
      <4>1. 5 - 1 = 4
        OBVIOUS
      <4> QED BY <1>0, <1>1, <2>2, <4>1
    <3>2. fixed = <<(2 * n * 10 + 10000) \div 20000, 10>>
      BY <1>0, <2>2 DEF Fixed
    <3> QED BY <3>1, <3>2
  <2>3. CASE d = 2
    <3>1. n >= 1000
      <4>1. 5 - 2 = 3
        OBVIOUS
      <4> QED BY <1>0, <1>1, <2>3, <4>1
    <3>2. fixed = <<(2 * n * 100 + 10000) \div 20000, 100>>
      BY <1>0, <2>3 DEF Fixed
    <3> QED BY <3>1, <3>2
  <2>4. CASE d = 3
    <3>2. fixed = <<(2 * n * 1000 + 10000) \div 20000, 1000>>
      BY <1>0, <2>4 DEF Fixed
    <3> QED BY <3>2
  <2> QED BY <1>1, <2>1, <2>2, <2>3, <2>4
<1> QED BY <1>3, <1>4 DEF d

\* A usage is shown in the unit that is shown with it, whichever unit the total asks for.
LEMMA UsageShown ==
  ASSUME NEW in \in SummaryInputs, InfoBox(CalculateMetrics(in)).metered
  PROVE  LET box == InfoBox(CalculateMetrics(in))
             here == IF in.chosen = {} THEN {1, 2} ELSE in.chosen
         IN SameAmount(<<box.usage[1] * Sizes[box.units], box.usage[2]>>, <<SumOver([n \in here |-> in.usage[n]]), 1>>)
<1> DEFINE S == CalculateMetrics(in)
           box == InfoBox(S)
           f == [n \in Counted(in) |-> in.usage[n]]
           U == SumOver(f)
<1>1. U \in Nat
  <2>1. Counted(in) \subseteq {1, 2} /\ in.usage \in [{1, 2} -> Nat]
    BY NumbersAssumption DEF SummaryInputs, Counted
  <2>2. IsFiniteSet({1, 2})
    <3>1. IsFiniteSet({1}) /\ {1, 2} = {1} \cup {2} /\ IsFiniteSet({2})
      BY FS_Singleton
    <3> QED BY <3>1, FS_Union
  <2>3. IsFiniteSet(Counted(in))
    BY <2>1, <2>2, FS_Subset
  <2>4. f \in [Counted(in) -> Nat]
    BY <2>1
  <2> HIDE DEF f
  <2> QED BY <2>3, <2>4, SumIsNumber
<1>2. f = [n \in IF in.chosen = {} THEN {1, 2} ELSE in.chosen |-> in.usage[n]]
  BY DEF Counted
<1>3. S.usage = ConvertUnits(<<U, 1>>, StatUnits[in.stat][1], StatUnits[in.stat][2]) /\ S.units = StatUnits[in.stat][2]
  BY DEF CalculateMetrics
<1>4. in.stat \in {"cpu", "memory", "volumes"}
  BY DEF SummaryInputs, StatUnits
<1>5. /\ StatUnits["cpu"] = <<"millicores", "cores">> /\ StatUnits["memory"] = <<"bytes", "gibibytes">>
      /\ StatUnits["volumes"] = <<"bytes", "gibibytes">>
  BY DEF StatUnits
<1> HIDE DEF U, S
<1>6. box.usage = ConvertUnits(S.usage, S.units, box.units)
  <2>1. S.total[1] > 0
    BY DEF InfoBox, S
  <2> QED BY <2>1 DEF InfoBox
<1>7. \E t : box.units = FixUnits(t, S.units)
  BY DEF InfoBox
<1> HIDE DEF box
<1>8. Kibi \in Nat /\ Milli \in Nat
  BY NumbersAssumption
<1> DEFINE a == box.usage[1]
           c == box.usage[2]
           z == Sizes[box.units]
<1>9. a * z = U * c /\ a \in Int /\ c \in Int /\ z \in Int
  <2>1. CASE in.stat = "cpu"
    <3>1. S.units = "cores" /\ S.usage = ConvertUnits(<<U, 1>>, "millicores", "cores")
      BY <1>3, <1>5, <2>1
    <3>2. Factor("millicores", "cores") = <<1, Milli>> /\ Factor("cores", "millicores") = <<Milli, 1>>
          /\ Factor("cores", "cores") = <<1, 1>>
      BY DEF Factor
    <3>3. S.usage = <<U, Milli>>
      BY <1>1, <1>8, <3>1, <3>2 DEF ConvertUnits, Mul
    <3>4. box.units = "cores" \/ box.units = "millicores"
      BY <1>7, <3>1 DEF FixUnits
    <3>5. Sizes["cores"] = Milli /\ Sizes["millicores"] = 1
      BY DEF Sizes
    <3>6. CASE box.units = "cores"
      <4>1. box.usage = <<U * 1, Milli * 1>>
        BY <1>6, <3>1, <3>2, <3>3, <3>6 DEF ConvertUnits, Mul
      <4> QED BY <1>1, <1>8, <3>5, <3>6, <4>1
    <3>7. CASE box.units = "millicores"
      <4>1. box.usage = <<U * Milli, Milli * 1>>
        BY <1>6, <3>1, <3>2, <3>3, <3>7 DEF ConvertUnits, Mul
      <4> QED BY <1>1, <1>8, <3>5, <3>7, <4>1
    <3> QED BY <3>4, <3>6, <3>7
  <2>2. CASE in.stat # "cpu"
    <3> DEFINE K == Kibi * Kibi * Kibi
               K2 == Kibi * Kibi
    <3>1. S.units = "gibibytes" /\ S.usage = ConvertUnits(<<U, 1>>, "bytes", "gibibytes")
      BY <1>3, <1>4, <1>5, <2>2
    <3>2. Factor("bytes", "gibibytes") = <<1, K>> /\ Factor("gibibytes", "kibibytes") = <<K2, 1>>
          /\ Factor("gibibytes", "gibibytes") = <<1, 1>>
      BY DEF Factor
    <3>0. K \in Nat /\ K2 \in Nat /\ K = K2 * Kibi
      BY <1>8
    <3>5. Sizes["gibibytes"] = K /\ Sizes["kibibytes"] = Kibi
      BY DEF Sizes
    <3> HIDE DEF K, K2
    <3>3. S.usage = <<U, K>>
      BY <1>1, <3>0, <3>1, <3>2 DEF ConvertUnits, Mul
    <3>4. box.units = "gibibytes" \/ box.units = "kibibytes"
      BY <1>7, <3>1 DEF FixUnits
    <3>6. CASE box.units = "gibibytes"
      <4>1. box.usage = <<U * 1, K * 1>>
        BY <1>6, <3>1, <3>2, <3>3, <3>6 DEF ConvertUnits, Mul
      <4> QED BY <1>1, <1>8, <3>0, <3>5, <3>6, <4>1
    <3>7. CASE box.units = "kibibytes"
      <4>1. box.usage = <<U * K2, K * 1>>
        BY <1>6, <3>1, <3>2, <3>3, <3>7 DEF ConvertUnits, Mul
      <4>2. (U * K2) * Kibi = U * (K * 1) /\ U * K2 \in Int
        BY <1>1, <1>8, <3>0
      <4> QED BY <1>1, <1>8, <3>0, <3>5, <3>7, <4>1, <4>2
    <3> QED BY <3>4, <3>6, <3>7
  <2> QED BY <2>1, <2>2
<1> HIDE DEF a, c, z
<1>10. (a * z) * 1 = U * c
  <2>1. a * z \in Int
    BY <1>9
  <2> QED BY <1>9, <2>1
<1>11. SameAmount(<<a * z, c>>, <<U, 1>>)
  BY <1>10 DEF SameAmount
<1> QED BY <1>2, <1>11, Zenon DEF a, c, z, box, U, S

(* Decoding: after g groups, the bytes of those groups.                    *)

\* Sequences of a number each, one after the other.
LEMMA TwoJoined ==
  ASSUME NEW s \in Seq(Nat), NEW b \in Nat
  PROVE  /\ s \o <<b>> \in Seq(Nat) /\ Len(s \o <<b>>) = Len(s) + 1 /\ (s \o <<b>>)[Len(s) + 1] = b
         /\ \A i \in 1..Len(s) : (s \o <<b>>)[i] = s[i]
<1> DEFINE t == <<b>>
<1>1. t \in Seq(Nat) /\ Len(t) = 1 /\ t[1] = b
  OBVIOUS
<1> HIDE DEF t
<1>2. /\ s \o t \in Seq(Nat) /\ Len(s \o t) = Len(s) + Len(t)
      /\ \A i \in 1..(Len(s) + Len(t)) : (s \o t)[i] = IF i <= Len(s) THEN s[i] ELSE t[i - Len(s)]
  BY <1>1, ConcatProperties
<1>3. Len(s) \in Nat
  OBVIOUS
<1>4. (s \o t)[Len(s) + 1] = t[(Len(s) + 1) - Len(s)] /\ (Len(s) + 1) - Len(s) = 1
  BY <1>1, <1>2, <1>3
<1>5. \A i \in 1..Len(s) : (s \o t)[i] = s[i]
  BY <1>1, <1>2, <1>3
<1> QED BY <1>1, <1>2, <1>4, <1>5 DEF t

Bytes1(q, a) == q \in Seq(Nat) /\ Len(q) = 1 /\ q[1] = a
Bytes2(q, a, b) == q \in Seq(Nat) /\ Len(q) = 2 /\ q[1] = a /\ q[2] = b
Bytes3(q, a, b, c) == q \in Seq(Nat) /\ Len(q) = 3 /\ q[1] = a /\ q[2] = b /\ q[3] = c
Sextets1(e, a, b) == e[1] = a \div 4 /\ e[2] = (a % 4) * 16 + b \div 16 /\ e[3] = 64 /\ e[4] = 64
Sextets2(e, a, b, c) ==
  e[1] = a \div 4 /\ e[2] = (a % 4) * 16 + b \div 16 /\ e[3] = (b % 16) * 4 + c \div 64 /\ e[4] = 64
Sextets3(e, a, b, c) ==
  e[1] = a \div 4 /\ e[2] = (a % 4) * 16 + b \div 16 /\ e[3] = (b % 16) * 4 + c \div 64 /\ e[4] = c % 64

\* What the sextets of a group decode to.
LEMMA GroupDecoded ==
  ASSUME NEW a \in 0..255, NEW b \in 0..255, NEW c \in 0..255, NEW e
  PROVE  /\ Sextets1(e, a, b) => Bytes1(DecodeGroup(e), a)
         /\ Sextets2(e, a, b, c) => Bytes2(DecodeGroup(e), a, b)
         /\ Sextets3(e, a, b, c) => Bytes3(DecodeGroup(e), a, b, c)
<1> DEFINE p == e[1]
           q == e[2]
           r == e[3]
           t == e[4]
           A == <<a>>
           AB == A \o <<b>>
           ABC == AB \o <<c>>
<1>1. DecodeGroup(e) = <<p * 4 + q \div 16>> \o (IF r # 64 THEN <<(q % 16) * 16 + r \div 4>> ELSE <<>>)
                       \o (IF t # 64 THEN <<(r % 4) * 64 + t>> ELSE <<>>)
  BY Zenon DEF DecodeGroup
<1> HIDE DEF p, q, r, t
<1>3. ASSUME p = a \div 4, q = (a % 4) * 16 + b \div 16 PROVE p * 4 + q \div 16 = a
  BY <1>3
<1>4. ASSUME q = (a % 4) * 16 + b \div 16, r = (b % 16) * 4 + c \div 64 PROVE r # 64 /\ (q % 16) * 16 + r \div 4 = b
  BY <1>4
<1>5. ASSUME r = (b % 16) * 4 + c \div 64, t = c % 64 PROVE t # 64 /\ (r % 4) * 64 + t = c
  BY <1>5
<1>n. a \in Nat /\ b \in Nat /\ c \in Nat
  OBVIOUS
<1>a. A \in Seq(Nat) /\ Len(A) = 1 /\ A[1] = a
  BY <1>n
<1> HIDE DEF A
<1>ab. AB \in Seq(Nat) /\ Len(AB) = 2 /\ AB[1] = a /\ AB[2] = b
  <2>1. AB \in Seq(Nat) /\ Len(AB) = 1 + 1 /\ AB[1 + 1] = b /\ \A i \in 1..1 : AB[i] = A[i]
    <3>1. AB \in Seq(Nat) /\ Len(AB) = Len(A) + 1 /\ AB[Len(A) + 1] = b /\ \A i \in 1..Len(A) : AB[i] = A[i]
      BY <1>n, <1>a, TwoJoined, Zenon
    <3> HIDE DEF AB
    <3> QED BY <1>a, <3>1
  <2>2. AB[1] = A[1]
    BY <2>1
  <2> QED BY <1>a, <2>1, <2>2
<1> HIDE DEF AB
<1>abc. ABC \in Seq(Nat) /\ Len(ABC) = 3 /\ ABC[1] = a /\ ABC[2] = b /\ ABC[3] = c
  <2>1. ABC \in Seq(Nat) /\ Len(ABC) = 2 + 1 /\ ABC[2 + 1] = c /\ \A i \in 1..2 : ABC[i] = AB[i]
    <3>1. ABC \in Seq(Nat) /\ Len(ABC) = Len(AB) + 1 /\ ABC[Len(AB) + 1] = c /\ \A i \in 1..Len(AB) : ABC[i] = AB[i]
      BY <1>n, <1>ab, TwoJoined, Zenon
    <3> HIDE DEF ABC
    <3> QED BY <1>ab, <3>1
  <2>2. ABC[1] = AB[1] /\ ABC[2] = AB[2]
    BY <2>1
  <2> QED BY <1>ab, <2>1, <2>2
<1> HIDE DEF ABC
<1>6. ASSUME Sextets1(e, a, b) PROVE DecodeGroup(e) = A
  <2>1. p = a \div 4 /\ q = (a % 4) * 16 + b \div 16 /\ r = 64 /\ t = 64
    BY <1>6 DEF Sextets1, p, q, r, t
  <2> QED BY <1>1, <1>3, <2>1 DEF A
<1>7. ASSUME Sextets2(e, a, b, c) PROVE DecodeGroup(e) = AB
  <2>0. p = a \div 4 /\ q = (a % 4) * 16 + b \div 16 /\ r = (b % 16) * 4 + c \div 64 /\ t = 64
    BY <1>7 DEF Sextets2, p, q, r, t
  <2>1. DecodeGroup(e) = A \o <<b>> \o <<>>
    BY <1>1, <1>3, <1>4, <2>0 DEF A
  <2> QED BY <1>ab, <2>1, ConcatEmptySeq DEF AB
<1>8. ASSUME Sextets3(e, a, b, c) PROVE DecodeGroup(e) = ABC
  <2>0. p = a \div 4 /\ q = (a % 4) * 16 + b \div 16 /\ r = (b % 16) * 4 + c \div 64 /\ t = c % 64
    BY <1>8 DEF Sextets3, p, q, r, t
  <2> QED BY <1>1, <1>3, <1>4, <1>5, <2>0 DEF A, AB, ABC
<1> QED BY <1>a, <1>ab, <1>abc, <1>6, <1>7, <1>8 DEF Bytes1, Bytes2, Bytes3

DecodedUpTo(s, g, w) ==
  LET n == Len(s)
      m == IF 3 * g <= n THEN 3 * g ELSE n
  IN /\ w = [done |-> FALSE, decoded |-> 3 * g >= n, input |-> Encoded(s), i |-> 4 * g, bytes |-> w.bytes, at |-> 1,
             shown |-> <<>>]
     /\ w.bytes \in Seq(Nat) /\ Len(w.bytes) = m /\ \A k \in 1..m : w.bytes[k] = s[k]

\* What unescape went over already is what it found, where it finds no escape.
PlainUpTo(s, w) ==
  /\ w.at \in 1..(Len(s) + 1) /\ w.shown \in Seq(Letters) /\ Len(w.shown) = w.at - 1
  /\ \A k \in 1..(w.at - 1) : w.shown[k] = s[k]
  /\ w.done => w.at = Len(s) + 1
UnescapedUpTo(s, w) == w.decoded /\ w.bytes = s /\ (~ Escapes(s) => PlainUpTo(s, w))

\* The sextets of a group of up to three bytes.
LEMMA Sextets ==
  ASSUME NEW s \in Seq(Letters), NEW g \in Nat, 3 * g < Len(s)
  PROVE  LET a == At(s, 3 * g + 1)
             b == At(s, 3 * g + 2)
             c == At(s, 3 * g + 3)
         IN /\ Encoded(s)[4 * g + 1] = a \div 4
            /\ Encoded(s)[4 * g + 2] = (a % 4) * 16 + b \div 16
            /\ Encoded(s)[4 * g + 3] = IF 3 * g + 2 <= Len(s) THEN (b % 16) * 4 + c \div 64 ELSE 64
            /\ Encoded(s)[4 * g + 4] = IF 3 * g + 3 <= Len(s) THEN c % 64 ELSE 64
<1> DEFINE n == Len(s)
           h == (n + 2) \div 3
           E(k, f) == LET a == At(s, 3 * f + 1)
                          b == At(s, 3 * f + 2)
                          c == At(s, 3 * f + 3)
                      IN CASE k = 0 -> a \div 4
                           [] k = 1 -> (a % 4) * 16 + b \div 16
                           [] k = 2 -> IF 3 * f + 2 <= n THEN (b % 16) * 4 + c \div 64 ELSE 64
                           [] k = 3 -> IF 3 * f + 3 <= n THEN c % 64 ELSE 64
<1>1. \A i \in 1..(4 * h) : Encoded(s)[i] = E((i - 1) % 4, (i - 1) \div 4)
  BY DEF Encoded
<1>2. \A k \in 1..4 : 4 * g + k \in 1..(4 * h) /\ (4 * g + k - 1) \div 4 = g /\ (4 * g + k - 1) % 4 = k - 1
  <2>1. n \in Nat
    OBVIOUS
  <2> HIDE DEF n
  <2>2. h \in Nat /\ g + 1 <= h
    BY <2>1 DEF n
  <2> HIDE DEF h
  <2> QED BY <2>2
<1> HIDE DEF E, h
<1>3. \A k \in 1..4 : Encoded(s)[4 * g + k] = E(k - 1, g)
  BY <1>1, <1>2
<1>4. /\ Encoded(s)[4 * g + 1] = E(0, g) /\ Encoded(s)[4 * g + 2] = E(1, g)
      /\ Encoded(s)[4 * g + 3] = E(2, g) /\ Encoded(s)[4 * g + 4] = E(3, g)
  <2>1. 1 - 1 = 0 /\ 2 - 1 = 1 /\ 3 - 1 = 2 /\ 4 - 1 = 3 /\ 1 \in 1..4 /\ 2 \in 1..4 /\ 3 \in 1..4 /\ 4 \in 1..4
    OBVIOUS
  <2> QED BY <1>3, <2>1
<1> QED BY <1>4 DEF E

\* A turn of the loop decodes three bytes more, or those that are left.
LEMMA GroupTurn ==
  ASSUME NEW s \in Seq(Letters), NEW g \in Nat, 3 * g < Len(s), NEW w, DecodedUpTo(s, g, w),
         NEW next, next = [done |-> FALSE, decoded |-> w.i + 4 >= Len(w.input), input |-> w.input, i |-> w.i + 4,
                           bytes |-> w.bytes \o DecodeGroup([k \in 1..4 |-> At(w.input, w.i + k)]), at |-> 1,
                           shown |-> <<>>]
  PROVE  DecodedUpTo(s, g + 1, next)
<1> DEFINE n == Len(s)
           a == At(s, 3 * g + 1)
           b == At(s, 3 * g + 2)
           c == At(s, 3 * g + 3)
           e == [k \in 1..4 |-> Encoded(s)[4 * g + k]]
           h == (n + 2) \div 3
<1>1. n \in Nat /\ h \in Nat /\ 3 * g < n /\ (g + 1 <= h) /\ (g + 1 >= h <=> 3 * (g + 1) >= n)
  OBVIOUS
<1>2. Letters \subseteq 0..255
  BY NumbersAssumption
<1>3. a \in 0..255 /\ b \in 0..255 /\ c \in 0..255 /\ a = s[3 * g + 1] /\ a \in Letters
  <2>1. ASSUME NEW j \in Nat \ {0} PROVE At(s, j) \in 0..255
    <3>1. CASE j <= n
      <4>1. s[j] \in Letters
        BY <3>1
      <4> QED BY <1>2, <3>1, <4>1 DEF At
    <3>2. CASE ~(j <= n)
      BY <3>2 DEF At
    <3> QED BY <3>1, <3>2
  <2>2. 3 * g + 1 \in 1..n /\ 3 * g + 1 \in Nat \ {0} /\ 3 * g + 2 \in Nat \ {0} /\ 3 * g + 3 \in Nat \ {0}
    BY <1>1
  <2>3. a = s[3 * g + 1]
    BY <2>2 DEF At
  <2>4. s[3 * g + 1] \in Letters
    BY <2>2
  <2> QED BY <2>1, <2>2, <2>3, <2>4
<1>4. Len(Encoded(s)) = 4 * h
  BY <1>1 DEF Encoded
<1>5. /\ e[1] = a \div 4 /\ e[2] = (a % 4) * 16 + b \div 16
      /\ e[3] = IF 3 * g + 2 <= n THEN (b % 16) * 4 + c \div 64 ELSE 64
      /\ e[4] = IF 3 * g + 3 <= n THEN c % 64 ELSE 64
  <2>1. e[1] = Encoded(s)[4 * g + 1] /\ e[2] = Encoded(s)[4 * g + 2] /\ e[3] = Encoded(s)[4 * g + 3]
        /\ e[4] = Encoded(s)[4 * g + 4]
    OBVIOUS
  <2> HIDE DEF e
  <2> QED BY <2>1, Sextets
<1> DEFINE out == DecodeGroup(e)
           m == IF 3 * (g + 1) <= n THEN 3 ELSE n - 3 * g
<1>7. out \in Seq(Nat) /\ Len(out) = m /\ \A k \in 1..m : out[k] = s[3 * g + k]
  <2> HIDE DEF e, a, b, c, h
  <2>0. /\ Sextets1(e, a, b) => Bytes1(DecodeGroup(e), a)
        /\ Sextets2(e, a, b, c) => Bytes2(DecodeGroup(e), a, b)
        /\ Sextets3(e, a, b, c) => Bytes3(DecodeGroup(e), a, b, c)
    BY <1>3, GroupDecoded, Zenon
  <2>2. CASE 3 * g + 3 <= n
    <3>1. Sextets3(e, a, b, c)
      BY <1>1, <1>5, <2>2 DEF Sextets3
    <3>2. Bytes3(out, a, b, c)
      BY <2>0, <3>1
    <3>3. a = s[3 * g + 1] /\ b = s[3 * g + 2] /\ c = s[3 * g + 3]
      BY <1>1, <1>3, <2>2 DEF a, b, c, At
    <3>4. m = 3
      BY <1>1, <2>2
    <3>5. \A k \in 1..3 : k = 1 \/ k = 2 \/ k = 3
      OBVIOUS
    <3> HIDE DEF m, out
    <3> QED BY <3>2, <3>3, <3>4, <3>5 DEF Bytes3
  <2>3. CASE 3 * g + 2 = n
    <3>1. Sextets2(e, a, b, c)
      BY <1>1, <1>5, <2>3 DEF Sextets2
    <3>2. Bytes2(out, a, b)
      BY <2>0, <3>1
    <3>3. a = s[3 * g + 1] /\ b = s[3 * g + 2]
      BY <1>1, <1>3, <2>3 DEF a, b, At
    <3>4. m = 2
      BY <1>1, <2>3
    <3>5. \A k \in 1..2 : k = 1 \/ k = 2
      OBVIOUS
    <3> HIDE DEF m, out
    <3> QED BY <3>2, <3>3, <3>4, <3>5 DEF Bytes2
  <2>4. CASE 3 * g + 1 = n
    <3>1. Sextets1(e, a, b)
      BY <1>1, <1>5, <2>4 DEF Sextets1
    <3>2. Bytes1(out, a)
      BY <2>0, <3>1
    <3>3. m = 1
      BY <1>1, <2>4
    <3>4. \A k \in 1..1 : k = 1
      OBVIOUS
    <3> HIDE DEF m, out
    <3> QED BY <1>3, <3>2, <3>3, <3>4 DEF Bytes1
  <2> QED BY <1>1, <2>2, <2>3, <2>4
<1>8. /\ w.input = Encoded(s) /\ w.i = 4 * g /\ w.bytes \in Seq(Nat) /\ Len(w.bytes) = 3 * g
      /\ \A k \in 1..(3 * g) : w.bytes[k] = s[k]
  BY <1>1 DEF DecodedUpTo
<1> DEFINE M == IF 3 * (g + 1) <= n THEN 3 * (g + 1) ELSE n
<1>9. M = 3 * g + m /\ m \in Nat /\ M \in Nat
  <2>1. CASE 3 * (g + 1) <= n
    BY <1>1, <2>1
  <2>2. CASE ~(3 * (g + 1) <= n)
    BY <1>1, <2>2
  <2> QED BY <2>1, <2>2
<1>10. next.bytes = w.bytes \o out
  <2>1. ASSUME NEW k \in 1..4 PROVE At(w.input, w.i + k) = Encoded(s)[4 * g + k]
    <3>1. 4 * g + k <= 4 * h
      BY <1>1
    <3> HIDE DEF h
    <3> QED BY <1>4, <1>8, <3>1 DEF At
  <2>2. [k \in 1..4 |-> At(w.input, w.i + k)] = e
    BY <2>1
  <2>3. next.bytes = w.bytes \o DecodeGroup([k \in 1..4 |-> At(w.input, w.i + k)])
    OBVIOUS
  <2> QED BY <2>2, <2>3
<1> HIDE DEF out, e, a, b, c, m, M
<1> DEFINE x == w.bytes
           z == next.bytes
<1>15. x \in Seq(Nat) /\ out \in Seq(Nat) /\ z = x \o out /\ Len(x) = 3 * g /\ Len(out) = m
  BY <1>7, <1>8, <1>10
<1>16. \A k \in 1..(3 * g) : x[k] = s[k]
  BY <1>8
<1> HIDE DEF x, z
<1>14. z \in Seq(Nat) /\ Len(z) = Len(x) + Len(out)
       /\ \A k \in 1..(Len(x) + Len(out)) : z[k] = IF k <= Len(x) THEN x[k] ELSE out[k - Len(x)]
  BY <1>15, ConcatProperties
<1>11. z \in Seq(Nat) /\ Len(z) = M
  BY <1>9, <1>14, <1>15
<1>12. ASSUME NEW k \in 1..M PROVE z[k] = s[k]
  <2>0. z[k] = IF k <= 3 * g THEN x[k] ELSE out[k - 3 * g]
    BY <1>9, <1>14, <1>15
  <2>2. CASE k <= 3 * g
    BY <1>9, <1>16, <2>0, <2>2
  <2>3. CASE k > 3 * g
    <3>1. k - 3 * g \in 1..m /\ 3 * g + (k - 3 * g) = k
      BY <1>9, <2>3
    <3>2. z[k] = out[k - 3 * g]
      BY <1>9, <2>0, <2>3
    <3> QED BY <1>7, <3>1, <3>2
  <2> QED BY <2>2, <2>3, <1>9
<1>13. next = [done |-> FALSE, decoded |-> 3 * (g + 1) >= n, input |-> Encoded(s), i |-> 4 * (g + 1),
               bytes |-> next.bytes, at |-> 1, shown |-> <<>>]
  <2>1. w.i + 4 = 4 * (g + 1)
    BY <1>8
  <2>2. (w.i + 4 >= Len(w.input)) = (3 * (g + 1) >= n)
    <3>1. 4 * (g + 1) >= 4 * h <=> g + 1 >= h
      BY <1>1
    <3>2. w.i + 4 >= Len(w.input) <=> 3 * (g + 1) >= n
      BY <1>1, <1>4, <1>8, <2>1, <3>1
    <3> QED BY <3>2
  <2> QED BY <1>8, <2>1, <2>2
<1> QED BY <1>11, <1>12, <1>13 DEF DecodedUpTo, M, z

\* When the loop has ended, the bytes are those that were encoded.
LEMMA AllDecoded ==
  ASSUME NEW s \in Seq(Letters), NEW g \in Nat, NEW w, DecodedUpTo(s, g, w), w.decoded
  PROVE  UnescapedUpTo(s, w)
<1> DEFINE n == Len(s)
           out == w.bytes
<1>1. 3 * g >= n /\ n \in Nat
  <2> DEFINE full == 3 * g >= n
             code == Encoded(s)
             x == w.bytes
             f == 4 * g
  <2>1. w = [done |-> FALSE, decoded |-> full, input |-> code, i |-> f, bytes |-> x, at |-> 1, shown |-> <<>>]
    BY DEF DecodedUpTo
  <2> HIDE DEF full, code, x, f, out
  <2>2. w.decoded = full
    BY ONLY <2>1
  <2>3. full
    BY <2>2, Zenon
  <2>4. Len(s) \in Nat
    OBVIOUS
  <2> QED BY <2>3, <2>4, Zenon DEF full
<1>2. (IF 3 * g <= n THEN 3 * g ELSE n) = n
  BY <1>1
<1>3. out \in Seq(Nat) /\ Len(out) = n /\ \A k \in 1..n : out[k] = s[k]
  BY <1>2 DEF DecodedUpTo
<1>4. s \in Seq(Nat)
  <2>1. Letters \subseteq Nat
    BY NumbersAssumption
  <2>2. s \in [1..n -> Letters] /\ n \in Nat
    OBVIOUS
  <2>3. s \in [1..n -> Nat]
    BY <2>1, <2>2
  <2> QED BY <2>2, <2>3
<1>5. w.bytes = s
  BY <1>3, <1>4, SeqEqual
<1>6. w.at = 1 /\ w.shown = <<>> /\ w.done = FALSE
  BY DEF DecodedUpTo
<1>7. PlainUpTo(s, w)
  BY <1>1, <1>6 DEF PlainUpTo
<1> QED BY <1>5, <1>7 DEF UnescapedUpTo

\* A turn of unescape takes one character over, where there is no escape.
LEMMA UnescapeTurn ==
  ASSUME NEW s \in Seq(Letters), NEW w, PlainUpTo(s, w), w.bytes = s, ~ w.done, ~ Escapes(s),
         NEW ends, ends = (w.at > Len(w.bytes)),
         NEW next, next.done = ends, next.at = (IF ends THEN w.at ELSE Unescaped(w.bytes, w.at).next),
         next.shown = IF ends THEN w.shown ELSE Append(w.shown, Unescaped(w.bytes, w.at).char)
  PROVE  PlainUpTo(s, next)
<1> DEFINE n == Len(s)
           k == w.at
<1>1. n \in Nat /\ k \in 1..(n + 1) /\ w.shown \in Seq(Letters) /\ Len(w.shown) = k - 1
      /\ \A j \in 1..(k - 1) : w.shown[j] = s[j]
  BY DEF PlainUpTo
<1>2. CASE ends
  <2>0. k > Len(s)
    BY <1>2, Zenon
  <2>1. k = n + 1
    BY <1>1, <2>0
  <2>2. next.at = k /\ next.shown = w.shown
    BY <1>2
  <2> QED BY <1>1, <2>1, <2>2 DEF PlainUpTo
<1>3. CASE ~ ends
  <2>0. ~ (k > Len(s))
    BY <1>3, Zenon
  <2>1. k \in 1..n /\ k \in DOMAIN s
    BY <1>1, <2>0
  <2>2. ~ Wide(s, k) /\ ~ Narrow(s, k)
    BY <2>1 DEF Escapes
  <2>3. Unescaped(s, k) = [char |-> s[k], next |-> k + 1]
    BY <2>2 DEF Unescaped
  <2>4. next.at = k + 1 /\ next.shown = Append(w.shown, s[k]) /\ ~ next.done
    BY <1>3, <2>3
  <2>5. s[k] \in Letters
    BY <2>1
  <2>6. next.shown \in Seq(Letters) /\ Len(next.shown) = k
    BY <1>1, <2>4, <2>5
  <2>7. ASSUME NEW j \in 1..k PROVE next.shown[j] = s[j]
    BY <1>1, <2>4, <2>5
  <2> QED BY <1>1, <2>1, <2>4, <2>6, <2>7 DEF PlainUpTo
<1> QED BY <1>2, <1>3

(* The usage column: what is in the queue is looked at later, with the     *)
(* pods it owns; the pods looked at already are summed and counted.        *)
Metered(in) == {p \in Leaf : in.owner[p] \in {1, 2} /\ in.usage[p] >= 0}
Later(in, q) == {p \in Leaf : p \in ToSet(q) \/ in.owner[p] \in ToSet(q) \cap {1, 2}}
Summed(in, q) == Metered(in) \ Later(in, q)
QueueOnce(in, q) ==
  /\ q \in Seq({1, 2} \cup Leaf) /\ IsInjective(q)
  /\ \A p \in Leaf : p \in ToSet(q) => in.owner[p] \in {1, 2} /\ in.owner[p] \notin ToSet(q)
Usages(in, S) == [p \in S |-> in.usage[p]]
Turning(in, w, q) ==
  /\ w = [done |-> FALSE, queue |-> q, total |-> <<SumOver(Usages(in, Summed(in, q))), 1>>,
          count |-> Cardinality(Summed(in, q))]
  /\ QueueOnce(in, q)
CellShown(in, w) ==
  w = [done |-> TRUE, queue |-> <<>>, total |-> ConvertUnits(<<SumOver(Usages(in, Metered(in))), 1>>, "millicores", "cores"),
       count |-> Cardinality(Metered(in))]

\* The head of a sequence without repetitions is not in its tail.
LEMMA HeadOnce ==
  ASSUME NEW S, NEW q \in Seq(S), q # <<>>, IsInjective(q)
  PROVE  /\ Head(q) \in S /\ Tail(q) \in Seq(S) /\ IsInjective(Tail(q))
         /\ ToSet(Tail(q)) = ToSet(q) \ {Head(q)} /\ Head(q) \in ToSet(q)
<1>1. Len(q) \in Nat \ {0} /\ DOMAIN q = 1..Len(q) /\ Head(q) = q[1] /\ q[1] \in S
  OBVIOUS
<1>2. /\ Tail(q) \in Seq(S) /\ Len(Tail(q)) = Len(q) - 1 /\ DOMAIN Tail(q) = 1..(Len(q) - 1)
      /\ \A i \in 1..(Len(q) - 1) : Tail(q)[i] = q[i + 1]
  OBVIOUS
<1>3. \A i, j \in 1..Len(q) : q[i] = q[j] => i = j
  BY <1>1 DEF IsInjective
<1> DEFINE t == Tail(q)
           n == Len(q)
<1> HIDE DEF t, n
<1>4. IsInjective(Tail(q))
  <2>1. \A i, j \in 1..(n - 1) : t[i] = t[j] => i = j
    BY <1>1, <1>2, <1>3 DEF t, n
  <2> QED BY <1>2, <2>1 DEF t, n, IsInjective
<1>5. ToSet(Tail(q)) = ToSet(q) \ {Head(q)}
  <2>1. ToSet(q) = {q[i] : i \in 1..n} /\ ToSet(t) = {t[i] : i \in 1..(n - 1)}
    BY <1>1, <1>2 DEF ToSet, t, n
  <2>2. \A x \in ToSet(t) : x \in ToSet(q) /\ x # q[1]
    <3> SUFFICES ASSUME NEW i \in 1..(n - 1) PROVE q[i + 1] \in ToSet(q) /\ q[i + 1] # q[1] /\ t[i] = q[i + 1]
      BY <2>1
    <3>1. i + 1 \in 1..n /\ i + 1 # 1 /\ 1 \in 1..n
      BY <1>1 DEF n
    <3> QED BY <1>2, <1>3, <2>1, <3>1 DEF t, n
  <2>3. \A x \in ToSet(q) : x # q[1] => x \in ToSet(t)
    <3> SUFFICES ASSUME NEW i \in 1..n, q[i] # q[1] PROVE q[i] \in ToSet(t)
      BY <2>1
    <3>1. i - 1 \in 1..(n - 1) /\ (i - 1) + 1 = i
      BY <1>1 DEF n
    <3>2. t[i - 1] = q[i]
      BY <1>2, <3>1 DEF t, n
    <3> QED BY <2>1, <3>1, <3>2
  <2> QED BY <1>1, <2>2, <2>3 DEF t
<1>6. Head(q) \in ToSet(q)
  BY <1>1 DEF ToSet
<1> QED BY <1>1, <1>2, <1>4, <1>5, <1>6

\* Sequences without repetitions and without an element in common.
LEMMA JoinedOnce ==
  ASSUME NEW S, NEW q \in Seq(S), NEW r \in Seq(S), IsInjective(q), IsInjective(r), ToSet(q) \cap ToSet(r) = {}
  PROVE  q \o r \in Seq(S) /\ IsInjective(q \o r) /\ ToSet(q \o r) = ToSet(q) \cup ToSet(r)
<1> DEFINE a == Len(q)
           b == Len(r)
           x == q \o r
<1>1. a \in Nat /\ b \in Nat /\ DOMAIN q = 1..a /\ DOMAIN r = 1..b
  OBVIOUS
<1>2. x \in Seq(S) /\ Len(x) = a + b /\ \A i \in 1..(a + b) : x[i] = IF i <= a THEN q[i] ELSE r[i - a]
  BY ConcatProperties
<1>3. DOMAIN x = 1..(a + b)
  BY <1>2
<1>4. /\ \A i, j \in 1..a : q[i] = q[j] => i = j
      /\ \A i, j \in 1..b : r[i] = r[j] => i = j
  BY <1>1 DEF IsInjective
<1>5. \A i \in 1..a, j \in 1..b : q[i] # r[j]
  BY <1>1 DEF ToSet
<1>6. ToSet(q) = {q[i] : i \in 1..a} /\ ToSet(r) = {r[i] : i \in 1..b} /\ ToSet(x) = {x[i] : i \in 1..(a + b)}
  BY <1>1, <1>3 DEF ToSet
<1> HIDE DEF a, b, x
<1>7. \A i \in 1..(a + b) : IF i <= a THEN i \in 1..a /\ x[i] = q[i] ELSE i - a \in 1..b /\ x[i] = r[i - a]
  BY <1>1, <1>2
<1>8. \A i, j \in 1..(a + b) : x[i] = x[j] => i = j
  <2> SUFFICES ASSUME NEW i \in 1..(a + b), NEW j \in 1..(a + b), x[i] = x[j] PROVE i = j
    OBVIOUS
  <2>1. CASE i <= a /\ j <= a
    BY <1>4, <1>7, <2>1
  <2>2. CASE i > a /\ j > a
    <3>1. i - a \in 1..b /\ j - a \in 1..b /\ r[i - a] = r[j - a]
      BY <1>1, <1>7, <2>2
    <3>2. i - a = j - a
      BY <1>4, <3>1
    <3> QED BY <1>1, <3>2
  <2>3. CASE i <= a /\ j > a
    BY <1>1, <1>5, <1>7, <2>3
  <2>4. CASE i > a /\ j <= a
    BY <1>1, <1>5, <1>7, <2>4
  <2> QED BY <1>1, <2>1, <2>2, <2>3, <2>4
<1>9. ToSet(x) = ToSet(q) \cup ToSet(r)
  <2>1. \A e \in ToSet(x) : e \in ToSet(q) \cup ToSet(r)
    BY <1>6, <1>7
  <2>2. \A e \in ToSet(q) : e \in ToSet(x)
    <3> SUFFICES ASSUME NEW i \in 1..a PROVE q[i] \in ToSet(x)
      BY <1>6
    <3>1. i \in 1..(a + b) /\ i <= a
      BY <1>1
    <3> QED BY <1>6, <1>7, <3>1
  <2>3. \A e \in ToSet(r) : e \in ToSet(x)
    <3> SUFFICES ASSUME NEW i \in 1..b PROVE r[i] \in ToSet(x)
      BY <1>6
    <3>1. i + a \in 1..(a + b) /\ ~(i + a <= a) /\ (i + a) - a = i
      BY <1>1
    <3> QED BY <1>6, <1>7, <3>1
  <2> QED BY <2>1, <2>2, <2>3
<1>10. IsInjective(x)
  BY <1>3, <1>8 DEF IsInjective
<1> QED BY <1>2, <1>9, <1>10 DEF x

\* What is below a resource of the queue.
LEMMA BelowInQueue ==
  ASSUME NEW r \in {1, 2} \cup Leaf
  PROVE  /\ OwnedBelow(r) = IF r \in {1, 2} THEN {p \in Leaf : job.in.owner[p] = r} ELSE {}
         /\ IsFiniteSet(OwnedBelow(r)) /\ (r \in {1, 2} => r \notin Leaf)
         /\ r # 0
<1>1. IsFiniteSet(Leaf) /\ Leaf \cap {0, 1, 2} = {}
  BY NumbersAssumption
<1>2. r # 0 /\ (r \in {1, 2} => r \notin Leaf)
  BY <1>1
<1>3. OwnedBelow(r) = IF r \in {1, 2} THEN {p \in Leaf : job.in.owner[p] = r} ELSE {}
  BY <1>2 DEF OwnedBelow
<1>4. OwnedBelow(r) \subseteq Leaf
  BY <1>3
<1> QED BY <1>1, <1>2, <1>3, <1>4, FS_Subset

\* The usages of pods with metrics.
LEMMA UsagesOf ==
  ASSUME NEW in \in CellInputs, NEW S, S \subseteq Metered(in)
  PROVE  IsFiniteSet(S) /\ Usages(in, S) \in [S -> Nat] /\ IsFiniteSet(Units(Usages(in, S))) /\ SumOver(Usages(in, S)) \in Nat
<1>1. IsFiniteSet(S)
  BY NumbersAssumption, FS_Subset DEF Metered
<1>2. Usages(in, S) \in [S -> Nat]
  <2>1. ASSUME NEW p \in S PROVE in.usage[p] \in Nat
    <3>1. p \in Leaf /\ in.usage[p] >= 0 /\ in.usage \in [Leaf -> Amounts \cup {-1}]
      BY DEF Metered, CellInputs
    <3>2. in.usage[p] \in Amounts \/ in.usage[p] = -1
      BY <3>1
    <3> DEFINE a == in.usage[p]
    <3>3. (a \in Amounts \/ a = -1) /\ a >= 0 /\ Amounts \subseteq Nat
      BY <3>1, <3>2, NumbersAssumption
    <3>4. CASE a \in Amounts
      BY <3>3, <3>4
    <3>5. CASE a = -1
      <4>1. ~(-1 >= 0)
        OBVIOUS
      <4> QED BY <3>3, <3>5, <4>1
    <3> QED BY <3>3, <3>4, <3>5 DEF a
  <2> QED BY <2>1 DEF Usages
<1> QED BY <1>1, <1>2, SumIsNumber

\* One pod more: its usage is added, and it is counted.
LEMMA OnePodMore ==
  ASSUME NEW in \in CellInputs, NEW S, NEW p, p \in Metered(in), p \notin S, S \subseteq Metered(in)
  PROVE  /\ SumOver(Usages(in, S \cup {p})) = SumOver(Usages(in, S)) + in.usage[p]
         /\ Cardinality(S \cup {p}) = Cardinality(S) + 1
<1> DEFINE f == Usages(in, S)
           g == Usages(in, S \cup {p})
<1>1. IsFiniteSet(S) /\ IsFiniteSet(Units(f)) /\ g \in [S \cup {p} -> Nat]
  BY UsagesOf
<1>2. DOMAIN f = S /\ DOMAIN g = DOMAIN f \cup {p} /\ (\A y \in DOMAIN f : g[y] = f[y]) /\ g[p] = in.usage[p]
  BY DEF Usages
<1>3. g[p] \in Nat
  BY <1>1
<1> HIDE DEF f, g
<1>4. SumOver(g) = SumOver(f) + g[p]
  BY <1>1, <1>2, <1>3, SumAdded
<1>5. Cardinality(S \cup {p}) = Cardinality(S) + 1
  BY <1>1, FS_AddElement
<1> QED BY <1>2, <1>4, <1>5 DEF f, g

\* The loop starts with the replica sets.
LEMMA CellStarts ==
  ASSUME NEW in \in CellInputs, NEW w, w = [done |-> FALSE, queue |-> SetToSeq(OwnedBelow(0)), total |-> <<0, 1>>, count |-> 0]
  PROVE  \E q : Turning(in, w, q)
<1> DEFINE q == SetToSeq({1, 2})
<1>1. OwnedBelow(0) = {1, 2}
  BY DEF OwnedBelow
<1>2. IsFiniteSet({1, 2})
  <2>1. IsFiniteSet({1}) /\ {1, 2} = {1} \cup {2} /\ IsFiniteSet({2})
    BY FS_Singleton
  <2> QED BY <2>1, FS_Union
<1>3. q \in Seq({1, 2}) /\ IsInjective(q) /\ ToSet(q) = {1, 2}
  BY <1>2, SetOnce
<1> HIDE DEF q
<1>4. q \in Seq({1, 2} \cup Leaf)
  BY <1>3
<1>5. QueueOnce(in, q)
  BY <1>3, <1>4, NumbersAssumption DEF QueueOnce
<1>6. Summed(in, q) = {}
  BY <1>3 DEF Summed, Metered, Later
<1>7. DOMAIN Usages(in, {}) = {}
  BY DEF Usages
<1>8. SumOver(Usages(in, {})) = 0 /\ Cardinality({}) = 0
  BY <1>7, SumOfNone, FS_EmptySet
<1>9. w = [done |-> FALSE, queue |-> q, total |-> <<SumOver(Usages(in, Summed(in, q))), 1>>, count |-> Cardinality(Summed(in, q))]
  BY <1>1, <1>6, <1>8 DEF q
<1> QED BY <1>5, <1>9 DEF Turning

\* A turn of the loop: a resource gives way to what it owns, or is looked at.
LEMMA CellTurns ==
  ASSUME job.in \in CellInputs, NEW q, Turning(job.in, work, q), q # <<>>
  PROVE  \E r : Turning(job.in, CellTurn, r)
<1> DEFINE in == job.in
           h == Head(q)
           t == Tail(q)
           sum == SumOver(Usages(in, Summed(in, q)))
           num == Cardinality(Summed(in, q))
<1>1. /\ work = [done |-> FALSE, queue |-> q, total |-> <<sum, 1>>, count |-> num]
      /\ QueueOnce(in, q)
  BY DEF Turning
<1>2. /\ h \in {1, 2} \cup Leaf /\ t \in Seq({1, 2} \cup Leaf) /\ IsInjective(t)
      /\ ToSet(t) = ToSet(q) \ {h} /\ h \in ToSet(q)
  BY <1>1, HeadOnce DEF QueueOnce
<1>3. \A p \in Leaf : p \in ToSet(q) => in.owner[p] \in {1, 2} /\ in.owner[p] \notin ToSet(q)
  BY <1>1 DEF QueueOnce
<1>4. /\ OwnedBelow(h) = IF h \in {1, 2} THEN {p \in Leaf : in.owner[p] = h} ELSE {}
      /\ IsFiniteSet(OwnedBelow(h)) /\ (h \in {1, 2} => h \notin Leaf)
  BY <1>2, BelowInQueue
<1>5. CellTurn = IF OwnedBelow(h) # {} THEN [work EXCEPT !.queue = Tail(work.queue) \o SetToSeq(OwnedBelow(h))]
                 ELSE [Looked(h, work) EXCEPT !.queue = Tail(Looked(h, work).queue)]
  BY <1>1 DEF CellTurn, ShiftOwned
<1>6. work.queue = q
  BY <1>1
<1> HIDE DEF in, h, t, sum, num
<1>7. CASE OwnedBelow(h) # {}
  <2> DEFINE below == SetToSeq(OwnedBelow(h))
             r == t \o below
  <2>1. h \in {1, 2} /\ h \notin Leaf /\ OwnedBelow(h) = {p \in Leaf : in.owner[p] = h}
    BY <1>4, <1>7
  <2>2. below \in Seq(OwnedBelow(h)) /\ IsInjective(below) /\ ToSet(below) = OwnedBelow(h)
    BY <1>4, SetOnce
  <2>3. below \in Seq({1, 2} \cup Leaf)
    BY <2>1, <2>2
  <2>4. ToSet(t) \cap ToSet(below) = {}
    BY <1>2, <1>3, <2>1, <2>2
  <2> HIDE DEF below
  <2>5. r \in Seq({1, 2} \cup Leaf) /\ IsInjective(r) /\ ToSet(r) = ToSet(t) \cup ToSet(below)
    BY <1>2, <2>2, <2>3, <2>4, JoinedOnce
  <2> HIDE DEF r
  <2>6. QueueOnce(in, r)
    <3> SUFFICES ASSUME NEW p \in Leaf, p \in ToSet(r) PROVE in.owner[p] \in {1, 2} /\ in.owner[p] \notin ToSet(r)
      BY <2>5 DEF QueueOnce
    <3>1. CASE p \in ToSet(t)
      <4>1. in.owner[p] \in {1, 2} /\ in.owner[p] \notin ToSet(q)
        BY <1>2, <1>3, <3>1
      <4>2. in.owner[p] \notin Leaf
        BY <4>1, NumbersAssumption
      <4> QED BY <1>2, <2>1, <2>2, <2>5, <4>1, <4>2
    <3>2. CASE p \in ToSet(below)
      <4>1. in.owner[p] = h
        BY <2>1, <2>2, <3>2
      <4> QED BY <1>2, <2>1, <2>2, <2>5, <4>1
    <3> QED BY <2>5, <3>1, <3>2
  <2>7. Summed(in, r) = Summed(in, q)
    <3>1. ASSUME NEW p \in Leaf PROVE p \in Later(in, r) <=> p \in Later(in, q)
      <4>0. \A x \in {1, 2} : x \notin Leaf
        BY NumbersAssumption
      <4>1. \A x : x \in ToSet(r) <=> (x \in ToSet(q) /\ x # h) \/ (x \in Leaf /\ in.owner[x] = h)
        BY <1>2, <2>1, <2>2, <2>5
      <4>2. p # h
        BY <2>1
      <4>3. in.owner[p] \in {1, 2} => in.owner[p] \notin Leaf
        BY <4>0
      <4> QED BY <1>2, <2>1, <4>1, <4>2, <4>3 DEF Later
    <3> QED BY <3>1 DEF Summed, Metered
  <2>8. CellTurn = [work EXCEPT !.queue = r]
    BY <1>5, <1>6, <1>7 DEF r, below, t
  <2>9. CellTurn = [done |-> FALSE, queue |-> r, total |-> <<sum, 1>>, count |-> num]
    BY <1>1, <2>8
  <2> QED BY <2>6, <2>7, <2>9 DEF Turning, sum, num, in
<1>8. CASE OwnedBelow(h) = {}
  <2>1. QueueOnce(in, t)
    BY <1>2, <1>3 DEF QueueOnce
  <2>2. CASE h \in Leaf /\ in.usage[h] >= 0
    <3>1. in.owner[h] \in {1, 2} /\ in.owner[h] \notin ToSet(q)
      BY <1>2, <1>3, <2>2
    <3>2. h \in Metered(in) /\ h \in Later(in, q)
      BY <1>2, <2>2, <3>1 DEF Metered, Later
    <3>3. Summed(in, t) = Summed(in, q) \cup {h}
      <4>1. ASSUME NEW p \in Leaf PROVE p \in Later(in, t) <=> p \in Later(in, q) /\ p # h
        <5>0. h \notin {1, 2}
          BY <2>2, <1>4
        <5>1. \A x : x \in ToSet(t) <=> x \in ToSet(q) /\ x # h
          BY <1>2
        <5>2. CASE p = h
          BY <3>1, <5>1, <5>2 DEF Later
        <5>3. CASE p # h
          BY <5>0, <5>1, <5>3 DEF Later
        <5> QED BY <5>2, <5>3
      <4> QED BY <3>2, <4>1, <2>2 DEF Summed, Metered
    <3>4. h \notin Summed(in, q) /\ Summed(in, q) \subseteq Metered(in)
      BY <3>2 DEF Summed
    <3>5. SumOver(Usages(in, Summed(in, t))) = sum + in.usage[h] /\ Cardinality(Summed(in, t)) = num + 1
      BY <3>2, <3>3, <3>4, OnePodMore DEF sum, num, in
    <3>6. Looked(h, work) = [done |-> FALSE, queue |-> q, total |-> <<sum + in.usage[h], 1>>, count |-> num + 1]
      <4>1. Looked(h, work) = [work EXCEPT !.total = <<work.total[1] + in.usage[h], work.total[2]>>, !.count = work.count + 1]
        BY <2>2 DEF Looked, in
      <4>2. work.total[1] = sum /\ work.total[2] = 1 /\ work.count = num
        BY <1>1
      <4> QED BY <1>1, <4>1, <4>2
    <3>7. CellTurn = [done |-> FALSE, queue |-> t, total |-> <<sum + in.usage[h], 1>>, count |-> num + 1]
      <4> DEFINE l == Looked(h, work)
                 a == <<sum + in.usage[h], 1>>
      <4>1. l.queue = q
        BY <3>6
      <4>2. CellTurn = [l EXCEPT !.queue = t]
        BY <1>5, <1>8, <4>1 DEF t
      <4>3. l = [done |-> FALSE, queue |-> q, total |-> a, count |-> num + 1]
        BY <3>6
      <4> HIDE DEF l, a
      <4>4. CellTurn = [done |-> FALSE, queue |-> t, total |-> a, count |-> num + 1]
        BY <4>2, <4>3
      <4> QED BY <4>4 DEF a
    <3> QED BY <2>1, <3>5, <3>7 DEF Turning, in
  <2>3. CASE ~(h \in Leaf /\ in.usage[h] >= 0)
    <3>1. Summed(in, t) = Summed(in, q)
      <4>1. ASSUME NEW p \in Metered(in) PROVE p \in Later(in, t) <=> p \in Later(in, q)
        <5>1. \A x : x \in ToSet(t) <=> x \in ToSet(q) /\ x # h
          BY <1>2
        <5>2. p # h /\ p \in Leaf
          BY <2>3 DEF Metered
        <5>3. h \in {1, 2} => in.owner[p] # h
          BY <1>4, <1>8, <5>2
        <5> QED BY <5>1, <5>2, <5>3 DEF Later
      <4> QED BY <4>1 DEF Summed
    <3>2. Looked(h, work) = work
      BY <2>3 DEF Looked, in
    <3>3. CellTurn = [work EXCEPT !.queue = t]
      BY <1>5, <1>6, <1>8, <3>2 DEF t
    <3>4. CellTurn = [done |-> FALSE, queue |-> t, total |-> <<sum, 1>>, count |-> num]
      BY <1>1, <3>3
    <3> QED BY <2>1, <3>1, <3>4 DEF Turning, sum, num, in
  <2> QED BY <2>2, <2>3
<1> QED BY <1>7, <1>8

\* With nothing left in the queue, all pods with metrics were looked at.
LEMMA CellEnds ==
  ASSUME NEW in \in CellInputs, NEW w, Turning(in, w, <<>>),
         NEW v, v = [w EXCEPT !.done = TRUE, !.total = ConvertUnits(w.total, "millicores", "cores")]
  PROVE  CellShown(in, v)
<1>1. ToSet(<<>>) = {}
  BY DEF ToSet
<1>2. Summed(in, <<>>) = Metered(in)
  BY <1>1 DEF Summed, Later
<1> DEFINE sum == SumOver(Usages(in, Metered(in)))
           num == Cardinality(Metered(in))
<1>3. w = [done |-> FALSE, queue |-> <<>>, total |-> <<sum, 1>>, count |-> num]
  BY <1>2 DEF Turning
<1> DEFINE shown == ConvertUnits(<<sum, 1>>, "millicores", "cores")
<1>4. w.total = <<sum, 1>>
  BY <1>3
<1> DEFINE none == <<>>
           all == <<sum, 1>>
<1>6. w = [done |-> FALSE, queue |-> none, total |-> all, count |-> num]
  BY <1>3
<1> HIDE DEF sum, num, shown, none, all
<1>7. v = [w EXCEPT !.done = TRUE, !.total = shown]
  BY <1>4 DEF shown
<1>5. v = [done |-> TRUE, queue |-> none, total |-> shown, count |-> num]
  BY <1>6, <1>7
<1> QED BY <1>5 DEF CellShown, shown, none, sum, num

\* What is shown then is their usage, in cores.
LEMMA CellRight ==
  ASSUME NEW in \in CellInputs, NEW w, CellShown(in, w)
  PROVE  /\ w.count = Cardinality(Metered(in))
         /\ SameAmount(Mul(w.total, <<Milli, 1>>), <<SumOver(Usages(in, Metered(in))), 1>>)
<1> DEFINE sum == SumOver(Usages(in, Metered(in)))
<1>1. sum \in Nat /\ Milli \in Nat
  BY UsagesOf, NumbersAssumption
<1>2. w.total = ConvertUnits(<<sum, 1>>, "millicores", "cores") /\ w.count = Cardinality(Metered(in))
  BY DEF CellShown
<1> HIDE DEF sum
<1>3. Factor("millicores", "cores") = <<1, Milli>>
  BY DEF Factor
<1>4. w.total = <<sum, Milli>>
  BY <1>1, <1>2, <1>3 DEF ConvertUnits, Mul
<1>5. Mul(w.total, <<Milli, 1>>) = <<sum * Milli, Milli>>
  BY <1>1, <1>4 DEF Mul
<1>6. (sum * Milli) * 1 = sum * Milli
  BY <1>1
<1> QED BY <1>2, <1>5, <1>6 DEF SameAmount, sum

Precise(n) == IF n < 10^(5 - Decimals(n)) THEN Fixed(<<n, 10000>>, 0) ELSE Fixed(<<n, 10000>>, Decimals(n))

SecretUpTo(s, w) == w = Todo \/ (\E g \in Nat : DecodedUpTo(s, g, w)) \/ UnescapedUpTo(s, w)

NumbersInv ==
  /\ job \in Jobs /\ work.done \in BOOLEAN
  /\ Done("summary") => work.box = InfoBox(CalculateMetrics(job.in))
  /\ job.kind = "cell" => work = Todo \/ (\E q : Turning(job.in, work, q)) \/ CellShown(job.in, work)
  /\ Done("nodes") => /\ work.cells = [n \in {1, 2} |-> NodeCell(job.in[n])]
                      /\ work.values = [n \in {1, 2} |-> NodeValue(job.in[n])]
  /\ Done("precision") => work.shown = Precise(job.in)
  /\ job.kind = "secret" /\ job.in # <<>> => SecretUpTo(job.in, work)

\* The input of a computation is one of its kind.
LEMMA InputOf ==
  ASSUME job \in Jobs
  PROVE  /\ job.kind \in {"summary", "cell", "nodes", "precision", "secret"}
         /\ job.kind = "summary" => job.in \in SummaryInputs
         /\ job.kind = "cell" => job.in \in CellInputs
         /\ job.kind = "nodes" => job.in \in [{1, 2} -> NamespaceUsage \cup {NoMetrics}]
         /\ job.kind = "precision" => job.in \in Places
         /\ job.kind = "secret" => job.in \in Secrets
<1> HIDE DEF SummaryInputs, CellInputs, NamespaceUsage, Secrets, NoMetrics
<1>1. CASE job \in [kind : {"summary"}, in : SummaryInputs]
  BY <1>1
<1>2. CASE job \in [kind : {"cell"}, in : CellInputs]
  BY <1>2
<1>3. CASE job \in [kind : {"nodes"}, in : [{1, 2} -> NamespaceUsage \cup {NoMetrics}]]
  <2> DEFINE X == [{1, 2} -> NamespaceUsage \cup {NoMetrics}]
  <2> HIDE DEF X
  <2>1. job \in [kind : {"nodes"}, in : X]
    BY <1>3 DEF X
  <2>2. job.kind = "nodes" /\ job.in \in X
    BY <2>1
  <2> QED BY <2>2 DEF X
<1>4. CASE job \in [kind : {"precision"}, in : Places]
  BY <1>4
<1>5. CASE job \in [kind : {"secret"}, in : Secrets]
  BY <1>5
<1> QED BY <1>1, <1>2, <1>3, <1>4, <1>5 DEF Jobs

\* A secret is a sequence of bytes.
LEMMA SecretBytes == \A s \in Secrets : s \in Seq(Letters) /\ (s # <<>> => Len(s) \in Nat \ {0})
<1> SUFFICES ASSUME NEW s \in Secrets PROVE s \in Seq(Letters) /\ (s # <<>> => Len(s) \in Nat \ {0})
  OBVIOUS
<1>1. PICK n \in 0..MaxLength : s \in [1..n -> Letters]
  BY DEF Secrets
<1>2. n \in Nat
  BY NumbersAssumption
<1>3. s \in Seq(Letters)
  BY <1>1, <1>2
<1> QED BY <1>3, EmptySeq

\* A computation that was not started.
LEMMA NumbersStart == NumbersInit => NumbersInv
<1> SUFFICES ASSUME NumbersInit PROVE NumbersInv
  OBVIOUS
<1>1. job \in Jobs /\ work = Todo /\ work.done = FALSE
  BY DEF NumbersInit, Todo
<1> QED
  BY <1>1 DEF NumbersInv, Done, SecretUpTo

\* Every turn of every computation keeps what it computed so far right.
LEMMA NumbersStep == NumbersInv /\ [NumbersNext]_numberVars => NumbersInv'
<1> SUFFICES ASSUME NumbersInv, [NumbersNext]_numberVars PROVE NumbersInv'
  OBVIOUS
<1>0. job \in Jobs /\ job' = job
  BY DEF NumbersInv, NumbersNext, Summarise, StartCell, RenderResourceCell, RenderNodes, FixPrecision, StartDecode,
         DecodeBase64, Unescape, numberVars
<1> DEFINE in == job.in
           Goal == /\ work'.done \in BOOLEAN
                   /\ job.kind = "summary" /\ work'.done => work'.box = InfoBox(CalculateMetrics(in))
                   /\ job.kind = "cell" => work' = Todo \/ (\E q : Turning(in, work', q)) \/ CellShown(in, work')
                   /\ job.kind = "nodes" /\ work'.done => /\ work'.cells = [n \in {1, 2} |-> NodeCell(in[n])]
                                                          /\ work'.values = [n \in {1, 2} |-> NodeValue(in[n])]
                   /\ job.kind = "precision" /\ work'.done => work'.shown = Precise(in)
                   /\ job.kind = "secret" /\ in # <<>> => SecretUpTo(in, work')
<1>1. SUFFICES Goal
  <2>1. ASSUME Goal PROVE NumbersInv'
    <3>1. /\ (work.done \in BOOLEAN)' /\ (Done("summary") => work.box = InfoBox(CalculateMetrics(job.in)))'
          /\ (Done("precision") => work.shown = Precise(job.in))'
      BY <1>0, <2>1 DEF Done
    <3>2. (job.kind = "cell" => work = Todo \/ (\E q : Turning(job.in, work, q)) \/ CellShown(job.in, work))'
      BY <1>0, <2>1
    <3>3. (Done("nodes") => /\ work.cells = [n \in {1, 2} |-> NodeCell(job.in[n])]
                            /\ work.values = [n \in {1, 2} |-> NodeValue(job.in[n])])'
      BY <1>0, <2>1 DEF Done
    <3>4. (job.kind = "secret" /\ job.in # <<>> => SecretUpTo(job.in, work))'
      BY <1>0, <2>1
    <3> QED BY <1>0, <3>1, <3>2, <3>3, <3>4 DEF NumbersInv
  <2> QED BY <2>1
<1>2. CASE Summarise
  BY <1>2 DEF Summarise
<1>3. CASE StartCell
  <2>1. job.kind = "cell" /\ in \in CellInputs
    BY <1>0, <1>3, InputOf DEF StartCell
  <2>2. work' = [done |-> FALSE, queue |-> SetToSeq(OwnedBelow(0)), total |-> <<0, 1>>, count |-> 0]
    BY <1>3 DEF StartCell
  <2>3. work'.done = FALSE
    BY <2>2
  <2>4. \E q : Turning(in, work', q)
    BY <2>1, <2>2, CellStarts
  <2> QED BY <2>1, <2>3, <2>4
<1>4. CASE RenderResourceCell
  <2>1. work # Todo /\ job.kind = "cell" /\ ~work.done /\ in \in CellInputs
    BY <1>0, <1>4, InputOf DEF RenderResourceCell
  <2>2. PICK q : Turning(in, work, q)
    <3>1. ~ CellShown(in, work)
      BY <2>1 DEF CellShown
    <3> QED BY <2>1, <3>1 DEF NumbersInv
  <2>3. work.queue = q
    BY <2>2 DEF Turning
  <2>4. CASE q # <<>>
    <3>1. work' = CellTurn
      BY <1>4, <2>3, <2>4 DEF RenderResourceCell
    <3>2. PICK r : Turning(in, CellTurn, r)
      BY <2>1, <2>2, <2>4, CellTurns
    <3>3. CellTurn.done = FALSE
      BY <3>2 DEF Turning
    <3> QED BY <2>1, <3>1, <3>2, <3>3
  <2>5. CASE q = <<>>
    <3>1. work' = [work EXCEPT !.done = TRUE, !.total = ConvertUnits(work.total, "millicores", "cores")]
      BY <1>4, <2>3, <2>5 DEF RenderResourceCell
    <3>2. CellShown(in, work')
      BY <2>1, <2>2, <2>5, <3>1, CellEnds
    <3>3. work'.done = TRUE
      BY <3>2 DEF CellShown
    <3> QED BY <2>1, <3>2, <3>3
  <2> QED BY <2>4, <2>5
<1>5. CASE RenderNodes
  BY <1>5 DEF RenderNodes
<1>6. CASE FixPrecision
  BY <1>6 DEF FixPrecision, Precise
<1>7. CASE StartDecode
  <2>1. job.kind = "secret" /\ in \in Seq(Letters) /\ (in # <<>> => Len(in) \in Nat \ {0})
    BY <1>0, <1>7, InputOf, SecretBytes DEF StartDecode
  <2>2. work' = [done |-> FALSE, decoded |-> FALSE, input |-> Encoded(in), i |-> 0, bytes |-> <<>>, at |-> 1,
                 shown |-> <<>>]
    BY <1>7 DEF StartDecode
  <2>3. ASSUME in # <<>> PROVE DecodedUpTo(in, 0, work')
    <3>1. 4 * 0 = 0 /\ 3 * 0 = 0 /\ ~(0 >= Len(in)) /\ 0 <= Len(in)
      BY <2>1, <2>3
    <3>2. work'.bytes = <<>> /\ work'.bytes \in Seq(Nat) /\ Len(work'.bytes) = 0
      BY <2>2
    <3>3. (3 * 0 >= Len(in)) = FALSE
      BY <3>1
    <3> DEFINE code == Encoded(in)
    <3> HIDE DEF code
    <3>4. work' = [done |-> FALSE, decoded |-> 3 * 0 >= Len(in), input |-> code, i |-> 4 * 0, bytes |-> work'.bytes,
                   at |-> 1, shown |-> <<>>]
      BY <2>2, <3>1, <3>2, <3>3 DEF code
    <3> QED BY <3>1, <3>2, <3>4 DEF DecodedUpTo, code
  <2>4. work'.done = FALSE
    BY <2>2
  <2>5. in # <<>> => SecretUpTo(in, work')
    BY <2>3 DEF SecretUpTo
  <2> QED BY <2>1, <2>4, <2>5
<1>8. CASE DecodeBase64
  <2>1. job.kind = "secret" /\ work # Todo /\ ~work.decoded /\ in \in Seq(Letters)
        /\ (in # <<>> => Len(in) \in Nat \ {0})
    BY <1>0, <1>8, InputOf, SecretBytes DEF DecodeBase64
  <2>4. work' = [done |-> FALSE, decoded |-> work.i + 4 >= Len(work.input), input |-> work.input, i |-> work.i + 4,
                 bytes |-> work.bytes \o DecodeGroup([k \in 1..4 |-> At(work.input, work.i + k)]), at |-> 1,
                 shown |-> <<>>]
    BY <1>8 DEF DecodeBase64
  <2>5. ASSUME in # <<>> PROVE SecretUpTo(in, work')
    <3>0. ~ UnescapedUpTo(in, work)
      BY <2>1 DEF UnescapedUpTo
    <3>1. PICK g \in Nat : DecodedUpTo(in, g, work)
      BY <2>1, <2>5, <3>0 DEF NumbersInv, SecretUpTo
    <3>2. 3 * g < Len(in)
      <4>1. work.decoded = (3 * g >= Len(in))
        BY <3>1 DEF DecodedUpTo
      <4>2. ~(3 * g >= Len(in))
        BY <2>1, <4>1, Zenon
      <4> HIDE DEF in
      <4>3. Len(in) \in Nat
        BY <2>1
      <4> QED BY <4>2, <4>3
    <3>3. DecodedUpTo(in, g + 1, work')
      BY <2>1, <2>4, <3>1, <3>2, GroupTurn
    <3> QED BY <3>3 DEF SecretUpTo
  <2>6. work'.done = FALSE
    BY <2>4
  <2> QED BY <2>1, <2>5, <2>6
<1>10. CASE Unescape
  <2>1. job.kind = "secret" /\ work # Todo /\ work.decoded /\ ~work.done /\ in \in Seq(Letters)
    BY <1>0, <1>10, InputOf, SecretBytes DEF Unescape
  <2> DEFINE ends == work.at > Len(work.bytes)
  <2>2. work' = [done |-> ends, decoded |-> TRUE, input |-> work.input, i |-> work.i, bytes |-> work.bytes,
                 at |-> IF ends THEN work.at ELSE Unescaped(work.bytes, work.at).next,
                 shown |-> IF ends THEN work.shown ELSE Append(work.shown, Unescaped(work.bytes, work.at).char)]
    BY <1>10 DEF Unescape
  <2>3. work'.done \in BOOLEAN
    BY <2>2
  <2>4. /\ work'.done = ends /\ work'.decoded /\ work'.bytes = work.bytes
        /\ work'.at = (IF ends THEN work.at ELSE Unescaped(work.bytes, work.at).next)
        /\ work'.shown = IF ends THEN work.shown ELSE Append(work.shown, Unescaped(work.bytes, work.at).char)
    <3> HIDE DEF ends
    <3> QED BY <2>2
  <2>5. ASSUME in # <<>> PROVE SecretUpTo(in, work')
    <3>1. SecretUpTo(in, work)
      BY <2>1, <2>5 DEF NumbersInv
    <3>2. UnescapedUpTo(in, work)
      BY <2>1, <3>1, AllDecoded DEF SecretUpTo
    <3>3. work.bytes = in
      BY <3>2 DEF UnescapedUpTo
    <3>4. ASSUME ~ Escapes(in) PROVE PlainUpTo(in, work')
      <4>1. PlainUpTo(in, work)
        BY <3>2, <3>4 DEF UnescapedUpTo
      <4> QED BY <2>1, <2>4, <3>3, <3>4, <4>1, UnescapeTurn
    <3>5. UnescapedUpTo(in, work')
      BY <2>4, <3>3, <3>4 DEF UnescapedUpTo
    <3> QED BY <3>5 DEF SecretUpTo
  <2> QED BY <2>1, <2>3, <2>5
<1>9. CASE UNCHANGED numberVars
  BY <1>9 DEF numberVars, NumbersInv, Done
<1> QED
  BY <1>2, <1>3, <1>4, <1>5, <1>6, <1>7, <1>8, <1>9, <1>10 DEF NumbersNext

\* What is shown when a computation has ended.
LEMMA NumbersShown ==
  NumbersInv => NumbersTypeOK /\ ShownAmount /\ CellIsAverage /\ ReadablePrecision /\ RankedAsShown /\ DecodedIsInput
<1> SUFFICES ASSUME NumbersInv
             PROVE  NumbersTypeOK /\ ShownAmount /\ CellIsAverage /\ ReadablePrecision /\ RankedAsShown /\ DecodedIsInput
  OBVIOUS
<1>0. job \in Jobs /\ work.done \in BOOLEAN
  BY DEF NumbersInv
<1>1. NumbersTypeOK
  BY <1>0, InputOf DEF NumbersTypeOK
<1>2. ShownAmount
  <2> SUFFICES ASSUME Done("summary"), work.box.metered
               PROVE  LET here == IF job.in.chosen = {} THEN {1, 2} ELSE job.in.chosen
                      IN SameAmount(<<work.box.usage[1] * Sizes[work.box.units], work.box.usage[2]>>,
                                    <<SumOver([n \in here |-> job.in.usage[n]]), 1>>)
    BY Zenon DEF ShownAmount
  <2>1. work.box = InfoBox(CalculateMetrics(job.in)) /\ job.in \in SummaryInputs
    BY <1>0, InputOf DEF NumbersInv, Done
  <2>2. InfoBox(CalculateMetrics(job.in)).metered
    BY <2>1
  <2> QED BY <2>1, <2>2, UsageShown
<1>3. CellIsAverage
  <2> SUFFICES ASSUME Done("cell") PROVE CellIsAverage
    BY DEF CellIsAverage
  <2>1. job.in \in CellInputs /\ job.kind = "cell" /\ work.done
    BY <1>0, InputOf DEF Done
  <2>2. CellShown(job.in, work)
    <3>1. work # Todo
      BY <2>1 DEF Todo
    <3>2. ASSUME NEW q, Turning(job.in, work, q) PROVE FALSE
      BY <2>1, <3>2 DEF Turning
    <3> QED BY <2>1, <3>1, <3>2 DEF NumbersInv
  <2>3. /\ work.count = Cardinality(Metered(job.in))
        /\ SameAmount(Mul(work.total, <<Milli, 1>>), <<SumOver(Usages(job.in, Metered(job.in))), 1>>)
    BY <2>1, <2>2, CellRight
  <2> QED BY <2>3, Zenon DEF CellIsAverage, Metered, Usages
<1>4. ReadablePrecision
  <2> SUFFICES ASSUME Done("precision"), job.in >= 100 PROVE ReadablePrecision
    BY DEF ReadablePrecision
  <2>1. job.in \in Nat /\ work.shown = Precise(job.in)
    BY <1>0, InputOf, NumbersAssumption DEF NumbersInv, Done
  <2> DEFINE n == job.in
             fixed == Precise(n)
             shown == fixed[1] * (10000 \div fixed[2])
  <2>2. 20 * (shown - n) <= n /\ 20 * (n - shown) <= n
    BY <2>1, ShownPrecisely DEF Precise
  <2> HIDE DEF fixed
  <2>3. work.shown = fixed
    BY <2>1 DEF fixed
  <2> QED BY <2>2, <2>3 DEF ReadablePrecision
<1>5. RankedAsShown
  <2> SUFFICES ASSUME Done("nodes"), \A n \in {1, 2} : job.in[n].total > 0,
                      work.values[1][1] * work.values[2][2] <= work.values[2][1] * work.values[1][2]
               PROVE  work.cells[1][1] <= work.cells[2][1]
    BY DEF RankedAsShown
  <2>1. /\ work.cells = [n \in {1, 2} |-> NodeCell(job.in[n])] /\ work.values = [n \in {1, 2} |-> NodeValue(job.in[n])]
        /\ job.in \in [{1, 2} -> NamespaceUsage \cup {NoMetrics}]
    BY <1>0, InputOf DEF NumbersInv, Done
  <2>2. ASSUME NEW n \in {1, 2}
        PROVE  /\ job.in[n].usage \in Nat /\ job.in[n].total \in Nat \ {0}
               /\ work.cells[n] = Fixed(<<100 * job.in[n].usage, job.in[n].total>>, 0)
               /\ work.values[n] = <<job.in[n].usage, job.in[n].total>>
    <3> DEFINE m == job.in[n]
    <3>1. m \in NamespaceUsage \/ m = NoMetrics
      BY <2>1
    <3>2. m.total > 0
      OBVIOUS
    <3>3. work.cells[n] = NodeCell(m) /\ work.values[n] = NodeValue(m)
      BY <2>1
    <3> HIDE DEF m
    <3>4. m # NoMetrics
      <4>1. NoMetrics.total = -1 /\ ~(-1 > 0)
        BY DEF NoMetrics
      <4> QED BY <3>2, <4>1
    <3>5. m.usage \in Nat /\ m.total \in Nat /\ m.total # 0
      <4>1. m.usage \in Amounts /\ m.total \in Amounts
        BY <3>1, <3>4 DEF NamespaceUsage
      <4>2. m.usage \in Nat /\ m.total \in Nat
        BY <4>1, NumbersAssumption
      <4> QED BY <3>2, <4>2
    <3>6. NodeCell(m) = Fixed(<<100 * m.usage, m.total>>, 0) /\ NodeValue(m) = <<m.usage, m.total>>
      BY <3>4, <3>5 DEF NodeCell, NodeValue
    <3> QED BY <3>3, <3>5, <3>6 DEF m
  <2> DEFINE x1 == job.in[1].usage
             t1 == job.in[1].total
             x2 == job.in[2].usage
             t2 == job.in[2].total
  <2>3. x1 \in Nat /\ t1 \in Nat \ {0} /\ x2 \in Nat /\ t2 \in Nat \ {0}
    BY <2>2
  <2>4. work.values[1] = <<x1, t1>> /\ work.values[2] = <<x2, t2>>
    BY <2>2
  <2>5. work.cells[1] = Fixed(<<100 * x1, t1>>, 0) /\ work.cells[2] = Fixed(<<100 * x2, t2>>, 0)
    BY <2>2
  <2> HIDE DEF x1, t1, x2, t2
  <2>6. x1 * t2 <= x2 * t1
    BY <2>4
  <2>7. Fixed(<<100 * x1, t1>>, 0)[1] <= Fixed(<<100 * x2, t2>>, 0)[1]
    BY <2>3, <2>6, RatiosRanked
  <2> QED BY <2>5, <2>7
<1>6. DecodedIsInput
  <2> SUFFICES ASSUME Done("secret"), job.in # <<>>
               PROVE  work.bytes = job.in /\ (~ Escapes(job.in) => work.shown = job.in)
    BY DEF DecodedIsInput
  <2>1. job.kind = "secret" /\ work.done /\ job.in \in Seq(Letters)
    BY <1>0, InputOf, SecretBytes DEF Done
  <2>2. SecretUpTo(job.in, work)
    BY <2>1 DEF NumbersInv
  <2>3. UnescapedUpTo(job.in, work)
    BY <2>1, <2>2 DEF SecretUpTo, DecodedUpTo, Todo
  <2>4. ASSUME ~ Escapes(job.in) PROVE work.shown = job.in
    <3>1. PlainUpTo(job.in, work)
      BY <2>3, <2>4 DEF UnescapedUpTo
    <3>2. Len(work.shown) = Len(job.in) /\ \A k \in 1..Len(job.in) : work.shown[k] = job.in[k]
      BY <2>1, <3>1 DEF PlainUpTo
    <3>3. work.shown \in Seq(Letters)
      BY <3>1 DEF PlainUpTo
    <3> QED BY <2>1, <3>2, <3>3, SeqEqual
  <2> QED BY <2>3, <2>4 DEF UnescapedUpTo
<1> QED BY <1>1, <1>2, <1>3, <1>4, <1>5, <1>6
-----------------------------------------------------------------------------
(* The pages together.                                                     *)

PagesInv ==
  /\ ContentsInv /\ PickedRight /\ EditorInv /\ AccessInv /\ PermissionsTypeOK /\ NumbersInv
  /\ DashInv /\ RowsInv /\ TablesInv /\ ErrorsInv

\* Whichever page takes steps, the invariants of all of them hold.
THEOREM PagesInvariance == PagesSpec => []PagesInv
<1>1. PagesInit => PagesInv
  <2>1. PermissionsInit => PermissionsTypeOK
    BY DEF PermissionsInit, PermissionsTypeOK
  <2>2. ContentsInit => PickedRight
    BY DEF ContentsInit, PickedRight
  <2> QED
    BY <2>1, <2>2, ContentsStart, EditorStart, AccessStart, NumbersStart, DashStart, RowsStart, TablesStart, ErrorsStart
       DEF PagesInit, PagesInv
<1>2. PagesInv /\ [PagesNext]_<<part, editVars, shownVars, listVars>> => PagesInv'
  <2> SUFFICES ASSUME PagesInv, [PagesNext]_<<part, editVars, shownVars, listVars>> PROVE PagesInv'
    OBVIOUS
  <2>1. [ContentsNext]_contentVars /\ [EditorNext]_editorVars
    BY DEF PagesNext, editVars
  <2>2. [AccessNext]_accessVars /\ [PermissionsNext]_permissionVars /\ [NumbersNext]_numberVars
    BY DEF PagesNext, shownVars
  <2>3. [DashboardNext]_dashboardVars /\ [RowsNext]_tableVars /\ [TablesNext]_filterTableVars /\ [ErrorsNext]_errorVars
    BY DEF PagesNext, listVars
  <2> QED
    BY <2>1, <2>2, <2>3, ContentsStep, PickedStep, EditorStep, AccessStep, PermissionsStep, NumbersStep, DashStep, RowsStep,
       TablesStep, ErrorsStep DEF PagesInv
<1> QED
  BY <1>1, <1>2, PTL DEF PagesSpec

\* Every variable of the pages keeps its type, for any resources, texts, users and rows.
THEOREM PagesTypes == PagesSpec => []PagesTypeOK
<1>1. PagesInv => PagesTypeOK
  BY ContentsRight, NumbersShown, DashRight, RowsTyped, TablesShown, ErrorsTyped
     DEF PagesInv, PagesTypeOK, EditorInv, AccessInv
<1> QED
  BY <1>1, PagesInvariance, PTL

\* A lone scaling is sent as asked, an answered write is its caller's, typed text is kept,
\* except where a fetch had failed or a validation is under way, and what is created was
\* validated as its page validates it, for any number of calls, resources and texts.
THEOREM EditsKeptAlways == PagesSpec => []EditsKept
<1>1. EditorInv => TypedTextKept
  BY DEF EditorInv, TypedTextKept
<1>2. PagesInv => EditsKept
  BY <1>1, ContentsRight DEF PagesInv, EditsKept, EditorInv
<1> QED
  BY <1>2, PagesInvariance, PTL

\* An action is withheld only after a review that did not find it granted or told nothing,
\* and a subject's pane shows the rules granted to it, for any roles, bindings and subjects.
THEOREM AccessShownAlways == PagesSpec => []AccessShown
<1>1. PagesInv => AccessShown
  BY PermissionsRight DEF PagesInv, AccessInv, AccessShown
<1> QED
  BY <1>1, PagesInvariance, PTL

\* Amounts are summed, converted, averaged, rounded, ranked and decoded right, for any amounts,
\* pods and their owners, nodes and secrets that are not empty (shown as they are where they
\* hold no escape), whatever the sizes of the units.
THEOREM NumbersRightAlways == PagesSpec => []NumbersRight
<1>1. PagesInv => NumbersRight
  BY NumbersShown DEF PagesInv, NumbersRight
<1> QED
  BY <1>1, PagesInvariance, PTL

\* The dashboard lists problems of the chosen namespaces only, under a tab that has some,
\* unless their collection threw, and no notice of an error is empty, for any members,
\* owners, placeholders and errors.
THEOREM NoticesRightAlways == PagesSpec => []NoticesRight
<1>1. PagesInv => NoticesRight
  BY DashRight DEF PagesInv, ErrorsInv, NoticesRight
<1> QED
  BY <1>1, PagesInvariance, PTL

\* A table shows its page's rows in the order its labels say and actions are taken on listed
\* resources, for any pages, resources, columns' values and statuses.
THEOREM TablesRightAlways == PagesSpec => []TablesRight
<1>1. PagesInv => TablesRight
  BY TablesShown DEF PagesInv, RowsInv, TablesRight
<1> QED
  BY <1>1, PagesInvariance, PTL
===============================================================================
