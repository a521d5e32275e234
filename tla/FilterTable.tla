---------------------------- MODULE FilterTable ----------------------------
(***************************************************************************)
(* The tables of the UI. A page computes its rows from the store when its  *)
(* properties change; the table, FilterTable, keeps a sorted copy of the   *)
(* rows that it takes again only when propsChanged says so; the labels of  *)
(* its header, TableSortLabel, keep the order they show. A row is an object*)
(* of the store: an update replaces the object, a filter marks it.         *)
(***************************************************************************)
EXTENDS Integers, Sequences, FiniteSets, SequencesExt

CONSTANTS NoValue,     \* JavaScript's undefined
          ListPages,     \* the pages to check
          KindOn,        \* page -> [resource -> kind]
          Subject,       \* the resource whose related resources are shown
          Owns,          \* pairs of the attributes owned: <<owner, owned>>
          RelatedTo,     \* pairs of the attributes related: <<resource, key>>
          TextColumn, NumberColumn,  \* resource -> the value of its text and number cells
          OptionalColumn,      \* resource -> the value, or NoValue, of its optional cells
          Taps,          \* the columns that are tapped
          TableStatus    \* the statuses of resources

(* The sortable columns and the values they compare: text, text that may be*)
(* missing, a number as a number, a number as text, and the status.        *)
WorkloadsColumns ==
  [kind |-> "text", name |-> "text", namespace |-> "text", cpu_utilized |-> "number", mem_utilized |-> "number",
   disk_utilized |-> "number", pods |-> "number", status |-> "status", age |-> "text"]
AccessColumns == [kind |-> "text", name |-> "text", namespace |-> "optional", age |-> "text"]
RelatedColumns ==
  [kind |-> "text", name |-> "text", namespace |-> "text", cpu_utilized |-> "number", mem_utilized |-> "number",
   disk_utilized |-> "number", status |-> "status", age |-> "text"]
NodePodsColumns ==
  [name |-> "text", namespace |-> "text", cpu_utilized |-> "number", mem_utilized |-> "number",
   disk_utilized |-> "number", status |-> "status", age |-> "text"]
NodesColumns ==
  [status |-> "status", hostname |-> "text", age |-> "text", pods |-> "number", containers |-> "number",
   cpu_utilized |-> "number", cpu_total |-> "number", mem_utilized |-> "number", mem_total |-> "number",
   disk_utilized |-> "number", disk_total |-> "number"]
NamespacesColumns == [name |-> "text"]
VolumesColumns ==
  [name |-> "text", capacity |-> "text", access_modes |-> "text", reclaim_policy |-> "text", status |-> "text",
   claim |-> "optional", storage_class |-> "optional", age |-> "text"]
ClassesColumns ==
  [name |-> "text", volumes |-> "count", provisioned |-> "text", provisioner |-> "text", age |-> "text"]
QuotasColumns == [name |-> "text", namespace |-> "text", age |-> "text"]
ThirdPartyColumns == [name |-> "text", versions |-> "text", age |-> "text"]

Columns ==
  [workloads |-> WorkloadsColumns, access |-> AccessColumns, related |-> RelatedColumns, nodePods |-> NodePodsColumns,
   nodes |-> NodesColumns, namespaces |-> NamespacesColumns, volumes |-> VolumesColumns, classes |-> ClassesColumns,
   quotas |-> QuotasColumns, thirdParty |-> ThirdPartyColumns]

ASSUME TablesAssumption ==
  /\ ListPages \subseteq DOMAIN Columns /\ \A p \in ListPages : IsFiniteSet(DOMAIN KindOn[p])
  /\ NoValue \notin Taps /\ "ok" \in TableStatus

VARIABLES tablePage,
          inStore,    \* resource -> absent, shown, filtered or deleted
          statusOf,   \* statusSummary
          pageRows,   \* the rows of the page
          tableRows,  \* state.data of the table
          orderBy,    \* state.orderBy and state.order of the table
          labels,     \* column -> the order its label shows, "" when it is not active
          jumped,     \* filters were replaced at once since the store last changed
          tableFailed \* an exception left the page broken

filterTableVars == <<tablePage, inStore, statusOf, pageRows, tableRows, orderBy, labels, jumped, tableFailed>>

Listable == DOMAIN KindOn[tablePage]
Unordered == [by |-> NoValue, order |-> ""]
-----------------------------------------------------------------------------
(* The rows of a page. A removed resource stays in the store, filtered.    *)
WorkloadsRows(in) ==
  {r \in Listable : in[r] = "shown" /\ KindOn.workloads[r] \in {"Deployment", "Pod", NoValue}}
AccessRows(in) == {r \in Listable : in[r] = "shown" /\ KindOn.access[r] \in {"Role", "ClusterRole"}}
NodePodsRows(in) == {r \in Listable : in[r] = "shown" /\ KindOn.nodePods[r] = "Pod"}
NodesRows(in) == {r \in Listable : in[r] = "shown" /\ KindOn.nodes[r] = "Node"}

(* A cluster tab takes every object of its kind, removed ones too.         *)
ClusterRows(in) == {r \in Listable : in[r] # "absent" /\ KindOn[tablePage][r] = tablePage}

(* resolveOwned, among the resources that are alive, then what is related  *)
(* to what was found. The walk throws at a key that is not in the store.   *)
Alive(in) == {r \in Listable : in[r] \in {"shown", "filtered"}}
Known(in) == {r \in Listable : in[r] # "absent"}
Joined(pairs, keys) == {p[2] : p \in {q \in pairs : q[1] \in keys}}
ResolveOwned(alive) ==
  LET Below[n \in Nat] ==
        IF n = 0 THEN {Subject} ELSE Below[n - 1] \union (Joined(Owns, Below[n - 1]) \intersect alive)
  IN Below[Cardinality(DOMAIN KindOn.related)] \ {Subject}
RelatedKeys(alive, known) ==
  LET Near[n \in Nat] ==
        IF n = 0 THEN ResolveOwned(alive) ELSE Near[n - 1] \union Joined(RelatedTo, Near[n - 1] \intersect known)
  IN Near[Cardinality(DOMAIN KindOn.related)]
RelatedRows(in) == {r \in Listable : in[r] = "shown" /\ r \in RelatedKeys(Alive(in), Known(in))}
ResolveThrows(in) == tablePage = "related" /\ RelatedKeys(Alive(in), Known(in)) \ Known(in) # {}

Listed(in) ==
  CASE tablePage = "workloads" -> WorkloadsRows(in) [] tablePage = "access" -> AccessRows(in)
    [] tablePage = "related" -> RelatedRows(in)     [] tablePage = "nodePods" -> NodePodsRows(in)
    [] tablePage = "nodes" -> NodesRows(in)         [] OTHER -> ClusterRows(in)

Objects(in, status) == {[of |-> r, status |-> status[r]] : r \in Listed(in)}
-----------------------------------------------------------------------------
(* compareStatuses has no place for some statuses: with NaN from the       *)
(* comparator any order may come out of the sort.                          *)
StatusPlace == [ok |-> 1, up |-> 4, warning |-> 7, error |-> 8]

CellValue(c, row) ==
  CASE Columns[tablePage][c] = "text" -> TextColumn[row.of]
    [] Columns[tablePage][c] = "optional" -> OptionalColumn[row.of]
    [] Columns[tablePage][c] = "status" -> row.status
    [] OTHER -> NumberColumn[row.of]

Comparable(c, rows) ==
  \/ Columns[tablePage][c] \in {"text", "number"}
  \/ Columns[tablePage][c] = "status" /\ \A a \in rows : a.status \in DOMAIN StatusPlace
  \/ Columns[tablePage][c] \in {"optional", "count"} /\ \A a, b \in rows : CellValue(c, a) = CellValue(c, b)
  \/ Columns[tablePage][c] = "optional" /\ \A a \in rows : CellValue(c, a) # NoValue

(* localeCompare of what is no string: an exception.                       *)
CompareThrows(c, rows) == Columns[tablePage][c] \in {"optional", "count"} /\ ~ Comparable(c, rows)

NotAfter(c, order, a, b) ==
  LET Place(row) == IF Columns[tablePage][c] = "status" THEN StatusPlace[row.status] ELSE CellValue(c, row)
  IN CellValue(c, a) = CellValue(c, b) \/ IF order = "asc" THEN Place(a) < Place(b) ELSE Place(a) > Place(b)

InOrder(o, s) ==
  o.by = NoValue \/ ~ Comparable(o.by, ToSet(s))
  \/ \A i, j \in DOMAIN s : i < j => NotAfter(o.by, o.order, s[i], s[j])

(* The copies of the rows that propsToState may make: rows that compare as *)
(* equal come in any order.                                                *)
Unsorted(rows, o) == {SetToSeq(rows)}
Sorted(rows, o) ==
  IF o.by = NoValue THEN {SetToSeq(rows)} ELSE {s \in SetToSeqs(rows) : InOrder(o, s)}
-----------------------------------------------------------------------------
(* The table of the nodes is given an order; its label is not.             *)
InitialOrder == IF tablePage = "nodes" THEN [by |-> "status", order |-> "desc"] ELSE Unordered
InitialLabel(c) == IF c = InitialOrder.by THEN "asc" ELSE ""

TablesInit ==
  /\ tablePage \in ListPages
  /\ inStore = [r \in Listable |-> "absent"] /\ statusOf = [r \in Listable |-> "ok"]
  /\ pageRows = {} /\ tableRows = <<>> /\ orderBy = InitialOrder
  /\ labels = [c \in Taps \intersect DOMAIN Columns[tablePage] |-> InitialLabel(c)]
  /\ jumped = FALSE /\ tableFailed = FALSE

(* Which pages give the table a revision that grows with every change of   *)
(* the store, and which compute their rows again after what. The pods of a *)
(* node look at maxResourceVersionByKind, one object that is written to:   *)
(* its old and new values are always the same.                             *)
HasRevision == tablePage \notin {"access", "nodePods"}
Recomputes(change) ==
  CASE tablePage = "nodePods" -> change = "filter"
    [] tablePage = "related" -> change \in {"store", "filter"}
    [] OTHER -> TRUE

PropsChangedByCount(change, rows) == Cardinality(rows) # Cardinality(pageRows)
PropsChanged(change, rows) ==
  (HasRevision /\ change = "store") \/ Cardinality(rows) # Cardinality(pageRows)

(* The page and its table receive their properties. The nodes have no table*)
(* while there are no rows.                                                *)
Receive(change, in, status) ==
  LET rows == IF Recomputes(change) THEN Objects(in, status) ELSE pageRows
      o == IF tablePage = "nodes" /\ rows = {} THEN InitialOrder ELSE orderBy
      throws == PropsChanged(change, rows) /\ o.by # NoValue /\ CompareThrows(o.by, rows)
  IN /\ inStore' = in /\ statusOf' = status /\ pageRows' = rows /\ orderBy' = o
     /\ tableFailed' \in (IF throws THEN BOOLEAN ELSE {Recomputes(change) /\ ResolveThrows(in)})
     /\ tableRows' \in (IF PropsChanged(change, rows) THEN Sorted(rows, o) ELSE {tableRows})
     /\ labels' = (IF o # orderBy THEN [c \in DOMAIN labels |-> InitialLabel(c)] ELSE labels)
     /\ UNCHANGED tablePage

Put(r, in, s) ==
  /\ ~ tableFailed /\ Receive("store", [inStore EXCEPT ![r] = in], [statusOf EXCEPT ![r] = s]) /\ jumped' = FALSE
Delete(r) ==
  /\ ~ tableFailed /\ inStore[r] \in {"shown", "filtered"}
  /\ Receive("store", [inStore EXCEPT ![r] = "deleted"], statusOf) /\ jumped' = FALSE

Marked(R, from, to) == [r \in Listable |-> IF r \in R /\ inStore[r] = from THEN to ELSE inStore[r]]

(* One filter was added or removed: more rows or fewer.                    *)
ChangeFilter(R, from, to) ==
  /\ ~ tableFailed /\ Receive("filter", Marked(R, from, to), statusOf) /\ UNCHANGED jumped

(* SET_FILTER_NAMES, and the settings, replace all filters in one step.    *)
ReplaceFilters(R, change) ==
  /\ ~ tableFailed
  /\ Receive(change, [r \in Listable |-> IF inStore[r] \in {"absent", "deleted"} THEN inStore[r]
                                         ELSE IF r \in R THEN "filtered" ELSE "shown"], statusOf)
  /\ jumped' = TRUE

(* The hovered row changed: the table copies the rows again.               *)
HoverRow ==
  /\ ~ tableFailed /\ tablePage \notin {"nodes", "volumes"} /\ tableRows # <<>>
  /\ tableRows' \in Sorted(pageRows, orderBy)
  /\ tableFailed' \in (IF orderBy.by # NoValue /\ CompareThrows(orderBy.by, pageRows) THEN BOOLEAN ELSE {FALSE})
  /\ UNCHANGED <<tablePage, inStore, statusOf, pageRows, orderBy, labels, jumped>>

(* onRequestSort of a label sorts the copy in place. An exception in the   *)
(* comparator leaves the copy in any order and the rest as it was.         *)
LabelsFor(o) == [c \in DOMAIN labels |-> IF c = o.by THEN o.order ELSE ""]
NextOrder(c) == IF labels[c] = "asc" THEN "desc" ELSE "asc"
OnRequestSort(c) ==
  LET o == [by |-> c, order |-> NextOrder(c)] IN
  /\ ~ tableFailed /\ c \in DOMAIN labels /\ tableRows # <<>>
  /\ \/ tableRows' \in Sorted(ToSet(tableRows), o) /\ orderBy' = o /\ labels' = LabelsFor(o)
     \/ CompareThrows(c, ToSet(tableRows)) /\ tableRows' \in SetToSeqs(ToSet(tableRows))
        /\ UNCHANGED <<orderBy, labels>>
  /\ UNCHANGED <<tablePage, inStore, statusOf, pageRows, jumped, tableFailed>>

LeavePage ==
  /\ tableFailed /\ tableFailed' = FALSE /\ tableRows' = <<>> /\ pageRows' = {} /\ orderBy' = InitialOrder
  /\ inStore' = [r \in Listable |-> "absent"] /\ labels' = [c \in DOMAIN labels |-> InitialLabel(c)] /\ jumped' = FALSE
  /\ UNCHANGED <<tablePage, statusOf>>

TablesNext ==
  \/ \E r \in Listable : Delete(r) \/ \E in \in {"shown", "filtered"}, s \in TableStatus : Put(r, in, s)
  \/ \E R \in SUBSET Listable :
       \/ ChangeFilter(R, "shown", "filtered") \/ ChangeFilter(R, "filtered", "shown")
       \/ ReplaceFilters(R, "filter") \/ ReplaceFilters(R, "settings")
  \/ HoverRow \/ LeavePage
  \/ \E c \in Taps : OnRequestSort(c)

TablesSpec == TablesInit /\ [][TablesNext]_filterTableVars
-----------------------------------------------------------------------------
TablesTypeOK ==
  /\ inStore \in [Listable -> {"absent", "shown", "filtered", "deleted"}] /\ statusOf \in [Listable -> TableStatus]
  /\ pageRows \subseteq [of : Listable, status : TableStatus] /\ ToSet(tableRows) \subseteq [of : Listable, status : TableStatus]
  /\ orderBy.by \in DOMAIN Columns[tablePage] \union {NoValue} /\ orderBy.order \in {"", "asc", "desc"}
  /\ \A c \in DOMAIN labels : labels[c] \in {"", "asc", "desc"}
  /\ jumped \in BOOLEAN /\ tableFailed \in BOOLEAN

(* On a page that gives its table a revision the table shows the current   *)
(* objects of exactly the rows the page lists, though it copies them only  *)
(* when propsChanged finds a reason and filter changes alter no revision:  *)
(* one filter more or less changes the number of rows or none of them.     *)
(* Filters replaced all at once may defeat it until the store changes.     *)
TableShowsRows ==
  HasRevision /\ ~ jumped /\ ~ tableFailed => ToSet(tableRows) = Objects(inStore, statusOf)

(* The rows are in the order that the labels of the header show, whatever  *)
(* sequence of taps and of new rows led there: the copy is sorted anew on  *)
(* every change and each label follows the table. (The first label of the  *)
(* nodes shows the opposite order until a column is tapped.)               *)
SortedAsLabelled ==
  ~ tableFailed /\ (\A c \in DOMAIN labels : ~ CompareThrows(c, ToSet(tableRows))) =>
  /\ InOrder(orderBy, tableRows)
  /\ tablePage # "nodes" => labels = LabelsFor(orderBy)
=============================================================================
