----------------------------- MODULE RowActions -----------------------------
(***************************************************************************)
(* What the pages with a table of resources let the user do to the rows:   *)
(* the workloads page, the access tab, the pane of related resources, the  *)
(* pane of the pods of a node and the cluster tabs. Each has the checked   *)
(* rows, the menu of a row, which opens when the answer of the access      *)
(* evaluator comes, a toolbar, and dialogs that confirm an action. What is *)
(* on the screen is the state at the last render: shouldComponentUpdate    *)
(* decides which changes render. The handlers of one tap set the state     *)
(* together. A row keeps its place, and a removed resource stays in the    *)
(* store, marked deleted.                                                  *)
(***************************************************************************)
EXTENDS Integers, FiniteSets

CONSTANTS Row,         \* resources
          Scalable,    \* those with replicas
          Tap,         \* the event of a tap, where a handler takes it for a resource
          NoRow, NoAct

ASSUME RowsAssumption == {NoRow, Tap} \intersect Row = {} /\ NoRow # Tap /\ Scalable \subseteq Row

VARIABLES actionsPage,
          rows,        \* the resources the filters let through
          pageState,   \* the state of the component
          screen,      \* pageState at the last render
          selectedIds, \* this.selectedIds: the checked rows
          actionsClicked,
          awaited,     \* rows whose access was asked for
          crashed,     \* a render threw an exception
          act          \* the action this step asks the store for, and what its dialog listed

tableVars == <<actionsPage, rows, pageState, screen, selectedIds, actionsClicked, awaited, crashed, act>>

(* What the menu of a row and the toolbar offer. In the cluster tabs the   *)
(* menu's delete is for the checked rows, of which there are none.         *)
WorkloadsView == [menu |-> {"delete", "suspend", "detach", "scale"}, tools |-> {"delete", "suspend"}]
AccessView    == [menu |-> {"delete"}, tools |-> {"delete"}]
RelatedView   == [menu |-> {"delete", "detach"}, tools |-> {"delete"}]
NodePodsView  == [menu |-> {"delete"}, tools |-> {"delete"}]
ClusterView   == [menu |-> {}, tools |-> {}]
View == [workloads |-> WorkloadsView, access |-> AccessView, related |-> RelatedView,
         nodePods |-> NodePodsView, cluster |-> ClusterView]
Dialogs == View[actionsPage].menu

Fresh == [hoveredResource |-> NoRow, hoveredRow |-> NoRow, actionsOpen |-> FALSE,
          open |-> {}, selectedResources |-> {}]

RowsInit ==
  /\ actionsPage \in DOMAIN View
  /\ rows = Row /\ pageState = Fresh /\ screen = Fresh /\ selectedIds = {} /\ actionsClicked = FALSE
  /\ awaited = {} /\ crashed = FALSE /\ act = NoAct
-----------------------------------------------------------------------------
(* shouldComponentUpdate of each page: the workloads page does not compare *)
(* the detach dialog, the pods of a node no dialog at all.                 *)
WorkloadsRenders(new) ==
  \/ new.actionsOpen # pageState.actionsOpen \/ new.hoveredRow # pageState.hoveredRow
  \/ new.open \ {"detach"} # pageState.open \ {"detach"}
AccessRenders(new) ==
  new.actionsOpen # pageState.actionsOpen \/ new.hoveredRow # pageState.hoveredRow \/ new.open # pageState.open
RelatedRenders(new) ==
  \/ new.actionsOpen # pageState.actionsOpen \/ new.open # pageState.open
  \/ new.selectedResources # pageState.selectedResources
NodePodsRenders(new) == new.actionsOpen # pageState.actionsOpen
ClusterRenders(new) == new.actionsOpen # pageState.actionsOpen \/ new.hoveredRow # pageState.hoveredRow

RendersFor(new) ==
  CASE actionsPage = "workloads" -> WorkloadsRenders(new) [] actionsPage = "access" -> AccessRenders(new)
    [] actionsPage = "related" -> RelatedRenders(new)     [] actionsPage = "nodePods" -> NodePodsRenders(new)
    [] actionsPage = "cluster" -> ClusterRenders(new)

(* A dialog cannot render an event as a resource.                          *)
Unrenderable(s) == Tap \in s.selectedResources /\ s.open \ {"scale"} # {}

(* setState, the render it may cause and componentDidUpdate after it.      *)
SetState(new, clicked) ==
  /\ pageState' = new /\ screen' = (IF RendersFor(new) THEN new ELSE screen)
  /\ crashed' = (RendersFor(new) /\ Unrenderable(new))
  /\ actionsClicked' = (clicked /\ (RendersFor(new) /\ actionsPage # "cluster" => new.actionsOpen))

(* The row menu and the dialogs cover the table and the toolbar.           *)
MenuShown == screen.hoveredResource # NoRow /\ (actionsPage = "cluster" => screen.actionsOpen)
ScaleShown == "scale" \in screen.open /\ screen.hoveredResource \in Scalable
DialogShown(d) == IF d = "scale" THEN ScaleShown ELSE d \in screen.open
TableReachable == ~ crashed /\ ~ MenuShown /\ \A d \in Dialogs : ~ DialogShown(d)
-----------------------------------------------------------------------------
(* handleRowSelection ignores the selection that a tap on the actions cell *)
(* of a row makes.                                                         *)
Selection(ids, clicked) == IF clicked THEN selectedIds ELSE ids

SelectRows(ids) ==
  /\ TableReachable /\ actionsPage # "cluster" /\ ids \subseteq rows /\ selectedIds' = Selection(ids, actionsClicked)
  /\ act' = NoAct /\ UNCHANGED <<actionsPage, rows, pageState, screen, actionsClicked, awaited, crashed>>

(* A tap on the actions cell asks for the access to the row; in a cluster  *)
(* tab it opens the menu. A tap on another cell leaves the page.           *)
Hovering(r) == [pageState EXCEPT !.hoveredResource = r, !.hoveredRow = r, !.actionsOpen = TRUE]
AskAccess(r) ==
  /\ TableReachable /\ r \in rows /\ actionsClicked' = TRUE /\ awaited' = awaited \union {r}
  /\ act' = NoAct /\ UNCHANGED <<actionsPage, rows, pageState, screen, selectedIds, crashed>>
OpenMenu(r) ==
  /\ TableReachable /\ r \in rows /\ SetState(Hovering(r), TRUE)
  /\ act' = NoAct /\ UNCHANGED <<actionsPage, rows, selectedIds, awaited>>

(* The access came: the menu opens, whatever the page shows by now.        *)
AccessArrives(r) ==
  /\ r \in awaited /\ ~ crashed /\ awaited' = awaited \ {r} /\ SetState(Hovering(r), actionsClicked)
  /\ act' = NoAct /\ UNCHANGED <<actionsPage, rows, selectedIds>>

Closed(s) == [s EXCEPT !.actionsOpen = FALSE, !.hoveredRow = NoRow, !.hoveredResource = NoRow]

CloseMenu ==
  /\ MenuShown /\ ~ crashed /\ SetState(Closed(pageState), actionsClicked)
  /\ act' = NoAct /\ UNCHANGED <<actionsPage, rows, selectedIds, awaited>>

(* handleDelete: the resource it is given or else the checked rows. The    *)
(* workloads page tells an event from a resource. The menus, but for the   *)
(* one of the related resources, give hoveredResources, which is null.     *)
WorkloadsDelete(r) == IF r \in Row THEN {r} ELSE selectedIds
AccessDelete(r) == IF r # NoRow THEN {r} ELSE selectedIds
RelatedDelete(r) == IF r # NoRow THEN {r} ELSE selectedIds
NodePodsDelete(r) == IF r # NoRow THEN {r} ELSE selectedIds
HandleDelete(r) ==
  CASE actionsPage = "workloads" -> WorkloadsDelete(r) [] actionsPage = "access" -> AccessDelete(r)
    [] actionsPage = "related" -> RelatedDelete(r)     [] actionsPage = "nodePods" -> NodePodsDelete(r)

(* closeAndHandle: the menu closes, and the handler still reads the row it *)
(* was of.                                                                 *)
MenuAction(d) ==
  /\ MenuShown /\ ~ crashed /\ (d = "scale" => pageState.hoveredResource \in Scalable)
  /\ SetState([Closed(pageState) EXCEPT
       !.open = @ \union {d},
       !.selectedResources =
         CASE d = "delete" -> HandleDelete(IF actionsPage = "related" THEN pageState.hoveredResource ELSE NoRow)
           [] d = "scale"  -> @
           [] OTHER        -> {pageState.hoveredResource}], actionsClicked)
  /\ act' = NoAct /\ UNCHANGED <<actionsPage, rows, selectedIds, awaited>>

(* A button of the toolbar gives its handler the event. handleSuspend takes*)
(* it for a resource.                                                      *)
Tool(d) ==
  /\ TableReachable /\ selectedIds # {} /\ (d = "suspend" => selectedIds \intersect Scalable # {})
  /\ SetState([pageState EXCEPT !.open = @ \union {d}, !.actionsOpen = FALSE,
       !.selectedResources = IF d = "delete" THEN HandleDelete(Tap) ELSE {Tap}], actionsClicked)
  /\ act' = NoAct /\ UNCHANGED <<actionsPage, rows, selectedIds, awaited>>

(* A pod of a node is detached at once: the one of the state, which a late *)
(* answer may have changed under the menu on the screen.                   *)
DetachNow ==
  /\ MenuShown /\ ~ crashed /\ SetState(Closed(pageState), actionsClicked)
  /\ act' = [what |-> "detachNow", of |-> {pageState.hoveredResource}, listed |-> {screen.hoveredResource}]
  /\ UNCHANGED <<actionsPage, rows, selectedIds, awaited>>

CancelDialog(d) ==
  /\ DialogShown(d) /\ ~ crashed
  /\ SetState([pageState EXCEPT !.open = @ \ {d},
       !.selectedResources = IF d \in {"delete", "detach"} THEN {} ELSE @,
       !.hoveredRow = IF d = "scale" THEN NoRow ELSE @], actionsClicked)
  /\ act' = NoAct /\ UNCHANGED <<actionsPage, rows, selectedIds, awaited>>

(* The action is asked for of the resources in the state; the dialog listed*)
(* those of the screen. Without any, detachResource fails.                 *)
ActOnChecked(d) == IF d = "scale" THEN {pageState.hoveredResource} \ {NoRow} ELSE selectedIds
ActOn(d) == IF d = "scale" THEN {pageState.hoveredResource} \ {NoRow} ELSE pageState.selectedResources

ConfirmAction(d) ==
  /\ DialogShown(d) /\ ~ crashed
  /\ act' = [what |-> d, of |-> ActOn(d),
             listed |-> IF d = "scale" THEN {screen.hoveredResource} ELSE screen.selectedResources]
  /\ SetState([pageState EXCEPT !.open = @ \ {d},
       !.selectedResources = IF d \in {"delete", "detach"} THEN {} ELSE @], actionsClicked /\ d # "suspend")
  /\ selectedIds' = IF d = "scale" THEN selectedIds ELSE Selection({}, actionsClicked)
  /\ UNCHANGED <<actionsPage, rows, awaited>>

(* The store changed: the rows are computed again and everything renders.  *)
ReceiveTableProps(live) ==
  /\ ~ crashed /\ rows' = live /\ screen' = pageState /\ crashed' = Unrenderable(pageState)
  /\ actionsClicked' = (actionsClicked /\ (pageState.actionsOpen \/ actionsPage = "cluster"))
  /\ act' = NoAct /\ UNCHANGED <<actionsPage, pageState, selectedIds, awaited>>

(* Another page and back: a new component, which no late answer reaches.   *)
LeaveTable ==
  /\ pageState' = Fresh /\ screen' = Fresh /\ selectedIds' = {} /\ actionsClicked' = FALSE
  /\ awaited' = {} /\ crashed' = FALSE /\ act' = NoAct /\ UNCHANGED <<actionsPage, rows>>
-----------------------------------------------------------------------------
(* The handlers of each page.                                              *)
AsksFirst == \E r \in Row : AskAccess(r) \/ AccessArrives(r)
Confirms(d) == MenuAction(d) \/ CancelDialog(d) \/ ConfirmAction(d)

WorkloadsSteps ==
  /\ actionsPage = "workloads"
  /\ \/ AsksFirst \/ CloseMenu \/ \E d \in WorkloadsView.menu : Confirms(d)
     \/ \E d \in WorkloadsView.tools : Tool(d)
AccessSteps == actionsPage = "access" /\ (AsksFirst \/ CloseMenu \/ Confirms("delete") \/ Tool("delete"))
RelatedSteps ==
  /\ actionsPage = "related"
  /\ AsksFirst \/ CloseMenu \/ Confirms("delete") \/ Confirms("detach") \/ Tool("delete")
NodePodsSteps ==
  actionsPage = "nodePods" /\ (AsksFirst \/ CloseMenu \/ Confirms("delete") \/ Tool("delete") \/ DetachNow)
ClusterSteps == actionsPage = "cluster" /\ (CloseMenu \/ \E r \in Row : OpenMenu(r))

RowsNext ==
  \/ \E ids \in SUBSET Row : SelectRows(ids) \/ ReceiveTableProps(ids)
  \/ WorkloadsSteps \/ AccessSteps \/ RelatedSteps \/ NodePodsSteps \/ ClusterSteps \/ LeaveTable

RowsSpec == RowsInit /\ [][RowsNext]_tableVars
-----------------------------------------------------------------------------
PageStates == [hoveredResource : Row \cup {NoRow}, hoveredRow : Row \cup {NoRow}, actionsOpen : BOOLEAN,
               open : SUBSET Dialogs, selectedResources : SUBSET (Row \cup {Tap})]
RowsTypeOK ==
  /\ rows \subseteq Row /\ pageState \in PageStates /\ screen \in PageStates /\ selectedIds \subseteq Row
  /\ actionsClicked \in BOOLEAN /\ awaited \subseteq Row /\ crashed \in BOOLEAN

(* A confirmed action reaches only resources that its dialog named, though *)
(* menus may open over a dialog, two dialogs share one list and not every  *)
(* change renders (handleConfirmDelete, -Suspend, -Detach, -Scale).        *)
ActsOnListed == act # NoAct /\ act.what # "detachNow" => act.of \subseteq act.listed \intersect Row
=============================================================================
