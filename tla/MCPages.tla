------------------------------ MODULE MCPages ------------------------------
(***************************************************************************)
(* Small instances of the UI's pages and of what they use: the edits and   *)
(* removals of resources, the editor, the access of the user, the          *)
(* permissions of a subject, the numbers that are shown, the dashboard,    *)
(* the tables and the notices of errors.  Each is modelled with the slice  *)
(* of the store it uses; in a behaviour one of them takes steps, the       *)
(* others stay as they start and only that one's properties are looked at. *)
(***************************************************************************)
EXTENDS Contents, Editor, Access, Permissions, Numbers, Dashboard, RowActions, FilterTable, Errors, TLC

CONSTANTS s1, s2, b1, b2, r1, r2, r3, u1, u2, m1, m2, m3

VARIABLE part   \* the page that takes steps
-----------------------------------------------------------------------------
PagesTexts == {[key |-> r1, fault |-> f] : f \in Faults} \cup {[key |-> r2, fault |-> "none"]}

PagesSpaceOf == r1 :> s1 @@ r2 :> s2

PagesBoundSubject == {[kind |-> "User", name |-> "a", space |-> None],
                      [kind |-> "ServiceAccount", name |-> "a", space |-> s1],
                      [kind |-> "ServiceAccount", name |-> "a", space |-> s2]}
PagesSpaceOfBinding == b1 :> s1 @@ b2 :> Everywhere
PagesSpaceOfRole == r1 :> Everywhere @@ r2 :> s1
PagesRules == r1 :> {u1, u2} @@ r2 :> {u1}

PagesHomeOf == m1 :> s1 @@ m2 :> s1 @@ m3 :> NoHome
PagesOwnersOf == m1 :> {} @@ m2 :> {m1} @@ m3 :> {}

Two(k) == [r \in {r1, r2} |-> k]
PagesKindOn ==
  [workloads |-> r1 :> "Deployment" @@ r2 :> "Pod", access |-> r1 :> "Role" @@ r2 :> "ClusterRole",
   related |-> r2 :> "Pod" @@ r3 :> "Secret",
   nodePods |-> Two("Pod"), nodes |-> Two("Node"), namespaces |-> Two("namespaces"), volumes |-> Two("volumes"),
   classes |-> Two("classes"), quotas |-> Two("quotas"), thirdParty |-> Two("thirdParty")]
PagesOwns == {<<r1, r2>>}
PagesRelatedTo == {<<r2, r3>>}
PagesText == r1 :> 1 @@ r2 :> 2 @@ r3 :> 2
PagesNumber == r1 :> 5 @@ r2 :> 3 @@ r3 :> 3
PagesOptional == r1 :> 4 @@ r2 :> NoValue @@ r3 :> 1
-----------------------------------------------------------------------------
editVars == <<contentVars, editorVars>>
shownVars == <<accessVars, permissionVars, numberVars>>
listVars == <<dashboardVars, tableVars, filterTableVars, errorVars>>

Parts == {"contents", "editor", "access", "permissions", "numbers", "dashboard", "rows", "tables", "errors"}

AnyJob == CHOOSE j \in Jobs : TRUE

\* A page that takes no steps starts in one state.
PagesInit ==
  /\ part \in Parts
  /\ ContentsInit /\ EditorInit /\ PermissionsInit /\ DashboardInit /\ ErrorsInit /\ AccessInit
  /\ RowsInit /\ (part # "rows" => actionsPage = "workloads")
  /\ TablesInit /\ (part # "tables" => tablePage = "workloads")
  /\ NumbersInit /\ (part # "numbers" => job = AnyJob)

PagesNext ==
  /\ UNCHANGED part
  /\ \/ part = "contents" /\ ContentsNext /\ UNCHANGED <<editorVars, shownVars, listVars>>
     \/ part = "editor" /\ EditorNext /\ UNCHANGED <<contentVars, shownVars, listVars>>
     \/ part = "access" /\ AccessNext /\ UNCHANGED <<permissionVars, numberVars, editVars, listVars>>
     \/ part = "permissions" /\ PermissionsNext /\ UNCHANGED <<accessVars, numberVars, editVars, listVars>>
     \/ part = "numbers" /\ NumbersNext /\ UNCHANGED <<accessVars, permissionVars, editVars, listVars>>
     \/ part = "dashboard" /\ DashboardNext /\ UNCHANGED <<tableVars, filterTableVars, errorVars, editVars, shownVars>>
     \/ part = "rows" /\ RowsNext /\ UNCHANGED <<dashboardVars, filterTableVars, errorVars, editVars, shownVars>>
     \/ part = "tables" /\ TablesNext /\ UNCHANGED <<dashboardVars, tableVars, errorVars, editVars, shownVars>>
     \/ part = "errors" /\ ErrorsNext /\ UNCHANGED <<dashboardVars, tableVars, filterTableVars, editVars, shownVars>>

PagesSpec == PagesInit /\ [][PagesNext]_<<part, editVars, shownVars, listVars>>
-----------------------------------------------------------------------------
(* The types of the page that takes steps.                                 *)
PagesTypeOK ==
  /\ part = "contents" => ContentsTypeOK
  /\ part = "editor" => EditorTypeOK
  /\ part = "access" => AccessTypeOK
  /\ part = "permissions" => PermissionsTypeOK
  /\ part = "numbers" => NumbersTypeOK
  /\ part = "dashboard" => DashboardTypeOK
  /\ part = "rows" => RowsTypeOK
  /\ part = "tables" => TablesTypeOK
  /\ part = "errors" => ErrorsTypeOK

(* A lone scaling is sent as it was asked for, every answered write is the *)
(* one its caller made, the text being typed is not replaced, and what is  *)
(* created was checked for its unset variables.                            *)
EditsKept ==
  /\ part = "contents" => SoleScaleSent /\ WrittenAsAsked
  /\ part = "editor" => TypedTextKept /\ CreatedAsValidated

(* An action is withheld only after a review that did not find it granted, *)
(* and the rules a subject's pane shows are those granted to it.           *)
AccessShown ==
  /\ part = "access" => PermittedIsOffered
  /\ part = "permissions" => ShownAsGranted

(* Amounts are summed, converted, averaged, rounded, ranked and decoded as *)
(* the pages show them.                                                    *)
NumbersRight ==
  part = "numbers" => ShownAmount /\ CellIsAverage /\ ReadablePrecision /\ RankedAsShown /\ DecodedIsInput

(* The dashboard's problems are those of the chosen namespaces, unless     *)
(* their collection threw, under a tab that has some, and no empty notice  *)
(* of an error is shown.                                                   *)
NoticesRight ==
  /\ part = "dashboard" => TabHasProblems /\ ChosenNamespacesOnly
  /\ part = "errors" => NoEmptyNotice

(* A table shows the rows of its page in the order its labels say, and an  *)
(* action on a row or on a selection is taken on listed resources.         *)
TablesRight ==
  /\ part = "tables" => TableShowsRows /\ SortedAsLabelled
  /\ part = "rows" => ActsOnListed
=============================================================================
