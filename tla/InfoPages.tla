----------------------------- MODULE InfoPages -----------------------------
(***************************************************************************)
(* The page of one resource (WorkloadInfo, AccessControlsInfo and          *)
(* ClusterInfo) and the selected resource of the store it shows.  The page *)
(* asks the store to select the resource of its address; requestResource   *)
(* does so after fetchResources, under one request name, so a page that is *)
(* opened during the request of another asks for nothing at first.         *)
(* An address without a resource selects a placeholder that is marked      *)
(* notFound and has no key; a removed resource keeps its key and is marked *)
(* notFound as well.  The edit view of these pages is module Editor's.     *)
(***************************************************************************)
EXTENDS Naturals, FiniteSets

CONSTANTS InfoKey,     \* resources that have a page
          Nothing      \* null

Groups == {"workloads", "access", "cluster"}
Statuses == {"live", "deleted", "placeholder"}
Pages  == [group : Groups, key : InfoKey]

VARIABLES user,      \* session.user is set
          infoObjects,   \* state.resources: key -> status, "absent" without an entry
          picked,    \* state.resource, the selected one
          infoPage,  \* the page that is open, Nothing on other pages
          asking,    \* the key requests.fetching['resources.selected'] is for
          lost,      \* that request threw and is never removed
          view       \* what the open page rendered last

infoVars == <<user, infoObjects, picked, infoPage, asking, lost, view>>

NoObjects == [k \in InfoKey |-> "absent"]
-----------------------------------------------------------------------------
NotFound(res) == res # Nothing /\ res.status # "live"

(* resourceMatchesParams                                                   *)
ResourceMatchesParams(res, key, ignoreNotFound) ==
  res # Nothing /\ res.key = key /\ (ignoreNotFound \/ ~NotFound(res))

(* sameResource: by key when both have one; a placeholder is the same only *)
(* as one that is not found either.                                        *)
SameResource(r, s) ==
  IF r = Nothing \/ s = Nothing THEN r = s
  ELSE /\ r.key = s.key
       /\ "placeholder" \in {r.status, s.status} => NotFound(r) = NotFound(s)

(* When ensureResource of each container asks for the resource.            *)
WorkloadInfoAsks(res, key) == ~ResourceMatchesParams(res, key, FALSE) /\ ~NotFound(res)
AccessControlsInfoAsksFoundOnly(res, key) ==
  ~ResourceMatchesParams(res, key, TRUE) /\ ~NotFound(res)
AccessControlsInfoAsks(res, key) == ~ResourceMatchesParams(res, key, TRUE)
ClusterInfoAsks(res, key) == ~ResourceMatchesParams(res, key, FALSE)

Asks(page, res) ==
  CASE page.group = "workloads" -> WorkloadInfoAsks(res, page.key)
    [] page.group = "access"    -> AccessControlsInfoAsks(res, page.key)
    [] page.group = "cluster"   -> ClusterInfoAsks(res, page.key)

(* requestResource: deduplicated by its name.                              *)
EnsureResource(usr, page, res, ask) ==
  IF page # Nothing /\ usr /\ ask = Nothing /\ Asks(page, res) THEN page.key ELSE ask

(* render.  "loadingPage" is the spinner above the page of a placeholder.  *)
WorkloadInfoRender(res, fetching) ==
  CASE res = Nothing -> "loading"
    [] res.status = "live" -> "page"
    [] fetching /\ res.status = "placeholder" -> "loading"
    [] OTHER -> "notFound"
AccessControlsInfoRender(res, fetching) ==
  CASE res = Nothing -> "loading"
    [] res.status = "live" -> "page"
    [] OTHER -> IF fetching THEN "loadingPage" ELSE "notFound"
ClusterInfoRender(res, fetching) == AccessControlsInfoRender(res, fetching)
-----------------------------------------------------------------------------
(* shouldComponentUpdate: whether a container renders again when it opens  *)
(* another page, the user or the selected resource changed, the requests   *)
(* in flight changed.  Two versions of one resource are the same to the    *)
(* access and the cluster page, and ClusterInfo does not look at fetching. *)
WorkloadInfoUpdates(changed, fetchingChanged) == TRUE
AccessControlsInfoUpdates(changed, fetchingChanged) == changed \/ fetchingChanged
ClusterInfoUpdates(changed, fetchingChanged) == changed

(* The store changes to usr, objs and res, the request name is used by ask *)
(* while it does and by done afterwards; the open page receives the props  *)
(* and ensures its resource (componentWillReceiveProps).                   *)
ReceiveStore(usr, objs, res, page, ask, done) ==
  /\ user' = usr /\ infoObjects' = objs /\ picked' = res /\ infoPage' = page
  /\ asking' = EnsureResource(usr, page, res, done)
  /\ LET changed == page # infoPage \/ user # usr \/ ~SameResource(picked, res)
         renewed == asking' # asking \/ ask # done
     IN view' = CASE page = Nothing -> "none"
                  [] page.group = "workloads" /\ WorkloadInfoUpdates(changed, renewed) ->
                       WorkloadInfoRender(res, asking' # Nothing)
                  [] page.group = "access" /\ AccessControlsInfoUpdates(changed, renewed) ->
                       AccessControlsInfoRender(res, asking' # Nothing)
                  [] page.group = "cluster" /\ ClusterInfoUpdates(changed, renewed) ->
                       ClusterInfoRender(res, ask # Nothing)
                  [] OTHER -> view

(* A link or an address opens the page of a resource.                      *)
Open(page) ==
  /\ ReceiveStore(user, infoObjects, picked, page, asking, asking)
  /\ UNCHANGED lost

(* The back button, viewKind, viewFilters and the removal of the resource  *)
(* lead to a page without a resource.                                      *)
Leave == infoPage # Nothing /\ ReceiveStore(user, infoObjects, picked, Nothing, asking, asking) /\ UNCHANGED lost

(* INITIALIZE of the session.                                              *)
SignIn == ~user /\ ReceiveStore(TRUE, infoObjects, picked, infoPage, asking, asking) /\ UNCHANGED lost

(* INVALIDATE empties the store, then the address becomes '/'.             *)
InvalidateSession ==
  /\ user
  /\ ReceiveStore(FALSE, NoObjects, Nothing, Nothing, asking, asking)
  /\ UNCHANGED lost

(* shouldFetchResources: signed in, and nothing in the store.              *)
ShouldFetch == user /\ infoObjects = NoObjects

WithListed(found) == [k \in InfoKey |-> IF k \in found THEN "live" ELSE infoObjects[k]]

(* requestResources of a list page.                                        *)
RequestResources ==
  \E found \in SUBSET InfoKey :
    /\ ShouldFetch
    /\ ReceiveStore(user, WithListed(found), picked, infoPage, asking, asking)
    /\ UNCHANGED lost

(* SELECT_RESOURCE: the object of the store, or a placeholder that enters  *)
(* it.                                                                     *)
DoSelectResource(objs, key) ==
  [key |-> key, status |-> IF objs[key] = "absent" THEN "placeholder" ELSE objs[key]]

(* fetchResource, after fetchResources left the store as objs: it selects  *)
(* unless that resource is the selected one, found or not.  The selection  *)
(* of its events, logs and terminal that follows is in their modules.      *)
SelectIn(usr, objs, res, page) ==
  LET new == IF ResourceMatchesParams(res, asking, TRUE) THEN res ELSE DoSelectResource(objs, asking)
      with == IF new = res THEN objs ELSE [objs EXCEPT ![asking] = new.status]
  IN ReceiveStore(usr, with, new, page, asking, Nothing)

FetchResource ==
  /\ asking # Nothing /\ ~lost
  /\ \/ ~ShouldFetch /\ SelectIn(user, infoObjects, picked, infoPage)
     \/ ShouldFetch /\ \E found \in SUBSET InfoKey :      \* an empty list or a failed request: {}
          SelectIn(user, WithListed(found), picked, infoPage)
     \/ ShouldFetch /\ SelectIn(FALSE, NoObjects, Nothing, Nothing)   \* 401: the session is invalidated
  /\ UNCHANGED lost

(* fetch throws: no DONE_FETCHING, the name stays in use.                  *)
LoseRequest ==
  /\ asking # Nothing /\ ~lost /\ ShouldFetch
  /\ lost' = TRUE
  /\ UNCHANGED <<user, infoObjects, picked, infoPage, asking, view>>

(* PUT_RESOURCE from the watch: the selection follows when it is the same  *)
(* resource.                                                               *)
PutSelected(k) ==
  /\ user
  /\ LET new == [key |-> k, status |-> "live"]
     IN ReceiveStore(user, [infoObjects EXCEPT ![k] = "live"],
                IF picked # Nothing /\ SameResource(picked, new) THEN new ELSE picked, infoPage, asking, asking)
  /\ UNCHANGED lost

(* REMOVE_RESOURCE: the selection is dropped when its key is the removed   *)
(* one's; a placeholder has none.                                          *)
RemoveSelected(k) ==
  /\ user /\ infoObjects[k] # "absent"
  /\ ReceiveStore(user, IF infoObjects[k] = "live" THEN [infoObjects EXCEPT ![k] = "deleted"] ELSE infoObjects,
             IF picked # Nothing /\ picked.key = k /\ picked.status # "placeholder" THEN Nothing ELSE picked,
             infoPage, asking, asking)
  /\ UNCHANGED lost
-----------------------------------------------------------------------------
InfoInit ==
  /\ user = FALSE /\ infoObjects = NoObjects /\ picked = Nothing
  /\ infoPage = Nothing /\ asking = Nothing /\ lost = FALSE /\ view = "none"

InfoNext ==
  \/ \E page \in Pages : Open(page)
  \/ Leave
  \/ SignIn
  \/ InvalidateSession
  \/ RequestResources
  \/ FetchResource
  \/ LoseRequest
  \/ \E k \in InfoKey : PutSelected(k) \/ RemoveSelected(k)

InfoSpec == InfoInit /\ [][InfoNext]_infoVars /\ WF_infoVars(FetchResource)
-----------------------------------------------------------------------------
InfoTypeOK ==
  /\ user \in BOOLEAN /\ lost \in BOOLEAN
  /\ infoObjects \in [InfoKey -> Statuses \union {"absent"}]
  /\ picked \in [key : InfoKey, status : Statuses] \union {Nothing}
  /\ infoPage \in Pages \union {Nothing} /\ asking \in InfoKey \union {Nothing}
  /\ view \in {"none", "loading", "loadingPage", "page", "notFound"}

(* The selection the page of p can not leave: a workload's page asks for   *)
(* nothing while any not-found resource is selected; a cluster page asks   *)
(* again and again for one that is not found, and does not render again    *)
(* when the request is done or the resource comes back.                    *)
Stuck(p) == \/ p.group = "workloads" /\ NotFound(picked)
            \/ p.group = "cluster" /\ (NotFound(picked) \/ view = "loadingPage")

(* An open page comes to show its own resource, or that it was not found,  *)
(* and no spinner, unless it is left, the session ends, the request threw  *)
(* or the selection is one of Stuck: ensureResource asks again after the   *)
(* request of another page, the selection of another resource or the       *)
(* removal of the resource.                                                *)
PageResolves ==
  \A p \in Pages :
    (infoPage = p /\ user) ~> \/ infoPage # p \/ ~user \/ lost \/ Stuck(p)
                              \/ /\ picked # Nothing /\ picked.key = p.key
                                 /\ view \in {"page", "notFound"}
=============================================================================
