------------------------------ MODULE Contents ------------------------------
(***************************************************************************)
(* The UI operations that change a resource at the API server: scale,      *)
(* detach, edit, apply, remove and create. Scale and detach run under one  *)
(* request name, so a call made while another is in flight waits for the   *)
(* other's request (doRequest, module Requests) and goes on from whatever  *)
(* that one left in state.resources.editor.                                *)
(*                                                                         *)
(* What a resource holds is one value: the replicas of a workload, for a   *)
(* pod whether it is owned. putResource ignores the scaled resource, from  *)
(* which createPost removed the version, so scaling leaves the store as it *)
(* is. Requests are answered; one that is rejected is in module Requests.  *)
(* A patch says as its last applied configuration what is selected when it *)
(* is made, which need not be the resource that is patched.                *)
(***************************************************************************)
EXTENDS Integers, Sequences, FiniteSets

CONSTANTS Workload, Pod,  \* resources with replicas, and pods
          ReplicaCount,       \* the numbers a workload is scaled to
          Owned, Detached, \* what a pod is
          Gone,           \* of a resource that does not exist
          NoContents,     \* the editor's contents when there are none
          NoRequest,      \* no request in flight under a name
          MaxCalls        \* bounds the calls that are made

ASSUME ContentsAssumption == Workload \cap Pod = {} /\ ReplicaCount \subseteq Nat /\ MaxCalls \in Nat

VARIABLES cluster,   \* what the API server holds
          store,     \* what state.resources.resources holds; Gone: isDeleted
          editor,    \* state.resources.editor.contents
          flight,    \* state.requests.fetching
          calls,     \* every call so far
          removal,   \* the removal in progress: what was asked, is still unanswered
          written,   \* per resource the values somebody asked for
          picked,    \* state.resources.resource
          annotated  \* per name the last applied configuration in its patch

contentVars == <<cluster, store, editor, flight, calls, removal, written, picked, annotated>>

Thing == Workload \cup Pod
Value == ReplicaCount \cup {0, Owned, Detached}
ContentsOf(r, v) == [of |-> r, value |-> v]
RequestName == {"resource.contents", "resources.contents", "resources.current"}
NoRemoval == [asked |-> {}, open |-> {}]

(* A call waits for contents, then for its own patch or one it joined.     *)
Call == [op : {"scale", "detach", "edit", "apply"}, of : Thing, want : Value, alone : BOOLEAN,
         stage : {"contents", "patch", "ended"}, read : BOOLEAN, sent : BOOLEAN]

ContentsInit ==
  /\ cluster = [r \in Thing |-> IF r \in Pod THEN Owned ELSE 0] /\ store = cluster
  /\ editor = NoContents /\ flight = [n \in RequestName |-> NoRequest] /\ calls = <<>>
  /\ removal = NoRemoval /\ written = [r \in Thing |-> {cluster[r], Gone}]
  /\ picked = NoContents /\ annotated = [n \in RequestName |-> NoContents]

Fetch(verb, r, body) == [verb |-> verb, of |-> r, body |-> body, waiters |-> {}]

(* The request under a name is shared by the calls w that ask for it. Calls*)
(* are numbered, so their numbers are the order in which they wait.        *)
Requested(f, name, request, w) ==
  LET shared == IF f[name] = NoRequest THEN request ELSE f[name]
  IN [f EXCEPT ![name] = [shared EXCEPT !.waiters = shared.waiters \union w]]

(* createPatch: the annotation of the patch that a step starts under name. *)
Annotate(name, patches) == annotated' = [annotated EXCEPT ![name] = IF patches THEN picked' ELSE NoContents]

(* Starts a call: under its name it may find a request of another call.    *)
(* Contents that are fetched have their resource selected first.           *)
StartCall(op, r, v, name, request) ==
  /\ Len(calls) < MaxCalls
  /\ LET alone == flight[name] = NoRequest
     IN calls' = Append(calls, [op |-> op, of |-> r, want |-> v, alone |-> alone, read |-> FALSE,
                                stage |-> IF request.verb = "GET" THEN "contents" ELSE "patch",
                                sent |-> alone /\ request.verb = "PATCH"])
  /\ flight' = Requested(flight, name, request, {Len(calls')})
  /\ IF flight[name] = NoRequest
     THEN /\ picked' = IF request.verb = "GET" THEN r ELSE picked
          /\ Annotate(name, request.verb = "PATCH")
     ELSE UNCHANGED <<picked, annotated>>

ScaleResource(r, n) ==
  /\ r \in Workload /\ store[r] # Gone
  /\ StartCall("scale", r, n, "resource.contents", Fetch("GET", r, NoContents))
  /\ written' = [written EXCEPT ![r] = @ \union {n}]
  /\ UNCHANGED <<cluster, store, editor, removal>>

(* The resource in the store is changed, whether a patch is sent or not.   *)
DetachResource(p) ==
  /\ p \in Pod /\ store[p] = Owned
  /\ store' = [store EXCEPT ![p] = Detached]
  /\ StartCall("detach", p, Detached, "resource.contents", Fetch("PATCH", p, ContentsOf(p, Detached)))
  /\ written' = [written EXCEPT ![p] = @ \union {Detached}]
  /\ UNCHANGED <<cluster, editor, removal>>

EditResource(r) ==
  /\ store[r] # Gone
  /\ StartCall("edit", r, cluster[r], "resources.current", Fetch("GET", r, NoContents))
  /\ cluster[r] # Gone
  /\ UNCHANGED <<cluster, store, editor, removal, written>>

(* The editor of the page of r applies its text, which may still be that   *)
(* of another resource: the contents are never cleared.                    *)
ApplyResourceChanges(r, n) ==
  /\ editor # NoContents /\ editor.of \in Workload /\ r \in Workload
  /\ StartCall("apply", r, n, "resources.contents", Fetch("PATCH", r, ContentsOf(editor.of, n)))
  /\ written' = [written EXCEPT ![r] = @ \union {n}]
  /\ UNCHANGED <<cluster, store, editor, removal>>

(* RECEIVE_RESOURCE_CONTENTS replaces what the editor held.                *)
ReceiveContentsIfEmpty(c) == IF editor = NoContents THEN c ELSE editor
ReceiveContents(c) == c

(* Where a scale that got contents ed sends its patch.                     *)
PatchedAsRead(call, ed) == ed.of
PatchUrl(call, ed) == call.of

(* The scales that wait for the contents, and the one that goes on first.  *)
Scales(name) == {c \in flight[name].waiters : calls[c].stage = "contents" /\ calls[c].op = "scale"}
First(cs) == CHOOSE c \in cs : \A d \in cs : c <= d

(* The request under a name has ended: the callers go on in the order they *)
(* came. Of the scales that waited for contents the first starts a patch,  *)
(* the others find that one in flight and join it.                         *)
Ended(name, ed) ==
  LET scales  == Scales(name)
      patches == scales # {} /\ ed # NoContents /\ ed.of \in Workload
      first   == calls[First(scales)]
      freed   == [flight EXCEPT ![name] = NoRequest]
      patch   == Fetch("PATCH", PatchUrl(first, ed), ContentsOf(ed.of, first.want))
  IN /\ editor' = ed
     /\ flight' = IF patches THEN Requested(freed, name, patch, scales) ELSE freed
     /\ Annotate(name, patches)
     /\ calls' = [c \in DOMAIN calls |->
          IF c \notin flight[name].waiters THEN calls[c]
          ELSE [calls[c] EXCEPT !.stage = IF patches /\ c \in scales THEN "patch" ELSE "ended",
                                !.read = @ \/ ed # NoContents,
                                !.sent = @ \/ (patches /\ c = First(scales) /\ ed.of = calls[c].of)]]

(* A failed fetch leaves the editor without contents.                      *)
FetchResourceContents(name) ==
  /\ flight[name] # NoRequest /\ flight[name].verb = "GET"
  /\ UNCHANGED <<cluster, store, removal, written, picked>>
  /\ LET r == flight[name].of
     IN \/ cluster[r] # Gone /\ Ended(name, ReceiveContents(ContentsOf(r, cluster[r])))
        \/ Ended(name, NoContents)

(* The patch replaces the spec, whatever it has become since it was read;  *)
(* the API server refuses one that names another resource. What it answers *)
(* is selected before the callers go on.                                   *)
UpdateResourceContents(name) ==
  /\ flight[name] # NoRequest /\ flight[name].verb = "PATCH"
  /\ LET r == flight[name].of
         body == flight[name].body
     IN \/ /\ cluster[r] # Gone /\ body.of = r
           /\ cluster' = [cluster EXCEPT ![r] = body.value] /\ picked' = r
           /\ Ended(name, ReceiveContents(body))
        \/ UNCHANGED <<cluster, picked>> /\ Ended(name, editor)
  /\ UNCHANGED <<store, removal, written>>

(* One DELETE for each of the resources that are known, all at once.       *)
RemoveResources(s) ==
  /\ removal = NoRemoval
  /\ LET asked == {r \in s : store[r] # Gone}
     IN asked # {} /\ removal' = [asked |-> asked, open |-> asked]
  /\ UNCHANGED <<cluster, store, editor, flight, calls, written, picked, annotated>>

(* The answer to one of them; when all are there the resources leave the   *)
(* store. A refusal is a Response, which has no code, so it counts as done.*)
DeleteAnswered(r, refused) ==
  /\ r \in removal.open
  /\ cluster' = IF refused THEN cluster ELSE [cluster EXCEPT ![r] = Gone]
  /\ IF removal.open = {r}
     THEN /\ store' = [x \in Thing |-> IF x \in removal.asked THEN Gone ELSE store[x]]
          /\ removal' = NoRemoval
     ELSE removal' = [removal EXCEPT !.open = @ \ {r}] /\ UNCHANGED store
  /\ UNCHANGED <<editor, flight, calls, written, picked, annotated>>

(* The answer to the POST of a new resource; a refused one changes nothing.*)
CreateResource(r) ==
  /\ cluster[r] = Gone /\ store[r] = Gone
  /\ cluster' = [cluster EXCEPT ![r] = IF r \in Pod THEN Owned ELSE 0]
  /\ store' = [store EXCEPT ![r] = cluster'[r]]
  /\ UNCHANGED <<editor, flight, calls, removal, written, picked, annotated>>

(* A watch event brings what the server holds; the store ignores a change  *)
(* of a resource that it holds as deleted.                                 *)
Watched(r) ==
  /\ store[r] # Gone /\ store' = [store EXCEPT ![r] = cluster[r]]
  /\ UNCHANGED <<cluster, editor, flight, calls, removal, written, picked, annotated>>

(* Another client of the API server scales to nothing.                     *)
OtherClient(r) ==
  /\ r \in Workload /\ cluster[r] # Gone
  /\ cluster' = [cluster EXCEPT ![r] = 0]
  /\ UNCHANGED <<store, editor, flight, calls, removal, written, picked, annotated>>

(* A page shows another resource (requestResource).                        *)
SelectThing(r) ==
  /\ picked # r /\ picked' = r
  /\ UNCHANGED <<cluster, store, editor, flight, calls, removal, written, annotated>>

ContentsNext ==
  \/ \E r \in Workload, n \in ReplicaCount : ScaleResource(r, n) \/ ApplyResourceChanges(r, n)
  \/ \E p \in Pod : DetachResource(p)
  \/ \E r \in Thing : EditResource(r) \/ CreateResource(r) \/ OtherClient(r) \/ Watched(r) \/ SelectThing(r) \/ \E refused \in BOOLEAN : DeleteAnswered(r, refused)
  \/ \E name \in RequestName : FetchResourceContents(name) \/ UpdateResourceContents(name)
  \/ \E s \in SUBSET Thing : RemoveResources(s)

ContentsSpec == ContentsInit /\ [][ContentsNext]_contentVars
-----------------------------------------------------------------------------
(* Calls, requests and contents are well formed, and every waiter of a     *)
(* request is a call that has not ended.                                   *)
ContentsTypeOK ==
  /\ \A r \in Thing : store[r] \in written[r] /\ written[r] \subseteq Value \union {Gone}
  /\ {picked} \cup {annotated[n] : n \in RequestName} \subseteq Thing \cup {NoContents}
  /\ calls \in Seq(Call) /\ removal.open \subseteq removal.asked
  /\ \A n \in RequestName : flight[n] # NoRequest =>
       \A c \in flight[n].waiters : calls[c].stage # "ended"

(* A scale (scaleResource) that found no other request under its name and  *)
(* could read the resource sends the patch of that resource, whatever else *)
(* was edited, applied or detached while it waited.                        *)
SoleScaleSent ==
  \A c \in DOMAIN calls :
    (calls[c].op = "scale" /\ calls[c].alone /\ calls[c].read) => calls[c].sent

(* The API server holds of a resource only what somebody asked for that    *)
(* very resource: the contents that callers share never carry the replicas *)
(* meant for one workload into another.                                    *)
WrittenAsAsked == \A r \in Thing : cluster[r] \in written[r]
=============================================================================
