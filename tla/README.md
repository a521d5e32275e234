# A verification project for Kapow

Kapow is a web console for Kubernetes.  A Go server (`pkg/`) authenticates users and
proxies, aggregates and filters the API of the cluster for them; a React/Redux
application in the browser (`pkg/ui/src`) keeps a copy of the cluster's resources,
follows their changes and lets the user act on them.  This directory holds TLA+ models
of both, the TLC runs that check them, and proofs checked by TLAPS.

## 1. The system and its parts

| Component | State | Operations | Talks to |
|---|---|---|---|
| **KindsProxy** `pkg/proxy/kinds.go` | `kinds`, `kindsResponse`, an RWMutex | `update` every 10 minutes, `GetKind`, `Serve` | discovery; read by the three handlers below |
| **ResourcesProxy** `pkg/proxy/resources.go` | per request: wait group, bounded channel, one goroutine per kind and per kind and namespace | `Serve`, `fetchKind` | KindsProxy (unlocked `len`, then the lock), API server |
| **AccessAggregator** `pkg/proxy/access.go` | per request: wait group, channel of 5, closing goroutine | `Serve`, `permissionsForResource`, `getAccess` | KindsProxy, API server |
| **KubeKindAggregatingWatchProxy** `pkg/proxy/watch.go` | per session: channels of paths (50), messages (32), errors (50) and one end report; sockets | `AggregateWatches`, `getWatchPaths`, `readMessages`, `writeMessages` | KindsProxy (lock held while sending), API server, browser |
| **Session manager and authenticators** `pkg/auth` | the signing key; the sessions are in the cookies of browsers | parse, renew, login per method, `user_info` | every handler; UI session |
| **Server start** `pkg/server/main.go`, `pkg/clients` | routes, login methods, listener | the steps of `app.Action` | all parts of the server |
| **API and socket proxy, listeners** `proxy.go`, `ws.go`, `split_listener.go` | per connection: two copiers and their error channel | redirect, choose the handler, impersonate, dial, upgrade, copy | session manager, API server |
| **Metrics** `pkg/metrics`, `actions/metrics.js`, `reducers/metrics.js` | the last round of the loop, a kill switch, an RWMutex; the browser's copy | a round over the nodes, `GetMetrics`, fetch | kubelets |
| **doRequest** `actions/requests.js`, `reducers/requests.js` | promises in flight by name | `doRequest`, START/DONE_FETCHING | every action of the UI that fetches |
| **Resource store and watch** `actions/resources.js`, `reducers/resources.js`, `utils/MultiResourceWatcher.js`, `utils/resource-utils.js` | resources by key, versions by kind, deletion marks, status, owners, pods by node, problems, the selection, contents for the editor; the watcher's socket and queue | load, watch, put, remove, create, scale, edit, detach, select, invalidate | list handler, multi-watch, API proxy, doRequest |
| **Filters and settings** `filter-utils.js`, `FilterBox.js`, `FiltersDialog.js`, `LinkGenerator.js`, `usersettings.js` | filter names, parsed filters, chips, address, stored settings, a mark on every resource | add, remove, replace, navigate, choose namespaces | store |
| **Events** `actions/events.js`, `reducers/events.js` | events by resource, detached events, recent ones | receive, reconcile, select | store, watch |
| **Errors** `reducers/errors.js`, `Header.js`, `ErrorsDialog.js` | list of errors, bar, dialog | add, retry, clear, time out | every fetch |
| **UI session** `Authenticated.js`, `actions/session.js`, `reducers/session.js` | user, initialized, polling flag | poll, login, logout, initialize, invalidate | session manager |
| **Access cache and permissions** `AccessEvaluator.js`, `ResourceInfoPage.js`, `PermissionsPane.js`, `SubjectsTab.js` | cached reviews, what a page offers; bindings and roles | ask, answer, timer | access review handler, store |
| **Terminal, logs** `TerminalViewer.js`, `LogFollower.js`, `LogViewer.js`, reducers | sockets with their handlers, timers, a line buffer | open, replace, retry, follow, drop | API proxy |
| **Pages** `WorkloadInfo.js`, `ClusterInfo.js`, `AccessControlsInfo.js`, `EditorPage.js`, `NewResource.js`, `WorkloadsPage.js` and the other tables, `FilterTable.js`, dashboard, converters | selections, menus, dialogs, sorted copies of rows, the text being edited | taps, confirmations, sorting, applying | store, access cache |
| Rendering, auto-completion of manifests, swagger rewriting, unused code | none that is read back | - | - |

What is hard in this code: goroutines that share wait groups and bounded channels
(three handlers, each with its own protocol for the end); a cache that handlers read
while it is replaced; a loop that decides that producers are done by finding their
channel empty; sessions that exist only in cookies which answers set in any order;
promises shared between callers; a store fed by lists, by a watch that repeats events
after a reconnection, and by the answers to the user's own calls, whose derived parts
are updated piecemeal and partly in place; components that copy what they show and
decide from a few fields whether to copy again; handlers and timers of sockets that
were replaced.

What makes each part correct:

* *kind cache*: readers see both values of one discovery; neither side starves;
* *list handler*: the answer is complete, has nothing twice, and comes;
* *access review*: the answer is that of reviews made one after the other, and comes;
* *multi-watch*: everything ends when the client leaves, and nothing is left open;
* *sessions*: requests run as a login granted, the active stay signed in, the end is noticed;
* *start*: what the flags configure is offered, and no other login;
* *proxy*: requests run in the user's name, a socket's two ends are released together;
* *metrics*: totals add up when nodes cannot be read;
* *doRequest*: one request of a name at a time, names are freed, callers return;
* *store*: it never goes back to an older state, what the cluster deletes disappears, and
  filters, owners, problems, selection and events follow what it holds;
* *pages*: what is shown is what the store holds, what is typed is kept, what is
  confirmed is what the dialog named, and a page of a resource does not wait for ever.

## 2. Modules

| Module | Models | Notes |
|---|---|---|
| `KindsCache` | `kinds.go` | the RWMutex with Go's writer preference: a pending writer stops new readers, its unlock admits those that waited |
| `ResourceList` | `resources.go` | one action per statement that touches shared state; the channel is the set of tasks whose list is in it |
| `AccessAnswer` | what `/proxy/_/accessreview` promises | the abstract specification |
| `AccessReview` | `access.go` | implements `AccessAnswer` (`ImplementsAnswer`) |
| `WatchProxy` | `watch.go`, one session | every channel with its capacity; a send on the closed channel is the state `crashed` |
| `Session` | `pkg/auth`, the session of the browser | tokens age by ticks; every call carries the cookie of its sending |
| `Startup` | `main.go` and the constructors it calls | every set of flags is an initial state |
| `ApiProxy` | `proxy.go`, `ws.go`, `split_listener.go` | one connection |
| `Metrics` | `pkg/metrics` and its consumer | |
| `Requests` | `doRequest` | a step is a stretch of JavaScript between two awaits; the maker of a promise resumes first because its await was registered first |
| `ResourceSync` | versions, loads and the watch of the store | the cluster, the server's lists and calls on the wire are the environment |
| `Relations` | status, owners, nodes with pods, problems, selected pods, what makes a reducer throw | the same reducers as `ResourceSync`, another slice of their state |
| `Contents` | scale, detach, edit, apply, remove, create | |
| `Filters`, `Events`, `Errors` | the reducers and components of section 1 | |
| `Terminal`, `Logs` | sockets, handlers and timers of the two viewers | |
| `InfoPages` | the pages of one resource | |
| `Editor`, `Access`, `Permissions` | editor, access cache and permissions pane | |
| `RowActions`, `FilterTable`, `Dashboard` | tables and overview | ten pages with tables share the operators and differ in constants |
| `Numbers` | conversions, sums, precision, ranking, base64 | algorithms, checked against reference definitions over bounded inputs and proved for all |
| `*Proofs` | theorems about the module they extend | section 5; `ServerProofs`, `AsyncProofs`, `StoreProofs` and `PagesProofs` extend the four side-by-side instances |
| `MC*` | the instances for TLC | `MCServer`, `MCAsync`, `MCStore` and `MCPages` hold several modules side by side |

The four side-by-side instances have a variable `part` that never changes: it says which
of their modules takes steps in a behaviour, the others stay in one initial state.  Their
state space is the sum of those of their modules, never the product, and a property of
one module is checked on all behaviours of that module.  Modules are put together this
way where they share no state in the code, or where each models its own slice of the
store; where components do interact, the interaction is in the module (`Session` has
server and browser, `Access` the review handler's answers, `Editor` the contents that
`Contents` puts in the store, `InfoPages` the request name of `Requests`).

Conventions.  Variables carry the names of the code where it has names; `pc`, `stage`
and similar say where a goroutine is.  A definition that follows a comment such as "No
waiting for the readers that are inside" and is used by no action is a mutant: the
operator it precedes with a plausible bug in it.

### Correspondence and abstractions

* **ResourceList.**  `Request` is `getNamespaces`; a cluster has at least one namespace
  (with none, the channel would have no place at all and the first list would block).
  `MakeLists` reads `len(kinds)` without the lock, as the code does; `Update` is
  `KindsProxy.update`, which waits for readers.  A list is a kind and a scope; whether it
  has items is part of the answer, because an empty list is not sent.
* **AccessReview.**  A check is a pair of subresource and verb.  `known` is the result of
  `GetKind`.  `Panic` is the nil dereference at line 140; the process is then restarted
  from outside (`Restart`, external).  The early return for an empty `kind` parameter and
  the path where listing namespaces or building the client fails start no goroutine.
* **WatchProxy.**  Kinds that cannot be watched never enter `todo`.  Pings, pongs and
  deadlines are the nondeterminism of `WriteFails` and `ClientReadFails`.  A message is
  counted, not inspected.  The 50 ms sleep before the first path is a stutter.
* **Session.**  A token is its user, its groups and the ticks it has left; a token that is
  expired or signed with an old key is `DeadToken`.  Three calls can be under way: the
  poll, one API call or socket, one login; each ages with the clock and carries the cookie
  of its sending, and its answer may set another.  `MaxDelay` bounds the age of a call.
  A restart and a broken connection lose the calls on their way.  A group is the set of the
  parts of its name between commas: `NewSessionToken` joins the groups with commas and
  `SessionToken.Groups` splits them there again, so that a name with commas is served as
  other groups.  OIDC and SAML are granted or refused; their protocols are the libraries'.
  The groups of an OIDC login are `system:masters` for everyone (`oidc.go:347`), whatever
  the flag of `main.go:102` says; a user info with a groups claim panics there.  SAML never
  stores its groups attribute and delimiter (`saml.go:73-79`) and so reads no groups.
* **Startup.**  Flags that have a default and decide nothing here are left out.  A
  certificate or key that cannot be read fails inside `Listen`.
* **ApiProxy.**  The bytes of a chunk are not inspected; the headers are the ones that
  decide who the API server sees: the impersonation headers that a request brings along
  and those that the proxy sets.  `Impersonate-Extra-` headers pass as they came.
* **Metrics.**  Of the statistics the model keeps pods, containers, the bytes and the
  capacity of volumes, and CPU: that of the containers, which a namespace adds up and a pod
  shows rounded container by container, and the one a node measures of itself, which is what
  the cluster adds up.  Memory and disk are added like them; the network is left out: its rates
  are quotients of two sums (bytes and seconds), and nothing says that they add up.  `metrics.go:315-316` have capacity and bytes
  used of a volume in each other's place, unlike lines 125 and 127: a node and a pod show
  the capacity as usage and the bytes used as total, and `SummaryAddsUp` says just that.
  A sum is the number of units its terms have together, which is how the proofs reason
  about it.
* **Requests.**  The back-off is 0 in every state: `fetchBackoff` is a number that is
  indexed by a name, and nothing sets `fetchError`.
* **ResourceSync.**  The API server may end the stream of one kind while the browser's
  socket stays open (`StreamEnds`, `watch.go:297-309`; nobody reads the error): nothing of
  that kind arrives until the browser connects again.  The socket closes at any time.
  A resource is its key and version.  `fetchResources` runs under the
  names in `Fetch`; the runs use one (the page that is open), the proofs any number.
  Versions are numbers: the code compares the string of an event with a number, which
  converts it.  Left out: kinds in `excludedKinds`, throttled endpoints, `Event` objects
  (module `Events`), watch events of an unknown type (they end one round of the loop
  early), `force` (no caller passes it), and the second socket a reconnection timer may
  open for a watcher already destroyed.  Two DELETE calls with the same key and version on
  the wire at once are one element of `deleting`.
* **Relations.**  An owner is a workload of any of the kinds the code tells apart; what it
  owns is one level deep.  A resource's body is the few fields its status is computed from.
  A resource that is selected before it is known, or that others own before it is known, is
  a placeholder without kind, key and status: `sameResource` finds it equal to nothing, so
  it stays selected when the resource arrives; as an owner it makes `statusForResource` throw
  for the kinds whose status reads fields of it, and not for a cron job; the problem it may
  become is listed under no key.  After a throw in a reducer the checks say nothing more
  (`failed`).  `createPatch` takes kind and status away from the object in the store when a
  pod is detached, and a resource without kind is not selected again.  Of the pods by node
  the model keeps only which nodes have an entry, the one thing a step depends on.
* **Contents.**  What a resource holds is one value.  `picked` is the selected resource,
  which a scaling reads again after its answer, `annotated` the annotation with the last
  applied contents, from which a patch is made.
* **Editor.**  A text is what it names and at most one fault: variables left, not accepted
  by the swagger model, no kind.  As in `ManifestValidator.js:41,69` nothing is reported of
  an empty text or one without kind, unless the validator was made for a resource, whose
  key it then lacks.  Apply validates and hands over in two steps (`checks`, `Validated`):
  what is handed over is what the page holds when the validation is done, which is other
  text if the user typed on meanwhile.
* **Filters.**  Filters are numbered in the order `sort()` gives their names.  Matching is
  equality of values; the fuzzy search of the box only offers names.
* **Events.**  Resources are those one event's name can belong to: a pod, the replica set
  of its name, the deployment above.
* **Access.**  All resources are of one kind and an answer covers the five verbs at once.
  Every review finds any namespaces granted, so that roles may change between two reviews.
  What is cached is never asked again: a "no" outlives a later grant, and so does the "no" of
  a review that failed on the server (`access.go:164-166`, which answers it with status 200).
  An answer with another status is not cached, and the page then offers nothing.
* **Dashboard.**  Resources come and stay; what they own is attached when both are there.
  `collectProblems` throws at a resource without warnings whose status has no conditions
  (`ResourceProblems.js:63`; a lost claim, a cron job): the box then keeps its lists, or
  does not mount.  What else React drops of that rendering is not modelled.
* **Logs, Terminal.**  A line is a number, a socket its stage; the close event of a socket
  that was replaced stays pending until it is delivered.
* **RowActions, FilterTable.**  A page is the constants that say which kinds it lists and
  which columns and dialogs it has; a row is a resource with a revision and a status.
* **Numbers.**  Numbers are fractions; only `Fixed` rounds.  A sum is the number of its
  units.  The loop that converts the amounts of a box multiplies its percentages as well
  (`InfoBox.js:147-149`), so the bar of a box whose units change has another width than its
  amounts say; no property is about the bar.  `decodeBase64` ends with `unescape`, which
  shows the bytes of `%41` as `A`, and makes three zero bytes of the empty secret.  Kibi and
  Milli are small so that the products of several conversions stay small; the code has 1024
  and 1000.

## 3. Runs

Passing runs (TLC, exhaustive on the instance):

| Run | Instance | Shows |
|---|---|---|
| `resource_list` | 2 kinds (one not namespaced), 2 namespaces, any update at any time | barrier, completeness, no duplicates, no blocking and an answer when the buffer fits |
| `access_review` | 2 checks that share a verb, 2 namespaces, a channel of 1 | refinement, no send on the closed channel, an answer |
| `watch_proxy` | 2 kinds, 1 namespace, channels of 1 | end of loop, stop messages, session and lock (`EverythingEnds`, `LockReleased`); nothing left open |
| `resource_sync` | 2 pods (symmetric), 3 changes, 1 reconnection, all users' acts, losses | the store moves forward |
| `resource_sync_deletions` | a pod and a service, 3 changes, 1 reconnection, users who create and remove | what is deleted after the start of the watch is shown as deleted, while the stream of its kind stands |
| `server` | sessions: 4 logins of 2 users, a timeout of 4 ticks, calls of up to 1 tick, groups whose names hold a comma, lost calls, restarts; all 256 sets of flags; every kind of connection and of impersonation headers; 2 nodes and 3 pods with a volume; 2 kinds in 2 groups and 2 readers, one of which may stay blocked inside | `ServedAsGranted`, `ActiveStaysSignedIn`, `EndNoticed`; `OffersWhatIsConfigured`; `ActsAsUser`, `SocketReleased`; `SummaryAddsUp`; `PublishedTogether`, `NeitherStarves`; 430 thousand states |
| `ui_async` | 3 callers and 2 names; 3 terminal sockets and 2 containers; 2 followers, 2 tries, 3 lines, a buffer of 2; 2 resources and every page | `IInv` of `Requests`, `EveryCallerReturns`; `StreamsUsable`, `FollowedOrReported`; `PageResolves`; 279 thousand states |
| `ui_store` | 2 resources, 2 filters, namespaces; an owner of each kind with 2 children; 3 events | `FiltersHonoured`, `RelationsCurrent`, `EventsKept` |
| `ui_pages` | 2 workloads and a pod with 2 calls; the page of one resource, that of a new one and 5 texts; 2 resources in 2 namespaces; 2 bindings, 2 roles, 3 subjects; 10 tables of 2 or 3 rows; 3 errors; numbers around every threshold | `EditsKept`, `AccessShown`, `NumbersRight`, `NoticesRight`, `TablesRight` |

What `StreamsUsable` and the conjunctions of the last two runs say is in the comments of
their parts in the component modules; each part has a mutant of its own that violates it.

Why these bounds are enough.  Two kinds give one that is refused and one that is not; two
namespaces, one that answers and one that does not; channels of one place make every send
that can wait wait, which channels of 32 or 50 places do only in rare runs.  With a
timeout of 4 ticks and a delay of 1 (the assumption asks for at most a quarter) a token
has all ages at which something is decided, and two answers overlap; the theorem of
section 5 covers the other timeouts.  In `Requests` a third caller is needed for one that
shares while another starts anew.  In `resource_sync` three changes are an object created,
deleted and created again.  One reconnection replays events once; the code allows three.
Two followers, sockets, manifests, rows or errors are the one shown and the one replaced;
a third socket is a retry after a replacement, a third line overflows the buffer of two.
The numbers lie on both sides of every threshold of the code.

Runs that show a disagreement between the code and what is said of it:

| Run | Property | What happens |
|---|---|---|
| `resource_list_race` | `EveryRequestAnswered` | `resources.go:52` counts the kinds before the lock; an update in between makes the buffer too small and the request hangs |
| `access_review_unknown` | `EveryRequestAnswered` | a kind the cache does not know is a nil dereference in a goroutine, `access.go:140` |
| `requests_rejected` | `NameFreed` | a rejection skips DONE_FETCHING, `requests.js:34` |

Deadlock is checked in `resource_list`, `access_review` and `resource_sync`.  The others
may stop: a session of the multi-watch ends, a start ends in a listening or a dead
process, and promises, sockets, errors and changes are bounded.

### Deviations the models keep, as the code has them, without a run

The properties are stated so that they hold beside these; each is visible in the module
named.

* Server.  An empty channel is taken for the end of the watch paths: later paths are lost
  and their sender panics (`watch.go:225`, `WatchProxy`).  A failed upgrade leaves the
  goroutines that wait for a stop message (`watch.go:218`).  A pod without network
  statistics is a nil dereference that ends the process (`metrics.go:292`, `Metrics`).
* Session.  A poll that fails on the network, or that a restart drops, leaves the flag
  `fetching` set, and nothing polls again (`Authenticated.js:104`).  The upgrade of a socket drops a renewed cookie.
* Store.  The first resource of a kind created after the load is dropped, because nothing
  is greater than `undefined` (`actions/resources.js:95`, `NotYetSeen` in `ResourceSync`).
  A deletion between the list of its kind and the greatest version of all lists is in
  neither the lists nor the watch (`actions/resources.js:536`).  A DELETED event sends a
  DELETE call, which may meet a recreated object (`MultiResourceWatcher.js:54`).  The pod
  count drops with every removal of any kind (`reducers/resources.js:384`).  A refused
  DELETE still marks its resource as removed (`actions/resources.js:713`).  The removal of
  a pod without a node throws (`reducers/resources.js:363`).  What waits for its owner is
  kept under one name and looked for under another (`reducers/resources.js:200`, `:483`).  A list that is refused, followed by the
  selection of a missing resource, leaves a store that nothing loads again
  (`actions/resources.js:448`).
* Calls.  A scaling that shares the request of another caller is not sent
  (`actions/resources.js:255`, `Contents`).
* Pages.  The chips of the filter box follow the filters only in part (`FilterBox.js:64`).
  Cached permissions keep offering what was revoked since, and withholding what was granted
  since or what a failed review left unanswered (`AccessEvaluator.js`).  A fetch of contents
  that fails closes the editor and loses what was typed (`WorkloadInfo.js:305`).  The late
  close of a replaced terminal socket shows its successor as closed
  (`TerminalViewer.js:167`).  The cluster page keeps its spinner for a resource that is
  not there (`ClusterInfo.js:124`).  A table whose filters are replaced all at once may
  keep its old rows until the store changes (`FilterTable.js:103`).  A related key that
  the store does not hold throws (`RelatedResourcesPane.js:372`); the workloads page reads
  a state it never sets (`WorkloadsPage.js:608`) and passes an event where a resource is
  expected (`:637`).  An error that arrives during an edit never opens the bar
  (`Header.js:163`).

## 4. Fairness

* Go runs every goroutine that can run (weak fairness of each), and API calls return.
  Requests, updates, failures and the departure of clients are never fair.
* `WatchProxy`: a socket closed at either end fails its reader, and a write or a read of a
  client that is gone fails in the end (`pongWait`, `writeWait`, and a ping per period).
  Nothing makes a healthy client leave or a backend fail.
* `KindsCache`: the handlers with bounded work leave, by the scheduler.  `getWatchPaths`
  sends while it holds the lock; it may block there for ever (`BlockForEver`, after a failed
  upgrade, `watch.go:216-219`), and is then not fair.  `NeitherStarves` excepts the time in
  which such a reader is inside: the updater and later readers then wait for ever.  That it
  leaves otherwise is `LockReleased` of `WatchProxy`, which excepts the same aborted session.
  In turn `WatchProxy` assumes that `AcquireLock` succeeds, which is `ReadersServed`, a part
  of `NeitherStarves`.  The two are no circle: a session needs the lock once, and releases it
  with no further help of the cache.
* `Session`: the interval of the poll fires, and a poll that is not lost is answered and its
  answer handled.  Any call may be lost; after a lost poll the code polls no more, and
  `EndNoticed` excepts that.  Nothing else of a session is fair, the clock and the user
  least of all.
* `ApiProxy`: the scheduler runs both copiers and the handler.
* `Requests`: fetches settle and continuations run.
* `Logs`: a socket opens or fails, and the timer of a reconnection fires.
* `InfoPages`: a request is answered or fails.
* `ResourceSync`: the API server sends the changes of a kind whose stream stands and
  answers the calls, the interval fires, a scheduled reconnection happens.  Streams that end,
  sockets that close, loads and users are not fair.

`Terminal`, `MCStore` and `MCPages` have safety properties only and need no fairness.

## 5. Proofs

TLAPS proves the following for every value of the constants.  The assumptions are those
named in the modules (finite sets of kinds, namespaces and keys, the cluster scope is no
namespace, capacities at least one, bounds natural, a call takes at most a quarter of the
session's timeout, and the values that stand for nothing, such as "no token" or "no row",
are none of the values they stand beside; amounts are natural numbers, a secret is made of
bytes, the factors of the units are at least two; the keys whose pages are opened are among
those that texts name).

* **`ResourceListProofs`**: `IInv` adds to the types what the barrier rests on: the wait
  group equals the number of goroutines that have not called `Done` (`WgCountsLive`);
  a goroutine has an answer exactly after its call; a goroutine for a namespace exists
  only below a refused kind of the request (`ChildOfRefused`); one that is done has
  started all it had to (`DoneMeansFinished`); what is in the channel and in the result is
  what was sent (`SentLists`).  From it follow the barrier, completeness, no duplicates
  and `BufferSuffices`: the senders of a kind are either its cluster task or its namespace
  tasks, so kinds times namespaces bounds them; this is a counting argument over the
  blocked task and the lists in the channel.
* **`AccessReviewProofs`**: `IInv` (`WgCountsLive`, `StartedRight`, `GrantsKept`,
  `AnsweredLast`) is inductive; no send can meet the closed channel; and the specification
  implements `AccessAnswer`, with a grant's way through the channel hidden and a review
  mapped to `Decide`.
* **`ResourceSyncProofs`**: types, "every stored version is counted in the greatest of its
  kind", and "the loop of processEvents has an event" are inductive together; from them
  every step that is neither a load nor the end of a session moves the store forward.  The
  counted versions are what makes the guard of `putResource` reject every replayed event.
* **`WatchProxyProofs`**: the types and `NothingLeftOpen` are inductive together: only a
  handler that dials opens a backend connection, only one that upgrades opens the client's,
  and both returns run the deferred calls.
* **`ServerProofs`**, for the parts of `MCServer` and for all of them side by side:
  * *kind cache*: mutual exclusion with "the two values differ only between the two
    assignments"; consistency and the stability of a reader's loop follow.
  * *start*: before each step the registered authenticators are those that the flags
    configure among the steps already taken, the list of login methods is the same set, and
    a route `/auth/<type>/<name>` exists exactly for these.
  * *connection* (`ProxyInv`): nothing is copied before both ends are connected, and no more
    is reported than copiers have ended (`ReportsCounted`).  Hence what the API server sees
    is the session's user, the error channel has room for both copiers although the handler
    receives once, and a handler that returned left no connection open.  The identity is
    that of the session whatever impersonation headers the request brings along, on each
    of the three ways it takes through the proxy.
  * *metrics* (`MetricsInv`): the round under way adds up before it is rounded (`AddedUp`:
    pods and containers of the cluster are those of the nodes and those of the namespaces,
    the rounded usage of the nodes is at most the cluster's, that of the pods of a namespace
    at most the namespace's), and no node is counted twice; what was published, answered and
    shown adds up after rounding.  It rests on lemmas about sums: over a union, of a sum,
    by key, of multiples.  Pods that move between two reads are why the number of pods
    shown is bounded by, and not equal to, the cluster's.
  * *sessions* (`SessionInv`): of every token, in the browser, in a call or in an answer,
    some login granted its user and the parts of its groups; `Timely` adds what makes renewal work although
    answers arrive in any order.  The cookie of the browser is at least as fresh as the one a
    call on its way carries, or was set while that call was on its way (`SentTimely`); a
    cookie in an answer lost no more of its time than the call is old, and a call that was
    served without a new cookie found one with half its time left (`AnswerTimely`).  A
    renewed cookie that a slow answer replaces by an older one then still has three quarters
    of the timeout, which is where the assumption on the delay enters.  `ServedAsGranted` and
    `ActiveStaysSignedIn` follow.
* **`AsyncProofs`**, for the parts of `MCAsync`:
  * *doRequest*: with `MakerAwaits` and `StoredUnderName` it is inductive that a named
    pending promise is the one stored under its name, hence that DONE_FETCHING deletes its
    own request only.
  * *terminal* (`TerminalInv`): viewers are numbered before they make a socket, and the
    mounted one has closed each of its sockets but the one it holds (`OthersReplaced`); what
    is shown as open is then connected or about to be told of a close, and can be reopened.
  * *logs* (`LogsInv`): only the follower that a container's entry names may have a socket
    (`FollowersOf`), and the buffer and what was received since the last viewer are both the
    last lines (`BufferRecent`, `MissedRecent`), so what is queued is shown or in the buffer.
* **`StoreProofs`**, for the parts of `MCStore`:
  * *filters* (`FiltersInv`): while resources are there or awaited, the settings are what is
    applied and what is suggested passes them; every path that changes the filters filters
    again.  The types need that a timer of a chip names a filter that exists.
  * *relations* (`RelationsInv`): a resource that is not known has no status and owns
    nothing, and a selection made since the last list is the store's own object, which is
    what makes updates in place reach the page, unless it is a placeholder or lost its kind.
  * *events* (`EventsInv`): an event is attached to its resource or to its nearest known
    owner, or is among the detached ones; the recent ones are one per uid and the newest that
    fit.
* **`PagesProofs`**, for the parts of `MCPages`:
  * *contents*: every patch under way carries for its resource a value that was asked for
    that resource (`AskedFor`), and a call waits for one request, of its own name
    (`WaitersRight`); a scaling that came alone is the first that goes on.
  * *editor*: what was typed is in an editor that is open unless its contents went away, and
    a validation under way follows the text of its page (`ChecksRight`, `FollowingRight`), so
    what is handed over is what was validated or what was typed since.
  * *access and permissions*: a cached "no" was told that its level is not granted, or was
    told nothing (`CachedAsTold`), and a page's "no" is one of these.
  * *dashboard and errors*: the box that is mounted is right for the namespaces chosen when
    it was computed, or kept its lists because the computation threw; and the bar shows the
    latest error that is still listed.
  * *actions on rows* (`ScreenInv`): how the screen may lag behind the state, page by page:
    every change of a menu renders, and a dialog lists at least what is selected.
  * *tables* (`TablesInv`): a table that has the store's revision holds its rows, and rows
    are in the order of the labels unless a comparison throws.
  * *numbers* (`NumbersInv`): each loop has an invariant of its own.  The usage column: no
    resource is in the queue twice or together with its owner, and what was added and counted
    are the metered pods that are neither in the queue nor below it (`Turning`); a replica set
    without pods is looked up and adds nothing.  Decoding: after g groups the output is the
    first 3g bytes, or all of them (`DecodedUpTo`), and what `unescape` went over is as it was
    where there is no escape (`PlainUpTo`).  A sum is the number of units in it
    (`SumOver`), which needs no recursion to reason about: one number more adds its units.
    Ranking rests on cross-multiplied ratios and on rounding being monotone.

Only model-checked: all liveness (`AnsweredWhenSized`, `NeitherStarves`,
`AnsweredWhenKnown`, `EverythingEnds`, `LockReleased`, `EveryCallerReturns`,
`DeletionShown`, `EndNoticed`, `SocketReleased`, `FollowedOrReported`, `PageResolves`),
which is out of this prover's reach.

## 6. Limits

`DeletionShown` is checked with no session end, one load at a time and no calls lost: a
DELETE call that is lost is never repeated, so its resource stays as it was.  It says
nothing of deletions before the start of the watch (section 3), nor of a kind whose stream
has ended until the browser has connected again.  `NeitherStarves` says nothing while a
reader is blocked for ever inside the lock, `EndNoticed` nothing after a poll was lost,
`RelationsCurrent` nothing after a reducer threw and nothing of a selected placeholder,
`TypedTextKept` nothing after the contents went away, `CreatedAsValidated` nothing of text
typed while the validation ran, `ChosenNamespacesOnly` nothing while the last collection of
problems threw, `PermittedIsOffered` nothing of what was granted after the review, and
`DecodedIsInput` nothing of the empty secret and of how one with escapes is shown.  `OneReporterEnds` says
what holds of the two goroutines of a client connection; the other one stays blocked on
its report.  `NothingLeftOpen` is about sockets, not goroutines.  `ActiveStaysSignedIn`
counts served calls other than sockets, whose renewed cookies are lost, and says nothing
across a restart.  `PageResolves` excepts the selections named in `Stuck`.
`ShownAsFiltered` leaves out resources that others own while a status filter is set, and
`OpenIsConnected` the time in which the close event of a replaced socket is on its way.
`ProblemsListed` follows the code where a later list lacks a resource.

The slices of the store (`ResourceSync`, `Relations`, `Contents`, `Filters`, `InfoPages`)
are not composed: each action of one models what the same reducer does to its slice, and
a property that relates two slices is stated in the module that has both.

## 7. Not modelled

* *Rendering*: layout, icons, theme, charts, heat maps, detail panels and the columns of
  tables are functions from properties to elements without a state that is read back.
* *Auto-completion and syntax of manifests* (`ManifestAutocompleter.js`, `yaml-utils.js`,
  `EditorYamlMode.js`): text positions and regular expressions whose only effect is a list
  of suggestions or colours.
* *Swagger rewriting* (`swagger.go`): a transformation of one JSON document.
* *Kubelet types*, *unused code* (`ResourceKindWatcher.js`, two heat maps) and the *example
  test* of the test framework.
* The libraries: OIDC and SAML exchanges, JWT signatures, gorilla sockets, React and Redux
  are modelled by what the code relies on.

The status and the reason of each part are in `PROJECT.json`.

## 8. What could come next

1. An abstract specification of the store ("what the cluster holds, with a delay") that
   `ResourceSync` implements on the behaviours outside the deviations of section 3.
2. The composition of `ResourceSync` with `Relations`, for the order in which lists and
   events of owners and children arrive across a reconnection.
