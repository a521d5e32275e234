------------------------------ MODULE Metrics ------------------------------
(***************************************************************************)
(* Metrics: the background loop that asks every node for its statistics    *)
(* and adds them up (pkg/metrics), the handler behind the read lock, and   *)
(* the request and the reducer of the browser (state/actions/metrics.js,   *)
(* state/reducers/metrics.js). Of the statistics the model keeps the pods, *)
(* the containers, the CPU of containers and of the node itself, and the   *)
(* volumes. Memory and disk of the nodes are summed as their CPU is, but   *)
(* for the rounding; the network, a quotient of two sums, is left out.     *)
(***************************************************************************)
EXTENDS Integers, Sequences, FiniteSets

CONSTANTS Node, Namespace, MetricPod,
          NamespaceOf,   \* the namespace of each pod
          Containers,    \* the CPU usage of the containers of each pod, -1 for none
          VolCapacity, VolUsed,  \* the bytes of the volumes of each pod
          NodeUsage,     \* the CPU usage a node may report of itself
          NoNetwork,     \* the pods without network statistics
          NanoPerMilli,  \* nanocores in a millicore
          NoSummary,     \* nothing yet
          MaxRounds      \* bounds the summaries made

ASSUME MetricsAssumption ==
  /\ IsFiniteSet(Node) /\ IsFiniteSet(Namespace) /\ IsFiniteSet(MetricPod)
  /\ NamespaceOf \in [MetricPod -> Namespace] /\ NoNetwork \subseteq MetricPod
  /\ Containers \in [MetricPod -> Seq(Int)] /\ NodeUsage \subseteq Nat
  /\ VolCapacity \in [MetricPod -> Nat] /\ VolUsed \in [MetricPod -> Nat]
  /\ NanoPerMilli \in Nat \ {0} /\ MaxRounds \in Nat

VARIABLES loop,       \* "list", "read", "stopped", or "down" when the process has ended
          toRead,     \* the nodes still to read
          aggregates, \* summarize's aggregates and the summary it builds
          summary,    \* Provider.summary
          killSwitch, \* messages in it
          readers,    \* GetMetrics calls that hold the read lock
          call,       \* the request named 'metrics': "none", "sent", "answered" or "rejected"
          answer,     \* what its answer carries
          metricsShown       \* store.metrics

metricVars == <<loop, toRead, aggregates, summary, killSwitch, readers, call, answer, metricsShown>>
uiVars == <<readers, call, answer, metricsShown>>

\* What a Summary shows: the usage of each statistic, and the total of the volumes.
Stat == {"pods", "containers", "cpu", "volUsage", "volTotal"}
None == [f \in Stat |-> 0]
EmptySummary(round) ==
  [round |-> round, cluster |-> None, node |-> [n \in {} |-> None],
   namespace |-> [ns \in {} |-> None], pod |-> [p \in {} |-> None]]

MetricsInit ==
  /\ loop = "list" /\ toRead = {} /\ aggregates = EmptySummary(1)
  /\ summary = NoSummary /\ killSwitch = 0
  /\ readers = 0 /\ call = "none" /\ answer = NoSummary /\ metricsShown = NoSummary
-----------------------------------------------------------------------------
(* summarize *)

\* A sum of natural numbers, as the number of units they have together.
Units(f) == UNION {{x} \X (1..f[x]) : x \in DOMAIN f}
SumOver(f) == Cardinality(Units(f))

Metered(p) == {i \in DOMAIN Containers[p] : Containers[p][i] >= 0}
Nano(p) == SumOver([i \in Metered(p) |-> Containers[p][i]])

Amount(f, p) ==
  CASE f = "pods" -> 1 [] f = "containers" -> Len(Containers[p]) [] f = "cpu" -> Nano(p)
    [] f = "volUsage" -> VolUsed[p] [] f = "volTotal" -> VolCapacity[p]
StatsOf(pods) == [f \in Stat |-> SumOver([p \in pods |-> Amount(f, p)])]

\* convertPodSummary takes the capacity of a volume for its usage and the used bytes for
\* its total.
Swapped(f) == CASE f = "volUsage" -> "volTotal" [] f = "volTotal" -> "volUsage" [] OTHER -> f

\* convertPodSummary rounds the usage of every container; it reads the network
\* statistics of every pod.
PodSummary(p) ==
  [f \in Stat |-> IF f = "cpu" THEN SumOver([i \in Metered(p) |-> Containers[p][i] \div NanoPerMilli])
                  ELSE Amount(Swapped(f), p)]

\* convertSummary: a node counts its pods and containers, adds up the volumes of their
\* summaries, and measures its usage itself: nanocores become millicores.
NodeSummary(pods, usage) ==
  [f \in Stat |-> IF f = "cpu" THEN usage \div NanoPerMilli ELSE StatsOf(pods)[Swapped(f)]]

\* What a node adds to the cluster: its own usage, and what its pods report.
NodeStats(pods, usage) == [f \in Stat |-> IF f = "cpu" THEN usage ELSE StatsOf(pods)[f]]

Plus(a, b) == [f \in Stat |-> a[f] + b[f]]

\* makeSummary: nanocores become millicores.
MakeSummary(s) == [f \in Stat |-> IF f = "cpu" THEN s[f] \div NanoPerMilli ELSE s[f]]

OfNamespace(pods, ns) == {p \in pods : NamespaceOf[p] = ns}

\* A namespace has the statistics of the node read last.
LastNode(before, pods) ==
  [ns \in DOMAIN before \cup {NamespaceOf[p] : p \in pods} |->
    LET here == OfNamespace(pods, ns)
    IN IF here = {} THEN before[ns] ELSE StatsOf(here)]

\* The statistics of each namespace, over the nodes read so far.
ByNamespace(before, pods) ==
  [ns \in DOMAIN before \cup {NamespaceOf[p] : p \in pods} |->
    Plus(IF ns \in DOMAIN before THEN before[ns] ELSE None, StatsOf(OfNamespace(pods, ns)))]

\* listNodes: an error counts as no nodes.
ListNodes ==
  /\ loop = "list" /\ killSwitch = 0
  /\ aggregates.round <= MaxRounds
  /\ \E listed \in {Node, {}} : toRead' = listed
  /\ loop' = "read"
  /\ UNCHANGED <<aggregates, summary, killSwitch, uiVars>>

\* readNodeSummary and the sums, for a node that reports these pods and this usage.
ReadNode(n, pods, usage) ==
  /\ loop = "read" /\ n \in toRead
  /\ pods \cap NoNetwork = {}
  /\ toRead' = toRead \ {n}
  /\ aggregates' =
       [round |-> aggregates.round,
        cluster |-> Plus(aggregates.cluster, NodeStats(pods, usage)),
        node |-> [m \in DOMAIN aggregates.node \cup {n} |->
                   IF m = n THEN NodeSummary(pods, usage) ELSE aggregates.node[m]],
        namespace |-> ByNamespace(aggregates.namespace, pods),
        pod |-> [p \in DOMAIN aggregates.pod \cup pods |-> PodSummary(p)]]
  /\ UNCHANGED <<loop, summary, killSwitch, uiVars>>

\* The statistics of a node cannot be read: the node is left out.
SkipNode(n) ==
  /\ loop = "read" /\ n \in toRead
  /\ toRead' = toRead \ {n}
  /\ UNCHANGED <<loop, aggregates, summary, killSwitch, uiVars>>

\* convertPodSummary dereferences the missing network statistics of a pod.
PanicOnPod(n, pods) ==
  /\ loop = "read" /\ n \in toRead /\ pods \cap NoNetwork # {}
  /\ loop' = "down"
  /\ UNCHANGED <<toRead, aggregates, summary, killSwitch, uiVars>>

\* The end of summarize, for the cluster and the namespaces.
Summarized(a) ==
  [round |-> a.round, cluster |-> MakeSummary(a.cluster), node |-> a.node,
   namespace |-> [ns \in DOMAIN a.namespace |-> MakeSummary(a.namespace[ns])], pod |-> a.pod]

\* The first summary is stored before there are readers, the later ones under the lock.
PublishSummary ==
  /\ loop = "read" /\ toRead = {}
  /\ readers = 0
  /\ summary' = Summarized(aggregates)
  /\ aggregates' = EmptySummary(aggregates.round + 1)
  /\ loop' = "list"
  /\ UNCHANGED <<toRead, killSwitch, uiVars>>

\* Close, and the loop that sees it between two rounds.
Close ==
  /\ killSwitch = 0 /\ loop # "down" /\ summary # NoSummary
  /\ killSwitch' = 1
  /\ UNCHANGED <<loop, toRead, aggregates, summary, uiVars>>

Stop ==
  /\ loop = "list" /\ killSwitch = 1
  /\ killSwitch' = 0 /\ loop' = "stopped"
  /\ UNCHANGED <<toRead, aggregates, summary, uiVars>>
-----------------------------------------------------------------------------
(* The browser's request, one at a time by its name, and the handler. *)

RequestMetrics ==
  /\ call = "none" /\ loop # "down" /\ summary # NoSummary
  /\ call' = "sent"
  /\ UNCHANGED <<loop, toRead, aggregates, summary, killSwitch, readers, answer, metricsShown>>

\* RLock
BeginMetrics ==
  /\ call = "sent" /\ loop # "down" /\ readers = 0
  /\ readers' = 1
  /\ UNCHANGED <<loop, toRead, aggregates, summary, killSwitch, call, answer, metricsShown>>

\* Marshal, Write and the deferred RUnlock; or an answer without metrics (a 401).
EndMetrics ==
  /\ readers = 1 /\ loop # "down"
  /\ readers' = 0
  /\ answer' \in {summary, NoSummary}
  /\ call' = "answered"
  /\ UNCHANGED <<loop, toRead, aggregates, summary, killSwitch, metricsShown>>

\* RECEIVE_METRICS: an answer without metrics leaves the store alone.
ReceiveMetrics ==
  /\ call = "answered"
  /\ metricsShown' = IF answer = NoSummary THEN metricsShown ELSE answer
  /\ answer' = NoSummary /\ call' = "none"
  /\ UNCHANGED <<loop, toRead, aggregates, summary, killSwitch, readers>>

\* The fetch fails: the name 'metrics' stays taken, see Requests.
LoseMetrics ==
  /\ call \in {"sent", "answered"} /\ readers = 0
  /\ call' = "rejected" /\ answer' = NoSummary
  /\ UNCHANGED <<loop, toRead, aggregates, summary, killSwitch, readers, metricsShown>>

MetricsNext ==
  \/ ListNodes \/ PublishSummary \/ Close \/ Stop
  \/ \E n \in toRead : SkipNode(n) \/ \E pods \in SUBSET MetricPod :
        PanicOnPod(n, pods) \/ \E usage \in NodeUsage : ReadNode(n, pods, usage)
  \/ RequestMetrics \/ BeginMetrics \/ EndMetrics \/ ReceiveMetrics \/ LoseMetrics
-----------------------------------------------------------------------------
\* Every variable has its type.
MetricsTypeOK ==
  /\ loop \in {"list", "read", "stopped", "down"} /\ toRead \subseteq Node
  /\ killSwitch \in 0..1 /\ readers \in 0..1 /\ call \in {"none", "sent", "answered", "rejected"}
  /\ aggregates.round \in 1..(MaxRounds + 1)

Total(parts, f) == SumOver([x \in DOMAIN parts |-> parts[x][f]])
AddsUp(s) ==
  /\ \A f \in Stat \ {"cpu"} : /\ Total(s.namespace, f) = s.cluster[f]
                               /\ Total(s.node, Swapped(f)) = s.cluster[f]
  /\ s.cluster["cpu"] >= Total(s.node, "cpu")
  /\ Cardinality(DOMAIN s.pod) <= s.cluster["pods"]
  /\ \A ns \in DOMAIN s.namespace : \A f \in Stat :
       s.namespace[ns][f] >= SumOver([p \in OfNamespace(DOMAIN s.pod, ns) |-> s.pod[p][Swapped(f)]])

\* What the browser shows adds up: the pods, containers and volumes of the cluster are
\* those of its namespaces and those of its nodes, also when nodes could not be read or
\* a pod moved between the reads, except that a node and a pod show the capacity of the
\* volumes as their usage and the bytes used as their total; the CPU shown of the
\* cluster is no less than that of its nodes, and what is shown of a namespace no less
\* than that of its pods, although each container is rounded for its own (summarize,
\* makeSummary, convertSummary, convertPodSummary).
SummaryAddsUp == metricsShown = NoSummary \/ AddsUp(metricsShown)
=============================================================================
