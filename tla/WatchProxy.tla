----------------------------- MODULE WatchProxy -----------------------------
(***************************************************************************)
(* One multi-watch session of KubeKindAggregatingWatchProxy: the handler   *)
(* AggregateWatches takes watch paths from a channel and dials a backend   *)
(* socket for each; getWatchPaths fills the channel under the read lock of *)
(* the kind lister; a kind refused for the cluster gets a goroutine that   *)
(* adds its namespaces.  Every socket has a reader and a goroutine that    *)
(* waits for its stop message.  writeMessages and its client reader report *)
(* the end of the session to the handler over a channel of one place.      *)
(***************************************************************************)
EXTENDS Naturals, Sequences, FiniteSets

CONSTANTS Kind,       \* the kinds of the cluster that can be watched
          Namespace, Cluster,
          PathCap,    \* cap(watchPaths), 50 in the code
          OutCap,     \* cap(outbound), 32 in the code
          ErrCap      \* cap(backendErrors), 50 in the code

ASSUME WatchProxyAssumption ==
  /\ Cluster \notin Namespace
  /\ PathCap \in Nat \ {0} /\ OutCap \in Nat \ {0} /\ ErrCap \in Nat \ {0}

Path == Kind \X (Namespace \cup {Cluster})

VARIABLES
  pc,        \* where the handler is
  cur,       \* the path it is dialing
  readFirst, \* readFirstPath
  paths,     \* the channel watchPaths
  closed,    \* watchPaths is closed
  todo,      \* the kinds getWatchPaths has still to send
  lock,      \* getWatchPaths waits for the read lock, holds it or has released it
  fan,       \* the namespaces the goroutine of each refused kind has still to send
  socket,    \* the backend connection of each path
  reader,    \* readMessages of each path
  stopper,   \* the goroutine of each path that waits for stop
  outbound,  \* the number of messages in outbound
  errors,    \* the number of errors in backendErrors
  client,    \* the connection to the browser
  writer,    \* writeMessages
  creader,   \* its goroutine that reads from the client
  report,    \* the number of errors in errOutbound
  crashed    \* a panic has ended the process

dialVars    == <<cur, readFirst, paths, closed>>
produceVars == <<todo, lock, fan>>
backendVars == <<socket, reader, stopper, outbound, errors>>
clientVars  == <<client, writer, creader, report>>
vars == <<pc, dialVars, produceVars, backendVars, clientVars, crashed>>

Watched == {p \in Path : stopper[p] # "none"}
-----------------------------------------------------------------------------
\* The namespaces are listed, the channels are made and getWatchPaths is started.
Init ==
  /\ pc = "select"
  /\ cur \in Path
  /\ readFirst = FALSE
  /\ paths = <<>>
  /\ closed = FALSE
  /\ todo = Kind
  /\ lock = "waiting"
  /\ fan = [k \in Kind |-> {}]
  /\ socket = [p \in Path |-> "none"]
  /\ reader = [p \in Path |-> "none"]
  /\ stopper = [p \in Path |-> "none"]
  /\ outbound = 0
  /\ errors = 0
  /\ client = "none"
  /\ writer = "none"
  /\ creader = "none"
  /\ report = 0
  /\ crashed = FALSE

\* watchPaths <- p: waits for room; a send on the closed channel panics.
SendPath(p) ==
  \/ /\ closed
     /\ crashed' = TRUE
     /\ UNCHANGED paths
  \/ /\ ~closed
     /\ Len(paths) < PathCap
     /\ paths' = Append(paths, p)
     /\ UNCHANGED crashed

\* mutex.RLock(): KindsCache shows that readers are let in.
AcquireLock ==
  /\ lock = "waiting"
  /\ lock' = "held"
  /\ UNCHANGED <<pc, dialVars, todo, fan, backendVars, clientVars, crashed>>

\* getWatchPaths sends the cluster-wide path of the next kind that can be watched.
ProduceKind(k) ==
  /\ lock = "held"
  /\ k \in todo
  /\ SendPath(<<k, Cluster>>)
  /\ todo' = todo \ {k}
  /\ UNCHANGED <<pc, cur, readFirst, closed, lock, fan, backendVars, clientVars>>

\* The RUnlock is missing.
KeepLock == FALSE /\ UNCHANGED vars

\* mutex.RUnlock() after the last kind.
ReleaseLock ==
  /\ lock = "held" /\ todo = {}
  /\ lock' = "released"
  /\ UNCHANGED <<pc, dialVars, todo, fan, backendVars, clientVars, crashed>>

\* The goroutine of a refused kind sends the path of one of its namespaces.
ProduceNamespace(k, n) ==
  /\ n \in fan[k]
  /\ SendPath(<<k, n>>)
  /\ fan' = [fan EXCEPT ![k] = @ \ {n}]
  /\ UNCHANGED <<pc, cur, readFirst, closed, todo, lock, backendVars, clientVars>>
-----------------------------------------------------------------------------
\* The select of the handler finds a path.
TakePath ==
  /\ pc = "select"
  /\ paths # <<>>
  /\ cur' = Head(paths)
  /\ paths' = Tail(paths)
  /\ readFirst' = TRUE
  /\ pc' = "dial"
  /\ UNCHANGED <<closed, produceVars, backendVars, clientVars, crashed>>

\* The backend accepts: the reader and its stopper are started.
DialAccepted ==
  /\ pc = "dial"
  /\ socket' = [socket EXCEPT ![cur] = "open"]
  /\ reader' = [reader EXCEPT ![cur] = "reading"]
  /\ stopper' = [stopper EXCEPT ![cur] = "listening"]
  /\ pc' = IF client = "none" THEN "upgrade" ELSE "select"
  /\ UNCHANGED <<dialVars, produceVars, outbound, errors, clientVars, crashed>>

\* A refused path is tried per namespace, a namespaced one too.
DialForbiddenAgain ==
  /\ pc = "dial"
  /\ fan' = [fan EXCEPT ![cur[1]] = Namespace]
  /\ pc' = "select"
  /\ UNCHANGED <<dialVars, todo, lock, backendVars, clientVars, crashed>>

\* The backend answers Forbidden: a cluster-wide path is tried per namespace.
DialForbidden ==
  /\ pc = "dial"
  /\ fan' = IF cur[2] = Cluster THEN [fan EXCEPT ![cur[1]] = Namespace] ELSE fan
  /\ pc' = "select"
  /\ UNCHANGED <<dialVars, todo, lock, backendVars, clientVars, crashed>>

\* Any other failure: the path is given up.
DialFailed ==
  /\ pc = "dial"
  /\ pc' = "select"
  /\ UNCHANGED <<dialVars, produceVars, backendVars, clientVars, crashed>>

Upgrade ==
  /\ pc = "upgrade"
  /\ client' = "open"
  /\ pc' = "select"
  /\ UNCHANGED <<dialVars, produceVars, backendVars, writer, creader, report, crashed>>

\* A return without deferred calls.
CloseNone == UNCHANGED <<socket, client>>

\* The deferred Close() of every connection.
CloseAll ==
  /\ socket' = [p \in Path |-> IF socket[p] = "open" THEN "closed" ELSE socket[p]]
  /\ client' = IF client = "none" THEN "none" ELSE "closed"

\* The upgrade fails: the handler returns from inside its loop.
UpgradeFailed ==
  /\ pc = "upgrade"
  /\ pc' = "aborted"
  /\ CloseAll
  /\ UNCHANGED <<dialVars, produceVars, reader, stopper, outbound, errors,
                 writer, creader, report, crashed>>

\* The default case, after a first path was read: no path is waiting, so the
\* channel is closed and the writer started.  Before the first path the handler
\* sleeps and looks again.
StartWriter ==
  /\ pc = "select"
  /\ paths = <<>>
  /\ readFirst
  /\ closed' = TRUE
  /\ pc' = "serving"
  /\ IF client = "none"
     THEN writer' = "nilsocket" /\ UNCHANGED creader
     ELSE writer' = "running" /\ creader' = "reading"
  /\ UNCHANGED <<cur, readFirst, paths, produceVars, backendVars, client, report, crashed>>

\* <-errOutbound
EndServing ==
  /\ pc = "serving"
  /\ report > 0
  /\ report' = report - 1
  /\ pc' = "stopping"
  /\ UNCHANGED <<dialVars, produceVars, backendVars, client, writer, creader, crashed>>

\* stop <- struct{}{}: the channel has no buffer, so the stopper must be there.
Stop(p) ==
  /\ pc = "stopping"
  /\ stopper[p] = "listening"
  /\ stopper' = [stopper EXCEPT ![p] = "closing"]
  /\ UNCHANGED <<pc, dialVars, produceVars, socket, reader, outbound, errors, clientVars, crashed>>

\* Every reader has been told; the handler returns.
Return ==
  /\ pc = "stopping"
  /\ \A p \in Watched : stopper[p] \in {"closing", "done"}
  /\ pc' = "returned"
  /\ CloseAll
  /\ UNCHANGED <<dialVars, produceVars, reader, stopper, outbound, errors,
                 writer, creader, report, crashed>>
-----------------------------------------------------------------------------
\* A message arrives on a backend socket.
ReadMessage(p) ==
  /\ reader[p] = "reading"
  /\ socket[p] = "open"
  /\ reader' = [reader EXCEPT ![p] = "holding"]
  /\ UNCHANGED <<pc, dialVars, produceVars, socket, stopper, outbound, errors, clientVars, crashed>>

\* outbound <- message
Forward(p) ==
  /\ reader[p] = "holding"
  /\ outbound < OutCap
  /\ outbound' = outbound + 1
  /\ reader' = [reader EXCEPT ![p] = "reading"]
  /\ UNCHANGED <<pc, dialVars, produceVars, socket, stopper, errors, clientVars, crashed>>

\* ReadMessage returns an error: the socket was closed here or by the backend.
ReadFails(p) ==
  /\ reader[p] = "reading"
  /\ reader' = [reader EXCEPT ![p] = "failed"]
  /\ UNCHANGED <<pc, dialVars, produceVars, socket, stopper, outbound, errors, clientVars, crashed>>

\* A reader that fails ends its stopper too.
ReportFailureAndStop(p) ==
  /\ reader[p] = "failed"
  /\ errors < ErrCap
  /\ errors' = errors + 1
  /\ reader' = [reader EXCEPT ![p] = "ended"]
  /\ stopper' = [stopper EXCEPT ![p] = IF @ = "listening" THEN "gone" ELSE @]
  /\ UNCHANGED <<pc, dialVars, produceVars, socket, outbound, clientVars, crashed>>

\* errc <- err: nobody ever receives from backendErrors.
ReportFailure(p) ==
  /\ reader[p] = "failed"
  /\ errors < ErrCap
  /\ errors' = errors + 1
  /\ reader' = [reader EXCEPT ![p] = "ended"]
  /\ UNCHANGED <<pc, dialVars, produceVars, socket, stopper, outbound, clientVars, crashed>>

\* The stopper closes its socket.
CloseSocket(p) ==
  /\ stopper[p] = "closing"
  /\ stopper' = [stopper EXCEPT ![p] = "done"]
  /\ socket' = [socket EXCEPT ![p] = "closed"]
  /\ UNCHANGED <<pc, dialVars, produceVars, reader, outbound, errors, clientVars, crashed>>
-----------------------------------------------------------------------------
\* The browser goes away.
ClientGone ==
  /\ client = "open"
  /\ client' = "gone"
  /\ UNCHANGED <<pc, dialVars, produceVars, backendVars, writer, creader, report, crashed>>

\* errOutbound is made without a buffer: only a waiting handler takes a report.
ReportUnbuffered == pc = "serving" /\ report < 1 /\ report' = report + 1

\* errOutbound is never made: a send on the nil channel blocks for ever.
ReportNever == FALSE /\ report' = report

\* errc <- err in writeMessages and its client reader: one place, one receive.
Report == report < 1 /\ report' = report + 1

\* writeMessages finds a nil socket.
ReportNilSocket ==
  /\ writer = "nilsocket"
  /\ Report
  /\ writer' = "done"
  /\ UNCHANGED <<pc, dialVars, produceVars, backendVars, client, creader, crashed>>

\* A message is written to the client; a client that has just gone may still take it.
Write ==
  /\ writer = "running"
  /\ client \in {"open", "gone"}
  /\ outbound > 0
  /\ outbound' = outbound - 1
  /\ UNCHANGED <<pc, dialVars, produceVars, socket, reader, stopper, errors, clientVars, crashed>>

\* Writing a message, which is lost, a ping or a pong fails.
WriteFails ==
  /\ writer = "running"
  /\ writer' = "failed"
  /\ outbound' \in {outbound} \cup {m \in 0..OutCap : m + 1 = outbound}
  /\ UNCHANGED <<pc, dialVars, produceVars, socket, reader, stopper, errors,
                 client, creader, report, crashed>>

WriterReports ==
  /\ writer = "failed"
  /\ Report
  /\ writer' = "deferred"
  /\ UNCHANGED <<pc, dialVars, produceVars, backendVars, client, creader, crashed>>

\* The deferred function closes the socket and reports once more.
WriterCloses ==
  /\ writer = "deferred"
  /\ client' = "closed"
  /\ writer' = "closing"
  /\ UNCHANGED <<pc, dialVars, produceVars, backendVars, creader, report, crashed>>

WriterEnds ==
  /\ writer = "closing"
  /\ Report
  /\ writer' = "done"
  /\ UNCHANGED <<pc, dialVars, produceVars, backendVars, client, creader, crashed>>

\* Reading from the client fails: it is gone, closed, or missed a pong.
ClientReadFails ==
  /\ creader = "reading"
  /\ creader' = "failed"
  /\ UNCHANGED <<pc, dialVars, produceVars, backendVars, client, writer, report, crashed>>

ClientReaderEnds ==
  /\ creader = "failed"
  /\ Report
  /\ creader' = "done"
  /\ UNCHANGED <<pc, dialVars, produceVars, backendVars, client, writer, crashed>>
-----------------------------------------------------------------------------
Dial    == DialAccepted \/ DialForbidden \/ DialFailed \/ Upgrade \/ UpgradeFailed
Handler == TakePath \/ Dial \/ StartWriter \/ EndServing \/ (\E p \in Path : Stop(p)) \/ Return
Writer  == ReportNilSocket \/ Write \/ WriterReports \/ WriterCloses \/ WriterEnds

Next ==
  /\ ~crashed
  /\ \/ \E k \in Kind : ProduceKind(k)
     \/ AcquireLock \/ ReleaseLock
     \/ \E k \in Kind, n \in Namespace : ProduceNamespace(k, n)
     \/ Handler
     \/ \E p \in Path : \/ ReadMessage(p) \/ Forward(p) \/ ReadFails(p)
                        \/ ReportFailure(p) \/ CloseSocket(p)
     \/ ClientGone
     \/ Writer
     \/ WriteFails \/ ClientReadFails \/ ClientReaderEnds

Spec == Init /\ [][Next]_vars

\* The Go scheduler runs what can run; dials and upgrades return; a socket closed
\* at either end fails its reader, and the next ping its writer.
FairSpec ==
  /\ Spec
  /\ WF_vars(~crashed /\ Handler)
  /\ WF_vars(~crashed /\ AcquireLock)
  /\ WF_vars(~crashed /\ ReleaseLock)
  /\ WF_vars(~crashed /\ Writer)
  /\ WF_vars(~crashed /\ ClientReaderEnds)
  /\ WF_vars(~crashed /\ client \in {"gone", "closed"} /\ WriteFails)
  /\ WF_vars(~crashed /\ client \in {"gone", "closed"} /\ ClientReadFails)
  /\ \A k \in Kind :
       /\ WF_vars(~crashed /\ ProduceKind(k))
       /\ WF_vars(~crashed /\ \E n \in Namespace : ProduceNamespace(k, n))
  /\ \A p \in Path :
       /\ WF_vars(~crashed /\ Forward(p))
       /\ WF_vars(~crashed /\ ReportFailure(p))
       /\ WF_vars(~crashed /\ CloseSocket(p))
       /\ WF_vars(~crashed /\ socket[p] = "closed" /\ ReadFails(p))
-----------------------------------------------------------------------------
\* Every variable has its type.
TypeOK ==
  /\ pc \in {"select", "dial", "upgrade", "serving", "stopping", "returned", "aborted"}
  /\ cur \in Path /\ readFirst \in BOOLEAN /\ closed \in BOOLEAN
  /\ paths \in Seq(Path) /\ Len(paths) <= PathCap
  /\ todo \subseteq Kind /\ lock \in {"waiting", "held", "released"} /\ fan \in [Kind -> SUBSET Namespace]
  /\ socket \in [Path -> {"none", "open", "closed"}]
  /\ reader \in [Path -> {"none", "reading", "holding", "failed", "ended"}]
  /\ stopper \in [Path -> {"none", "listening", "closing", "done"}]
  /\ outbound \in 0..OutCap /\ errors \in 0..ErrCap /\ report \in 0..1
  /\ client \in {"none", "open", "gone", "closed"}
  /\ writer \in {"none", "nilsocket", "running", "failed", "deferred", "closing", "done"}
  /\ creader \in {"none", "reading", "failed", "done"}
  /\ crashed \in BOOLEAN

\* Once the handler has returned, on whichever path, no connection is left open.
NothingLeftOpen ==
  pc \in {"returned", "aborted"} =>
    /\ client \notin {"open", "gone"}
    /\ \A p \in Path : socket[p] # "open"

\* The types, and no connection left open by a handler that has returned.
SafeSession == TypeOK /\ NothingLeftOpen

\* The handler leaves its loop after the first path: the paths it is given, the
\* namespaces of the kinds it is refused included, run out.
LoopEnds == readFirst ~> (pc \notin {"select", "dial", "upgrade"} \/ crashed)

\* A handler that has been told of the end of the session returns: every stop
\* message finds its stopper, whatever the readers are doing.
StopReachesEveryReader == pc = "stopping" ~> (pc = "returned" \/ crashed)

\* A session whose client has gone away ends.
SessionEnds ==
  (client = "gone" /\ pc = "serving") ~> (pc = "returned" \/ crashed)

\* getWatchPaths releases the read lock of the kind lister, which it holds while it
\* sends on a bounded channel, unless the handler gave up on the channel: KindsCache
\* relies on it.
LockReleased == lock = "held" ~> (lock = "released" \/ crashed \/ pc = "aborted")

\* Of the two goroutines of the client connection at least one ends: their three
\* reports find one receive and one place in the channel.
OneReporterEnds ==
  (writer = "running" /\ client = "gone")
    ~> (crashed \/ creader = "done" \/ writer = "done")

\* Everything that must come to an end does: the loop over the paths, the stop
\* messages, the session whose client has gone and one of its two goroutines.
EverythingEnds == LoopEnds /\ StopReachesEveryReader /\ SessionEnds /\ OneReporterEnds
=============================================================================
