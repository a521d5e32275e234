-------------------------- MODULE WatchProxyProofs --------------------------
(***************************************************************************)
(* A session of the multi-watch for any kinds and namespaces and channels  *)
(* of any capacity: the types, and no connection left open by a handler    *)
(* that has returned, are inductive together.                              *)
(***************************************************************************)
EXTENDS WatchProxy, TLAPS

\* The state of the connections does not change while the handler stays where it is.
LEMMA StillOpen ==
  ASSUME SafeSession, TypeOK', UNCHANGED <<pc, socket, client>>
  PROVE  SafeSession'
BY DEF SafeSession, NothingLeftOpen

\* A handler that goes on has left nothing behind yet.
LEMMA GoesOn ==
  ASSUME TypeOK', pc' \notin {"returned", "aborted"}
  PROVE  SafeSession'
BY DEF SafeSession, NothingLeftOpen

\* The deferred calls leave no connection open.
LEMMA AllClosed ==
  ASSUME TypeOK, TypeOK', CloseAll
  PROVE  SafeSession'
<1>1. client' \notin {"open", "gone"} /\ \A p \in Path : socket'[p] # "open"
  BY DEF CloseAll
<1>2. QED
  BY <1>1 DEF SafeSession, NothingLeftOpen

\* A path is sent, or the process is gone.
LEMMA Sending ==
  ASSUME SafeSession, NEW p \in Path, SendPath(p),
         UNCHANGED <<pc, cur, readFirst, closed, lock, backendVars, clientVars>>,
         todo' \subseteq Kind, fan' \in [Kind -> SUBSET Namespace]
  PROVE  SafeSession'
<1>1. PathCap \in Nat /\ paths \in Seq(Path) /\ Len(paths) <= PathCap
  BY WatchProxyAssumption DEF SafeSession, TypeOK
<1>2. paths' \in Seq(Path) /\ Len(paths') <= PathCap /\ crashed' \in BOOLEAN
  <2>1. CASE closed
    BY <2>1, <1>1 DEF SendPath, SafeSession, TypeOK
  <2>2. CASE ~closed
    BY <2>2, <1>1 DEF SendPath, SafeSession, TypeOK
  <2>3. QED
    BY <2>1, <2>2
<1>3. TypeOK'
  BY <1>2 DEF SafeSession, TypeOK, backendVars, clientVars
<1>4. QED
  BY <1>3, StillOpen DEF backendVars, clientVars

\* The producers of the paths.
LEMMA ProducerStep ==
  ASSUME SafeSession,
         \/ \E k \in Kind : ProduceKind(k)
         \/ AcquireLock \/ ReleaseLock
         \/ \E k \in Kind, n \in Namespace : ProduceNamespace(k, n)
  PROVE  SafeSession'
<1>1. ASSUME NEW k \in Kind, ProduceKind(k) PROVE SafeSession'
  <2>1. todo' \subseteq Kind /\ fan' \in [Kind -> SUBSET Namespace] /\ <<k, Cluster>> \in Path
    BY <1>1 DEF ProduceKind, SafeSession, TypeOK, Path
  <2>2. QED
    BY <1>1, <2>1, Sending DEF ProduceKind
<1>2. ASSUME NEW k \in Kind, NEW n \in Namespace, ProduceNamespace(k, n) PROVE SafeSession'
  <2>1. todo' \subseteq Kind /\ fan' \in [Kind -> SUBSET Namespace] /\ <<k, n>> \in Path
    BY <1>2 DEF ProduceNamespace, SafeSession, TypeOK, Path
  <2>2. QED
    BY <1>2, <2>1, Sending DEF ProduceNamespace
<1>3. CASE AcquireLock \/ ReleaseLock
  <2>1. TypeOK'
    BY <1>3 DEF AcquireLock, ReleaseLock, SafeSession, TypeOK, dialVars, backendVars, clientVars
  <2>2. QED
    BY <1>3, <2>1, StillOpen DEF AcquireLock, ReleaseLock, backendVars, clientVars
<1>4. QED
  BY <1>1, <1>2, <1>3

\* The handler of the session.
LEMMA HandlerStep ==
  ASSUME SafeSession, Handler
  PROVE  SafeSession'
<1> USE DEF SafeSession
<1>1. CASE TakePath
  <2>1. paths \in Seq(Path) /\ paths # <<>> /\ Len(paths) <= PathCap /\ PathCap \in Nat
    BY <1>1, WatchProxyAssumption DEF TakePath, TypeOK
  <2>2. Head(paths) \in Path /\ Tail(paths) \in Seq(Path) /\ Len(Tail(paths)) <= PathCap
    BY <2>1
  <2>3. TypeOK' /\ pc' = "dial"
    BY <1>1, <2>2 DEF TakePath, TypeOK, produceVars, backendVars, clientVars
  <2>4. QED
    BY <2>3, GoesOn
<1>2. CASE DialAccepted
  <2>1. TypeOK' /\ pc' \in {"upgrade", "select"}
    BY <1>2 DEF DialAccepted, TypeOK, dialVars, produceVars, clientVars
  <2>2. QED
    BY <2>1, GoesOn
<1>3. CASE DialForbidden
  <2>1. TypeOK' /\ pc' = "select"
    BY <1>3 DEF DialForbidden, TypeOK, dialVars, backendVars, clientVars
  <2>2. QED
    BY <2>1, GoesOn
<1>4. CASE DialFailed
  <2>1. TypeOK' /\ pc' = "select"
    BY <1>4 DEF DialFailed, TypeOK, dialVars, produceVars, backendVars, clientVars
  <2>2. QED
    BY <2>1, GoesOn
<1>5. CASE Upgrade
  <2>1. TypeOK' /\ pc' = "select"
    BY <1>5 DEF Upgrade, TypeOK, dialVars, produceVars, backendVars
  <2>2. QED
    BY <2>1, GoesOn
<1>6. CASE UpgradeFailed
  <2>1. TypeOK'
    BY <1>6 DEF UpgradeFailed, CloseAll, TypeOK, dialVars, produceVars
  <2>2. QED
    BY <1>6, <2>1, AllClosed DEF UpgradeFailed
<1>7. CASE StartWriter
  <2>1. TypeOK' /\ pc' = "serving"
    BY <1>7 DEF StartWriter, TypeOK, produceVars, backendVars
  <2>2. QED
    BY <2>1, GoesOn
<1>8. CASE EndServing
  <2>1. TypeOK' /\ pc' = "stopping"
    BY <1>8 DEF EndServing, TypeOK, dialVars, produceVars, backendVars
  <2>2. QED
    BY <2>1, GoesOn
<1>9. ASSUME NEW p \in Path, Stop(p) PROVE SafeSession'
  <2>1. TypeOK'
    BY <1>9 DEF Stop, TypeOK, dialVars, produceVars, clientVars
  <2>2. QED
    BY <1>9, <2>1, StillOpen DEF Stop, clientVars
<1>10. CASE Return
  <2>1. TypeOK'
    BY <1>10 DEF Return, CloseAll, TypeOK, dialVars, produceVars
  <2>2. QED
    BY <1>10, <2>1, AllClosed DEF Return
<1>11. QED
  BY <1>1, <1>2, <1>3, <1>4, <1>5, <1>6, <1>7, <1>8, <1>9, <1>10 DEF Handler, Dial

\* The goroutines of a backend connection.
LEMMA BackendStep ==
  ASSUME SafeSession, NEW p \in Path,
         ReadMessage(p) \/ Forward(p) \/ ReadFails(p) \/ ReportFailure(p) \/ CloseSocket(p)
  PROVE  SafeSession'
<1> USE DEF SafeSession
<1>1. CASE ReadMessage(p) \/ ReadFails(p)
  <2>1. TypeOK'
    BY <1>1 DEF ReadMessage, ReadFails, TypeOK, dialVars, produceVars, clientVars
  <2>2. QED
    BY <1>1, <2>1, StillOpen DEF ReadMessage, ReadFails, clientVars
<1>2. CASE Forward(p)
  <2>1. outbound' \in 0..OutCap
    BY <1>2, WatchProxyAssumption DEF Forward, TypeOK
  <2>2. TypeOK'
    BY <1>2, <2>1 DEF Forward, TypeOK, dialVars, produceVars, clientVars
  <2>3. QED
    BY <1>2, <2>2, StillOpen DEF Forward, clientVars
<1>3. CASE ReportFailure(p)
  <2>1. errors' \in 0..ErrCap
    BY <1>3, WatchProxyAssumption DEF ReportFailure, TypeOK
  <2>2. TypeOK'
    BY <1>3, <2>1 DEF ReportFailure, TypeOK, dialVars, produceVars, clientVars
  <2>3. QED
    BY <1>3, <2>2, StillOpen DEF ReportFailure, clientVars
<1>4. CASE CloseSocket(p)
  <2>1. TypeOK'
    BY <1>4 DEF CloseSocket, TypeOK, dialVars, produceVars, clientVars
  <2>2. QED
    BY <1>4, <2>1 DEF CloseSocket, NothingLeftOpen, TypeOK, clientVars
<1>5. QED
  BY <1>1, <1>2, <1>3, <1>4

\* The client, and the two goroutines of its connection.
LEMMA ClientStep ==
  ASSUME SafeSession, ClientGone \/ Writer \/ WriteFails \/ ClientReadFails \/ ClientReaderEnds
  PROVE  SafeSession'
<1> USE DEF SafeSession
<1>1. CASE ClientGone
  BY <1>1 DEF ClientGone, TypeOK, NothingLeftOpen, dialVars, produceVars, backendVars
<1>2. CASE ReportNilSocket \/ WriterReports \/ WriterEnds \/ ClientReadFails \/ ClientReaderEnds
  <2>1. TypeOK'
    BY <1>2 DEF ReportNilSocket, WriterReports, WriterEnds, ClientReadFails, ClientReaderEnds, Report,
                TypeOK, dialVars, produceVars, backendVars
  <2>2. QED
    BY <1>2, <2>1, StillOpen DEF ReportNilSocket, WriterReports, WriterEnds, ClientReadFails, ClientReaderEnds, backendVars
<1>3. CASE Write
  <2>1. outbound' \in 0..OutCap
    BY <1>3, WatchProxyAssumption DEF Write, TypeOK
  <2>2. TypeOK'
    BY <1>3, <2>1 DEF Write, TypeOK, dialVars, produceVars, clientVars
  <2>3. QED
    BY <1>3, <2>2, StillOpen DEF Write, clientVars
<1>4. CASE WriteFails
  <2>1. outbound' \in 0..OutCap
    BY <1>4 DEF WriteFails, TypeOK
  <2>2. TypeOK'
    BY <1>4, <2>1 DEF WriteFails, TypeOK, dialVars, produceVars
  <2>3. QED
    BY <1>4, <2>2, StillOpen DEF WriteFails
<1>5. CASE WriterCloses
  BY <1>5 DEF WriterCloses, TypeOK, NothingLeftOpen, dialVars, produceVars, backendVars
<1>6. QED
  BY <1>1, <1>2, <1>3, <1>4, <1>5 DEF Writer

\* The initial states.
LEMMA SafeStart == Init => SafeSession
<1> SUFFICES ASSUME Init PROVE SafeSession
  OBVIOUS
<1>1. PathCap \in Nat /\ OutCap \in Nat /\ ErrCap \in Nat
  BY WatchProxyAssumption
<1>2. paths \in Seq(Path) /\ Len(paths) <= PathCap
  BY <1>1 DEF Init
<1>3. outbound \in 0..OutCap /\ errors \in 0..ErrCap /\ report \in 0..1
  BY <1>1 DEF Init
<1>4. socket \in [Path -> {"none", "open", "closed"}] /\ fan \in [Kind -> SUBSET Namespace]
  BY DEF Init
<1>5. /\ reader \in [Path -> {"none", "reading", "holding", "failed", "ended"}]
      /\ stopper \in [Path -> {"none", "listening", "closing", "done"}]
  BY DEF Init
<1>6. TypeOK
  BY <1>2, <1>3, <1>4, <1>5 DEF Init, TypeOK
<1>7. QED
  BY <1>6 DEF Init, SafeSession, NothingLeftOpen

\* Every handler that has returned, over its loop, its stop messages or a failed upgrade,
\* has closed the connection to the browser and those to the backends (AggregateWatches),
\* for any kinds, namespaces and capacities.
THEOREM SessionSafe == Spec => []SafeSession
<1>1. SafeSession /\ [Next]_vars => SafeSession'
  <2>1. SUFFICES ASSUME SafeSession, [Next]_vars PROVE SafeSession'
    OBVIOUS
  <2>2. CASE UNCHANGED vars
    BY <2>1, <2>2 DEF vars, dialVars, produceVars, backendVars, clientVars, SafeSession, TypeOK, NothingLeftOpen
  <2>3. CASE Next
    BY <2>1, <2>3, ProducerStep, HandlerStep, BackendStep, ClientStep DEF Next
  <2>4. QED
    BY <2>1, <2>2, <2>3
<1>2. QED
  BY <1>1, SafeStart, PTL DEF Spec
=============================================================================
