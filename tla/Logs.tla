-------------------------------- MODULE Logs --------------------------------
(***************************************************************************)
(* The logs of a workload.  The page (WorkloadInfo) makes one LogFollower  *)
(* for every selected container that is ready and lets the followers write *)
(* to one LogBuffer; the log tab (LogViewer) comes and goes, writes what   *)
(* the buffer holds and is called for each further line.  A follower       *)
(* reconnects with a timer that may fire after the follower was destroyed. *)
(***************************************************************************)
EXTENDS Integers, Sequences, FiniteSets, SequencesExt

CONSTANTS Container,     \* 'pod/container' names
          Undefined,     \* podContainers before anything was selected
          MaxTries,      \* reconnections of a follower before it gives up
          BufferSize,    \* _maxSize of the buffer
          MaxFollowers, MaxLines  \* bound what is made and received

ASSUME LogsAssumption == {MaxTries, BufferSize, MaxFollowers, MaxLines} \subseteq Nat /\ IsFiniteSet(Container)

VARIABLES podContainers,  \* state.logs.podContainers
          running,        \* containers the pods in the store report ready
          logsPage,           \* WorkloadInfo is mounted
          ready,          \* its state.readyContainers
          followers,      \* every follower made: [container, socket, tries, timer]
          followed,       \* this.logFollowers: container -> position, 0 is none
          reported,       \* containers an error was added for
          buffer,         \* the lines in this.logs
          attached,       \* logs.onPush is set
          logViewer,         \* LogViewer is mounted
          filtering,      \* its filter is checked
          logsShown,          \* the lines its terminal displays
          missed,         \* lines received since a viewer was last unmounted
          lines           \* number of lines received

streams == <<podContainers, running, logsPage, ready, followers, followed, reported>>
display == <<buffer, attached, logViewer, filtering, logsShown, missed, lines>>
logVars == <<streams, display>>

LogsInit ==
  /\ podContainers = Undefined /\ running = {} /\ logsPage = FALSE /\ ready = {}
  /\ followers = <<>> /\ followed = [c \in Container |-> 0] /\ reported = {}
  /\ buffer = <<>> /\ attached = FALSE /\ logViewer = FALSE /\ filtering = FALSE
  /\ logsShown = {} /\ missed = {} /\ lines = 0
-----------------------------------------------------------------------------
FilterReadyContainers(pcs, rs) == IF pcs = Undefined THEN {} ELSE pcs \cap rs

NewFollower(c) == [container |-> c, socket |-> "connecting", tries |-> 0, timer |-> FALSE]

(* destroy: the socket is closed and forgotten, a timer is not cancelled.  *)
Destroy(f) == [f EXCEPT !.socket = "none"]

(* watchLogs: one follower for each container of rs, the others destroyed. *)
WatchLogs(pcs, rs, fd) ==
  IF pcs = Undefined THEN followed' = fd /\ UNCHANGED followers
  ELSE LET new  == SetToSeq({c \in rs : fd[c] = 0})
           gone == {fd[c] : c \in {d \in Container \ rs : fd[d] # 0}}
       IN /\ Len(followers) + Len(new) <= MaxFollowers
          /\ followers' = [i \in DOMAIN followers |-> IF i \in gone THEN Destroy(followers[i]) ELSE followers[i]]
                          \o [i \in DOMAIN new |-> NewFollower(new[i])]
          /\ followed' = [c \in Container |->
                            IF c \notin rs THEN 0
                            ELSE IF fd[c] # 0 THEN fd[c]
                            ELSE Len(followers) + CHOOSE i \in DOMAIN new : new[i] = c]

(* A menu selection is never empty; the followers stay those of the        *)
(* containers that were ready when a resource last changed.                *)
SelectLogsFor(cs) ==
  /\ podContainers' = cs
  /\ IF logsPage THEN WatchLogs(cs, ready, followed) ELSE UNCHANGED <<followers, followed>>
  /\ UNCHANGED <<running, logsPage, ready, reported, display>>

(* A pod in the store changes, and with it the revision of the resources.  *)
PodChanged(rs) ==
  /\ running' = rs
  /\ IF logsPage
     THEN /\ ready' = FilterReadyContainers(podContainers, rs)
          /\ WatchLogs(podContainers, ready', followed)
     ELSE UNCHANGED <<ready, followers, followed>>
  /\ UNCHANGED <<podContainers, logsPage, reported, display>>

Invalidate ==
  /\ podContainers' = Undefined /\ running' = {} /\ reported' = {}
  /\ ready' = IF logsPage THEN {} ELSE ready
  /\ UNCHANGED <<logsPage, followers, followed, display>>

MountPage ==
  /\ ~logsPage /\ logsPage' = TRUE
  /\ ready' = FilterReadyContainers(podContainers, running)
  /\ WatchLogs(podContainers, ready', [c \in Container |-> 0])
  /\ buffer' = <<>> /\ attached' = FALSE /\ missed' = {}
  /\ UNCHANGED <<podContainers, running, reported, logViewer, filtering, logsShown, lines>>

UnmountPage ==
  /\ logsPage /\ logsPage' = FALSE
  /\ followers' = [i \in DOMAIN followers |->
                     IF \E c \in Container : followed[c] = i THEN Destroy(followers[i]) ELSE followers[i]]
  /\ logViewer' = FALSE /\ logsShown' = {}
  /\ UNCHANGED <<podContainers, running, ready, followed, reported, buffer, attached, filtering, missed, lines>>
-----------------------------------------------------------------------------
OnLogOpen(i) ==
  /\ followers[i].socket = "connecting"
  /\ followers' = [followers EXCEPT ![i].socket = "open"]
  /\ UNCHANGED <<podContainers, running, logsPage, ready, followed, reported, display>>

(* onerror: the next try in two seconds, or an error after too many.       *)
OnLogErrorNoTimer(i) ==
  /\ followers[i].socket \in {"connecting", "open"}
  /\ IF followers[i].tries < MaxTries
     THEN followers' = [followers EXCEPT ![i].socket = "closed", ![i].tries = @ + 1]
          /\ UNCHANGED reported
     ELSE followers' = [followers EXCEPT ![i] = Destroy(@)]
          /\ reported' = reported \union {followers[i].container}
  /\ UNCHANGED <<podContainers, running, logsPage, ready, followed, display>>
OnLogError(i) ==
  /\ followers[i].socket \in {"connecting", "open"}
  /\ IF followers[i].tries < MaxTries
     THEN followers' = [followers EXCEPT ![i].socket = "closed", ![i].tries = @ + 1, ![i].timer = TRUE]
          /\ UNCHANGED reported
     ELSE followers' = [followers EXCEPT ![i] = Destroy(@)]
          /\ reported' = reported \union {followers[i].container}
  /\ UNCHANGED <<podContainers, running, logsPage, ready, followed, display>>

(* A stream that ends has no handler: it is not followed again.            *)
StreamEnds(i) ==
  /\ followers[i].socket = "open"
  /\ followers' = [followers EXCEPT ![i].socket = "closed"]
  /\ UNCHANGED <<podContainers, running, logsPage, ready, followed, reported, display>>

(* reload, from the timer; a destroyed follower has no socket.             *)
ReloadAlways(i) ==
  /\ followers[i].timer
  /\ followers' = [followers EXCEPT ![i].timer = FALSE, ![i].socket = "connecting"]
  /\ UNCHANGED <<podContainers, running, logsPage, ready, followed, reported, display>>
Reload(i) ==
  /\ followers[i].timer
  /\ followers' = [followers EXCEPT ![i].timer = FALSE,
                                    ![i].socket = IF @ = "none" THEN @ ELSE "connecting"]
  /\ UNCHANGED <<podContainers, running, logsPage, ready, followed, reported, display>>

(* 'Retry' in the errors is reload too, of a follower that was destroyed:  *)
(* the error is cleared and nothing else happens.                          *)
Retry(c) ==
  /\ c \in reported /\ reported' = reported \ {c}
  /\ UNCHANGED <<podContainers, running, logsPage, ready, followers, followed, display>>

(* The buffer keeps its last BufferSize lines.                             *)
Push(line) ==
  LET b == Append(buffer, line)
  IN buffer' = SubSeq(b, 1 + (IF Len(b) > BufferSize THEN Len(b) - BufferSize ELSE 0), Len(b))

(* A line arrives.  The handler of a viewer, mounted or not, writes it and *)
(* returns true, so that the buffer keeps every line as well.              *)
OnEventConsumed(i, matches) ==
  /\ followers[i].socket = "open" /\ lines < MaxLines
  /\ lines' = lines + 1
  /\ IF attached THEN UNCHANGED buffer ELSE Push(lines')
  /\ logsShown' = IF logViewer /\ (~filtering \/ matches) THEN logsShown \union {lines'} ELSE logsShown
  /\ missed' = IF logViewer THEN missed ELSE missed \union {lines'}
  /\ UNCHANGED <<streams, attached, logViewer, filtering>>
OnEvent(i, matches) ==
  /\ followers[i].socket = "open" /\ lines < MaxLines
  /\ lines' = lines + 1
  /\ Push(lines')
  /\ logsShown' = IF logViewer /\ (~filtering \/ matches) THEN logsShown \union {lines'} ELSE logsShown
  /\ missed' = IF logViewer THEN missed ELSE missed \union {lines'}
  /\ UNCHANGED <<streams, attached, logViewer, filtering>>

(* The ref of the terminal is set: what is in the buffer is written.       *)
MountViewer ==
  /\ logsPage /\ ~logViewer /\ logViewer' = TRUE
  /\ logsShown' = Range(buffer) /\ buffer' = <<>> /\ attached' = TRUE
  /\ filtering' = FALSE
  /\ UNCHANGED <<streams, missed, lines>>

(* Nothing calls onDestroy: the buffer keeps the handler of the viewer.    *)
UnmountViewer ==
  /\ logViewer /\ logViewer' = FALSE /\ logsShown' = {} /\ missed' = {}
  /\ UNCHANGED <<streams, buffer, attached, filtering, lines>>

ToggleFilter ==
  /\ logViewer /\ filtering' = ~filtering
  /\ UNCHANGED <<streams, buffer, attached, logViewer, logsShown, missed, lines>>

Socket(i) == OnLogOpen(i) \/ OnLogError(i)
SocketOf(i) == IF i \in DOMAIN followers THEN followers[i].socket ELSE "none"

LogsNext ==
  \/ \E cs \in SUBSET Container \ {{}} : SelectLogsFor(cs)
  \/ \E cs \in SUBSET Container : PodChanged(cs)
  \/ Invalidate \/ MountPage \/ UnmountPage
  \/ \E i \in DOMAIN followers :
       OnLogOpen(i) \/ OnLogError(i) \/ StreamEnds(i) \/ Reload(i) \/ \E m \in BOOLEAN : OnEvent(i, m)
  \/ \E c \in Container : Retry(c)
  \/ MountViewer \/ UnmountViewer \/ ToggleFilter
-----------------------------------------------------------------------------
LogsTypeOK ==
  /\ podContainers = Undefined \/ podContainers \subseteq Container
  /\ {running, ready, reported} \subseteq SUBSET Container
  /\ {logsPage, attached, logViewer, filtering} \subseteq BOOLEAN /\ lines \in 0..MaxLines
  /\ followers \in Seq([container : Container, tries : 0..MaxTries, timer : BOOLEAN,
                        socket : {"connecting", "open", "closed", "none"}])
  /\ followed \in [Container -> 0..Len(followers)]
  /\ Len(buffer) <= BufferSize /\ Range(buffer) \cup logsShown \cup missed \subseteq 1..lines

(* A follower that the page has dropped, or whose page is gone, never has  *)
(* a socket again, although the timer of its reconnection is not cancelled *)
(* (LogFollower.js:69 against destroy at :103).                            *)
DroppedStaysClosed ==
  \A i \in DOMAIN followers :
    followers[i].socket # "none" => logsPage /\ followed[followers[i].container] = i

(* "Detach ourselves from the buffer so that it will continue to queue up  *)
(* log messages ... until a new terminal viewer is mounted" (LogViewer.js  *)
(* :216): a new viewer shows what arrived while there was none, as far as  *)
(* the buffer reaches back, although the old one is never detached.        *)
QueuedLinesShown ==
  logViewer => {l \in missed : Cardinality({k \in missed : k > l}) < BufferSize} \subseteq logsShown

(* A follower that is connecting gets through, or gives up and tells the   *)
(* user, or is dropped: no failed connection is the last thing it does.    *)
FollowedOrReported ==
  \A i \in 1..MaxFollowers : SocketOf(i) = "connecting" ~> SocketOf(i) \in {"open", "none"}
=============================================================================
