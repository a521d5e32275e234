------------------------------ MODULE MCAsync ------------------------------
(***************************************************************************)
(* Small instances of the parts of the UI that wait for the network: the   *)
(* named requests, the terminal, the log followers and the pages of one    *)
(* resource.  In a behaviour one of them takes steps and the others stay   *)
(* as they start.                                                          *)
(***************************************************************************)
EXTENDS Requests, Terminal, Logs, InfoPages

VARIABLE part   \* the part of the UI that takes steps

requestVars == vars
Parts == {"requests", "terminal", "logs", "info"}

AsyncInit == part \in Parts /\ Init /\ TerminalInit /\ LogsInit /\ InfoInit

AsyncNext ==
  /\ UNCHANGED part
  /\ \/ part = "requests" /\ Next /\ UNCHANGED <<terminalVars, logVars, infoVars>>
     \/ part = "terminal" /\ TerminalNext /\ UNCHANGED <<requestVars, logVars, infoVars>>
     \/ part = "logs" /\ LogsNext /\ UNCHANGED <<requestVars, terminalVars, infoVars>>
     \/ part = "info" /\ InfoNext /\ UNCHANGED <<requestVars, terminalVars, logVars>>

(* The browser answers or fails every fetch, opens or fails every socket   *)
(* and runs every continuation and timer.                                  *)
AsyncSpec ==
  /\ AsyncInit /\ [][AsyncNext]_<<part, requestVars, terminalVars, logVars, infoVars>>
  /\ \A c \in Caller : WF_requestVars(part = "requests" /\ Share(c))
  /\ \A h \in 1..MaxRequests :
       /\ WF_requestVars(part = "requests" /\ h \in Promise /\ (Settle(h, "resolved") \/ Settle(h, "rejected")))
       /\ WF_requestVars(part = "requests" /\ h \in Promise /\ (DoneFetching(h) \/ Throw(h)))
  /\ \A i \in 1..MaxFollowers :
       /\ WF_logVars(part = "logs" /\ i \in DOMAIN followers /\ Socket(i))
       /\ WF_logVars(part = "logs" /\ i \in DOMAIN followers /\ Reload(i))
  /\ WF_infoVars(part = "info" /\ FetchResource)

(* The types of every part, whichever takes steps.                         *)
AsyncTypeOK == TypeOK /\ TerminalTypeOK /\ LogsTypeOK /\ InfoTypeOK

(* Streams to a container stay usable: a terminal that is shown as open is *)
(* connected to the container that is shown, and one that is not can be    *)
(* opened again; a follower that was dropped stays closed, and no line     *)
(* that is still queued was left out of the log that is shown.             *)
StreamsUsable == OpenIsConnected /\ CanReopen /\ DroppedStaysClosed /\ QueuedLinesShown
=============================================================================
