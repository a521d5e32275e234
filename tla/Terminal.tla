------------------------------ MODULE Terminal ------------------------------
(***************************************************************************)
(* The terminal tab of a resource (TerminalViewer): the store holds the    *)
(* container that is selected, the viewer the one its terminal is open     *)
(* for, and every exec websocket that was ever made is still there until   *)
(* its close event, which the viewer receives whichever socket it is of.   *)
(* closeTerminal is not modelled: the button that calls it is not shown    *)
(* while the terminal is open, and as a close handler it is replaced.      *)
(***************************************************************************)
EXTENDS Integers, Sequences

CONSTANTS PodContainer,  \* the containers in the menu
          NoContainer,   \* the empty selection
          Null,          \* state.selectedContainer of no terminal
          MaxSockets     \* bounds the sockets that are made

ASSUME TerminalAssumption == Null \notin PodContainer \cup {NoContainer} /\ MaxSockets \in Nat

VARIABLES selected,  \* state.terminal.podContainer
          sockets,   \* every websocket: [container, state, viewer]
          current,   \* this.socket, as a position in sockets; 0 is none
          viewer,    \* number of the mounted viewer, 0 while none is
          open,      \* this.state.terminalOpen
          terminalShown,     \* this.state.selectedContainer
          retries    \* viewers for whose terminal an error offers 'Try Again'

terminalVars == <<selected, sockets, current, viewer, open, terminalShown, retries>>

TerminalInit ==
  /\ selected = NoContainer /\ sockets = <<>> /\ current = 0 /\ viewer = 1
  /\ open = FALSE /\ terminalShown = Null /\ retries = {}

(* The menu, and the selection of a resource, which selects a container.   *)
SelectTerminalFor(c) ==
  /\ selected' = c
  /\ UNCHANGED <<sockets, current, viewer, open, terminalShown, retries>>

(* destroy closes the socket; its close handler stays in place.            *)
Destroyed(i) ==
  [sockets EXCEPT ![i].state = IF @ = "closed" THEN @ ELSE "closing"]

(* openTerminal does nothing for the container that is shown already.      *)
OpenTerminal ==
  /\ viewer # 0 /\ Len(sockets) < MaxSockets
  /\ selected # terminalShown
  /\ sockets' = Append(IF current = 0 THEN sockets ELSE Destroyed(current),
                       [container |-> selected, state |-> "connecting", viewer |-> viewer])
  /\ current' = Len(sockets')
  /\ UNCHANGED <<selected, viewer, open, terminalShown>>

(* The play button is displayed while the terminal is not open.            *)
HandleExec == ~open /\ OpenTerminal /\ UNCHANGED retries

(* The retry of an error clears the error first.                           *)
TryAgain == viewer \in retries /\ OpenTerminal /\ retries' = retries \ {viewer}

OnOpen(i) ==
  /\ sockets[i].state = "connecting" /\ sockets[i].container # NoContainer
  /\ sockets' = [sockets EXCEPT ![i].state = "open"]
  /\ IF sockets[i].viewer = viewer
     THEN open' = TRUE /\ terminalShown' = sockets[i].container
     ELSE UNCHANGED <<open, terminalShown>>
  /\ UNCHANGED <<selected, current, viewer, retries>>

(* The close event of a socket, preceded by an error event when the        *)
(* connection failed; destroy drops the handler of that one.               *)
OnError(i, failed) ==
  /\ sockets[i].state # "closed" /\ (sockets[i].state = "connecting" => failed)
  /\ sockets' = [sockets EXCEPT ![i].state = "closed"]
  /\ retries' = IF failed /\ sockets[i].state # "closing" THEN retries \union {sockets[i].viewer} ELSE retries

OnCloseKeepSelected(i, failed) ==
  /\ OnError(i, failed)
  /\ IF sockets[i].viewer = viewer THEN open' = FALSE ELSE UNCHANGED open
  /\ UNCHANGED <<selected, current, viewer, terminalShown>>
OnCloseFailed(i, failed) ==
  /\ OnError(i, failed)
  /\ IF sockets[i].viewer = viewer /\ failed
     THEN open' = FALSE /\ terminalShown' = Null ELSE UNCHANGED <<open, terminalShown>>
  /\ UNCHANGED <<selected, current, viewer>>
OnClose(i, failed) ==
  /\ OnError(i, failed)
  /\ IF sockets[i].viewer = viewer
     THEN open' = FALSE /\ terminalShown' = Null ELSE UNCHANGED <<open, terminalShown>>
  /\ UNCHANGED <<selected, current, viewer>>

(* Leaving the tab or the page unmounts the viewer and closes nothing.     *)
Unmount ==
  /\ viewer # 0 /\ viewer' = 0
  /\ UNCHANGED <<selected, sockets, current, open, terminalShown, retries>>

MountTerminal ==
  /\ viewer = 0 /\ Len(sockets) < MaxSockets
  /\ viewer' = 1 + Len(sockets)   \* the viewer is another one if the last made a socket
  /\ current' = 0 /\ open' = FALSE /\ terminalShown' = Null
  /\ UNCHANGED <<selected, sockets, retries>>

(* What is typed is sent, and not discarded.                               *)
OnInput == current # 0 /\ sockets[current].state = "open"

TerminalNext ==
  \/ \E c \in PodContainer \cup {NoContainer} : SelectTerminalFor(c)
  \/ HandleExec \/ TryAgain
  \/ \E i \in DOMAIN sockets : OnOpen(i) \/ (\E failed \in BOOLEAN : OnClose(i, failed))
  \/ Unmount \/ MountTerminal
-----------------------------------------------------------------------------
TerminalTypeOK ==
  /\ selected \in PodContainer \cup {NoContainer} /\ terminalShown \in PodContainer \cup {Null}
  /\ sockets \in Seq([container : PodContainer \cup {NoContainer}, viewer : 1..(MaxSockets + 1),
                      state : {"connecting", "open", "closing", "closed"}])
  /\ current \in 0..Len(sockets) /\ viewer \in 0..(MaxSockets + 1)
  /\ open \in BOOLEAN /\ retries \subseteq 1..(MaxSockets + 1)

(* A terminal that is displayed as open is connected to the container it   *)
(* is displayed for, so that what is typed reaches it, except while the    *)
(* close event of a socket that 'Try Again' replaced is on the way.        *)
OpenIsConnected ==
  viewer # 0 /\ open =>
    \/ OnInput /\ sockets[current].container = terminalShown
    \/ \E i \in DOMAIN sockets : sockets[i].viewer = viewer /\ sockets[i].state = "closing"

(* The play button always works: when the terminal is not open, no         *)
(* selection is taken for the one that is shown, even after the late close *)
(* event of a socket that was replaced (TerminalViewer.js:120, :167).      *)
CanReopen == viewer # 0 /\ ~open => selected # terminalShown
=============================================================================
