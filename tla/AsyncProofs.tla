----------------------------- MODULE AsyncProofs -----------------------------
(***************************************************************************)
(* Proofs about the parts of the UI that wait for the network, which       *)
(* MCAsync runs: the bookkeeping of doRequest for any number of callers    *)
(* and names, the terminal for any containers and sockets, the followers   *)
(* of a log for any containers, buffer and lines.                          *)
(***************************************************************************)
EXTENDS MCAsync, SequenceTheorems, FiniteSetTheorems, TLAPS

(* The named requests. *)

\* Appending a promise leaves the others where they are.
Extended(c, n) ==
  /\ Len(made) \in Nat
  /\ made' \in Seq(PromiseType)
  /\ Len(made') = Len(made) + 1
  /\ \A h \in Promise : made'[h] = made[h]
  /\ made'[Len(made) + 1].name = n
  /\ made'[Len(made) + 1].by = c
  /\ made'[Len(made) + 1].state = "pending"
  /\ made'[Len(made) + 1].resumed = FALSE
  /\ awaits' \in [Caller -> 0..Len(made')]
  /\ awaits'[c] = Len(made) + 1
  /\ \A d \in Caller : d # c => awaits'[d] = awaits[d]

\* What Make does to the promises and the callers.
LEMMA MakeExtends ==
  ASSUME TypeOK, NEW c \in Caller, NEW n \in Name \cup {Unnamed}, Make(c, n)
  PROVE  Extended(c, n)
<1> DEFINE new == [name |-> n, by |-> c, state |-> "pending", resumed |-> FALSE]
<1>1. new \in PromiseType
  BY DEF PromiseType
<1>2. /\ new.name = n /\ new.by = c /\ new.state = "pending" /\ new.resumed = FALSE
  OBVIOUS
<1>3. made' = Append(made, new) /\ awaits' = [awaits EXCEPT ![c] = Len(made) + 1]
  BY DEF Make
<1> HIDE DEF new
<1>4. QED
  BY <1>1, <1>2, <1>3 DEF TypeOK, Promise, Extended

\* Changing a promise h in its state or in resumed leaves the rest as it is.
Changed(h) ==
  /\ made' \in Seq(PromiseType)
  /\ Len(made') = Len(made)
  /\ \A g \in Promise : /\ made'[g].name = made[g].name
                        /\ made'[g].by = made[g].by
                        /\ g # h => made'[g] = made[g]

\* Settling one promise leaves the others as they are.
LEMMA SettleKeeps ==
  ASSUME TypeOK, NEW h \in Promise, NEW s \in {"resolved", "rejected"},
         made' = [made EXCEPT ![h].state = s]
  PROVE  Changed(h) /\ made'[h].state = s /\ made'[h].resumed = made[h].resumed
<1> DEFINE new == [made[h] EXCEPT !.state = s]
<1>1. made[h] \in PromiseType
  BY DEF TypeOK, Promise
<1>2. /\ new \in PromiseType /\ new.state = s
      /\ new.name = made[h].name /\ new.by = made[h].by /\ new.resumed = made[h].resumed
  BY <1>1 DEF PromiseType
<1>3. made' = [made EXCEPT ![h] = new]
  OBVIOUS
<1> HIDE DEF new
<1>a. made \in Seq(PromiseType) /\ h \in 1..Len(made) /\ new \in PromiseType
  BY <1>2 DEF TypeOK, Promise
<1>b. /\ [made EXCEPT ![h] = new] \in Seq(PromiseType)
      /\ Len([made EXCEPT ![h] = new]) = Len(made)
  BY <1>a, ExceptSeq, ZenonT(60)
<1>4. made' \in Seq(PromiseType) /\ Len(made') = Len(made)
  BY <1>b, <1>3
<1>5. made'[h] = new /\ \A g \in Promise : g # h => made'[g] = made[g]
  BY <1>3 DEF TypeOK, Promise
<1>6. QED
  BY <1>2, <1>4, <1>5 DEF Changed

\* The maker's return changes nothing else in a promise.
LEMMA ResumeKeeps ==
  ASSUME TypeOK, NEW h \in Promise, made' = [made EXCEPT ![h].resumed = TRUE]
  PROVE  Changed(h) /\ made'[h].resumed /\ made'[h].state = made[h].state
<1> DEFINE new == [made[h] EXCEPT !.resumed = TRUE]
<1>1. made[h] \in PromiseType
  BY DEF TypeOK, Promise
<1>2. /\ new \in PromiseType /\ new.resumed
      /\ new.name = made[h].name /\ new.by = made[h].by /\ new.state = made[h].state
  BY <1>1 DEF PromiseType
<1>3. made' = [made EXCEPT ![h] = new]
  OBVIOUS
<1> HIDE DEF new
<1>a. made \in Seq(PromiseType) /\ h \in 1..Len(made) /\ new \in PromiseType
  BY <1>2 DEF TypeOK, Promise
<1>b. /\ [made EXCEPT ![h] = new] \in Seq(PromiseType)
      /\ Len([made EXCEPT ![h] = new]) = Len(made)
  BY <1>a, ExceptSeq, ZenonT(60)
<1>4. made' \in Seq(PromiseType) /\ Len(made') = Len(made)
  BY <1>b, <1>3
<1>5. made'[h] = new /\ \A g \in Promise : g # h => made'[g] = made[g]
  BY <1>3 DEF TypeOK, Promise
<1>6. QED
  BY <1>2, <1>4, <1>5 DEF Changed

\* IInv is inductive.
LEMMA Inductive == IInv /\ [Next]_vars => IInv'
<1> SUFFICES ASSUME IInv, [Next]_vars PROVE IInv'
  OBVIOUS
<1> USE DEF IInv
<1>0. \A h \in Promise : made[h].by \in Caller /\ made[h].name \in Name \cup {Unnamed}
  <2>1. \A h \in Promise : made[h] \in PromiseType
    BY DEF TypeOK, Promise
  <2>2. \A p \in PromiseType : p.by \in Caller /\ p.name \in Name \cup {Unnamed}
    BY DEF PromiseType
  <2>3. QED
    BY <2>1, <2>2
<1>1. ASSUME NEW c \in Caller, CallUnnamed(c) PROVE IInv'
  <2>1. Make(c, Unnamed) /\ fetching' = fetching /\ awaits[c] = 0
    BY <1>1 DEF CallUnnamed
  <2>2. Extended(c, Unnamed)
    BY <2>1, MakeExtends
  <2>4. TypeOK'
    BY <2>1, <2>2 DEF TypeOK, Extended
  <2>6. StoredIsOpen'
    BY <1>0, <2>1, <2>2
       DEF Extended, TypeOK, Promise, StoredIsOpen
  <2>7. StoredUnderName'
    BY <1>0, <2>1, <2>2
       DEF Extended, TypeOK, Promise, StoredUnderName
  <2>8. MakerAwaits'
    <3> SUFFICES ASSUME NEW g \in Promise', ~made'[g].resumed
                 PROVE  /\ awaits'[made'[g].by] = g
                        /\ made'[g].name # Unnamed => fetching'[made'[g].name] = g
      BY DEF MakerAwaits
    <3>1. CASE g = Len(made) + 1
      BY <2>1, <2>2, <3>1 DEF Extended, TypeOK
    <3>2. CASE g \in Promise
      <4>1. made'[g] = made[g] /\ g # 0
        BY <2>2, <3>2 DEF Extended, Promise
      <4>2. /\ awaits[made[g].by] = g
            /\ made[g].name # Unnamed => fetching[made[g].name] = g
        BY <3>2, <4>1 DEF MakerAwaits
      <4>3. awaits'[made[g].by] = g
        BY <1>0, <2>1, <2>2, <3>2, <4>1, <4>2 DEF Extended
      <4>4. made[g].name # Unnamed => fetching'[made[g].name] = g
        BY <1>0, <2>1, <3>2, <4>1, <4>2 DEF TypeOK
      <4>5. QED
        BY <4>1, <4>3, <4>4
    <3>3. QED
      BY <2>2, <3>1, <3>2 DEF Extended, Promise
  <2>9. ResumedIsSettled'
    <3>1. \A g \in Promise' : g = Len(made) + 1 \/ g \in Promise
      BY <2>2 DEF Extended, Promise
    <3>2. QED
      BY <2>2, <3>1 DEF Extended, ResumedIsSettled
  <2>5. PendingIsStored'
    BY <2>8, <2>9 DEF PendingIsStored, MakerAwaits, ResumedIsSettled
  <2>3. QED
    BY <2>4, <2>5, <2>6, <2>7, <2>8, <2>9
<1>2. ASSUME NEW c \in Caller, NEW n \in Name, Start(c, n) PROVE IInv'
  <2>1. /\ Make(c, n)
        /\ awaits[c] = 0 /\ fetching[n] = 0
        /\ fetching' = [fetching EXCEPT ![n] = Len(made) + 1]
    BY <1>2 DEF Start
  <2>2. Extended(c, n)
    BY <2>1, MakeExtends
  <2>4. TypeOK'
    BY <2>1, <2>2 DEF TypeOK, Extended
  <2>6. StoredIsOpen'
    BY <1>0, <2>1, <2>2
       DEF Extended, TypeOK, Promise, StoredIsOpen
  <2>7. StoredUnderName'
    BY <1>0, <2>1, <2>2
       DEF Extended, TypeOK, Promise, StoredUnderName
  <2>8. MakerAwaits'
    <3> SUFFICES ASSUME NEW g \in Promise', ~made'[g].resumed
                 PROVE  /\ awaits'[made'[g].by] = g
                        /\ made'[g].name # Unnamed => fetching'[made'[g].name] = g
      BY DEF MakerAwaits
    <3>1. CASE g = Len(made) + 1
      BY <2>1, <2>2, <3>1 DEF Extended, TypeOK
    <3>2. CASE g \in Promise
      <4>1. made'[g] = made[g] /\ g # 0
        BY <2>2, <3>2 DEF Extended, Promise
      <4>2. /\ awaits[made[g].by] = g
            /\ made[g].name # Unnamed => fetching[made[g].name] = g
        BY <3>2, <4>1 DEF MakerAwaits
      <4>3. awaits'[made[g].by] = g
        BY <1>0, <2>1, <2>2, <3>2, <4>1, <4>2 DEF Extended
      <4>4. made[g].name # Unnamed => fetching'[made[g].name] = g
        BY <1>0, <2>1, <3>2, <4>1, <4>2 DEF TypeOK
      <4>5. QED
        BY <4>1, <4>3, <4>4
    <3>3. QED
      BY <2>2, <3>1, <3>2 DEF Extended, Promise
  <2>9. ResumedIsSettled'
    <3>1. \A g \in Promise' : g = Len(made) + 1 \/ g \in Promise
      BY <2>2 DEF Extended, Promise
    <3>2. QED
      BY <2>2, <3>1 DEF Extended, ResumedIsSettled
  <2>5. PendingIsStored'
    BY <2>8, <2>9 DEF PendingIsStored, MakerAwaits, ResumedIsSettled
  <2>3. QED
    BY <2>4, <2>5, <2>6, <2>7, <2>8, <2>9
<1>3. ASSUME NEW c \in Caller, NEW n \in Name, Join(c, n) PROVE IInv'
  BY <1>0, <1>3 DEF Join, TypeOK, PromiseType, PendingIsStored, StoredIsOpen,
     StoredUnderName, MakerAwaits, ResumedIsSettled, Promise
<1>4. ASSUME NEW c \in Caller, Share(c) PROVE IInv'
  BY <1>0, <1>4 DEF Share, TypeOK, PromiseType, PendingIsStored, StoredIsOpen,
     StoredUnderName, MakerAwaits, ResumedIsSettled, Promise
<1>5. ASSUME NEW h \in Promise, NEW s \in {"resolved", "rejected"}, Settle(h, s) PROVE IInv'
  <2>1. /\ made' = [made EXCEPT ![h].state = s] /\ made[h].state = "pending"
        /\ fetching' = fetching /\ awaits' = awaits
    BY <1>5 DEF Settle
  <2>2. Changed(h) /\ made'[h].state = s /\ made'[h].resumed = made[h].resumed
    BY <2>1, SettleKeeps
  <2>4. TypeOK'
    BY <2>1, <2>2 DEF TypeOK, Changed
  <2>6. StoredIsOpen'
    BY <1>0, <2>1, <2>2
       DEF Changed, TypeOK, Promise, StoredIsOpen
  <2>7. StoredUnderName'
    BY <1>0, <2>1, <2>2
       DEF Changed, TypeOK, Promise, StoredUnderName
  <2>8. MakerAwaits'
    BY <1>0, <2>1, <2>2
       DEF Changed, TypeOK, Promise, MakerAwaits
  <2>9. ResumedIsSettled'
    BY <1>0, <2>1, <2>2
       DEF Changed, TypeOK, Promise, ResumedIsSettled
  <2>5. PendingIsStored'
    BY <2>8, <2>9 DEF PendingIsStored, MakerAwaits, ResumedIsSettled
  <2>3. QED
    BY <2>4, <2>5, <2>6, <2>7, <2>8, <2>9
<1>6. ASSUME NEW h \in Promise, DoneFetching(h) PROVE IInv'
  <2>1. /\ made' = [made EXCEPT ![h].resumed = TRUE]
        /\ made[h].state = "resolved" /\ ~made[h].resumed
        /\ ClearName(h)
        /\ awaits' = [awaits EXCEPT ![made[h].by] = 0]
    BY <1>6 DEF DoneFetching
  <2>2. Changed(h) /\ made'[h].resumed /\ made'[h].state = made[h].state
    BY <2>1, ResumeKeeps
  <2>4. TypeOK'
    BY <2>1, <2>2 DEF Changed, PromiseType, TypeOK, ClearName, Promise
  <2>6. StoredIsOpen'
    <3> SUFFICES ASSUME NEW n \in Name, fetching'[n] # 0
                 PROVE  \/ ~made'[fetching'[n]].resumed
                        \/ made'[fetching'[n]].state = "rejected"
      BY DEF StoredIsOpen
    <3>1. fetching'[n] = fetching[n] /\ made[fetching[n]].name = n /\ fetching[n] \in Promise
      BY <2>1 DEF ClearName, TypeOK, StoredUnderName, Promise
    <3>2. fetching[n] # h
      BY <2>1, <3>1, RequestsAssumption DEF ClearName, TypeOK
    <3>3. QED
      BY <2>2, <3>1, <3>2 DEF Changed, StoredIsOpen
  <2>7. StoredUnderName'
    BY <1>0, <2>1, <2>2
       DEF Changed, TypeOK, Promise, ClearName, StoredUnderName
  <2>8. MakerAwaits'
    BY <1>0, <2>1, <2>2
       DEF Changed, TypeOK, Promise, ClearName, MakerAwaits
  <2>9. ResumedIsSettled'
    BY <1>0, <2>1, <2>2
       DEF Changed, TypeOK, Promise, ClearName, ResumedIsSettled
  <2>5. PendingIsStored'
    BY <2>8, <2>9 DEF PendingIsStored, MakerAwaits, ResumedIsSettled
  <2>3. QED
    BY <2>4, <2>5, <2>6, <2>7, <2>8, <2>9
<1>7. ASSUME NEW h \in Promise, Throw(h) PROVE IInv'
  <2>1. /\ made' = [made EXCEPT ![h].resumed = TRUE]
        /\ made[h].state = "rejected" /\ ~made[h].resumed
        /\ fetching' = fetching
        /\ awaits' = [awaits EXCEPT ![made[h].by] = 0]
    BY <1>7 DEF Throw
  <2>2. Changed(h) /\ made'[h].resumed /\ made'[h].state = made[h].state
    BY <2>1, ResumeKeeps
  <2>4. TypeOK'
    BY <2>1, <2>2 DEF Changed, PromiseType, TypeOK, Promise
  <2>6. StoredIsOpen'
    BY <1>0, <2>1, <2>2
       DEF Changed, TypeOK, Promise, StoredIsOpen
  <2>7. StoredUnderName'
    BY <1>0, <2>1, <2>2
       DEF Changed, TypeOK, Promise, StoredUnderName
  <2>8. MakerAwaits'
    BY <1>0, <2>1, <2>2
       DEF Changed, TypeOK, Promise, MakerAwaits
  <2>9. ResumedIsSettled'
    BY <1>0, <2>1, <2>2
       DEF Changed, TypeOK, Promise, ResumedIsSettled
  <2>5. PendingIsStored'
    BY <2>8, <2>9 DEF PendingIsStored, MakerAwaits, ResumedIsSettled
  <2>3. QED
    BY <2>4, <2>5, <2>6, <2>7, <2>8, <2>9
<1>8. CASE UNCHANGED vars
  BY <1>8 DEF vars, TypeOK, PendingIsStored, StoredIsOpen,
     StoredUnderName, MakerAwaits, ResumedIsSettled, Promise
<1>9. QED
  BY <1>1, <1>2, <1>3, <1>4, <1>5, <1>6, <1>7, <1>8 DEF Next, DoRequest

\* No request is made at first.
LEMMA RequestsStart == Init => IInv
  BY DEF Init, IInv, TypeOK, PendingIsStored, StoredIsOpen,
     StoredUnderName, MakerAwaits, ResumedIsSettled, Promise

\* IInv holds in every state of doRequest, whoever calls it and however the
\* requests end.
THEOREM RequestsInvariance == Spec => []IInv
  BY RequestsStart, Inductive, PTL DEF Spec

\* The store, the promises and the callers always have their types: no caller
\* awaits, and no name holds, a promise that was never made.
THEOREM TypeCorrect == Spec => []TypeOK
  BY RequestsInvariance, PTL DEF IInv

\* Two requests of one name are never in flight, and DONE_FETCHING of one never
\* deletes the promise of another.
THEOREM OneInFlight == Spec => []PendingIsStored
  BY RequestsInvariance, PTL DEF IInv

\* A name is kept after its request's end only if the request was rejected.
THEOREM KeptOnlyIfRejected == Spec => []StoredIsOpen
  BY RequestsInvariance, PTL DEF IInv
-----------------------------------------------------------------------------
(* The terminal. *)

TerminalSpec == TerminalInit /\ [][TerminalNext]_terminalVars

SocketType == [container : PodContainer \cup {NoContainer}, viewer : 1..(MaxSockets + 1),
               state : {"connecting", "open", "closing", "closed"}]

\* A viewer is numbered before it makes a socket, so a new one has none yet.
ViewersNumbered ==
  /\ Len(sockets) <= MaxSockets /\ viewer <= Len(sockets) + 1
  /\ \A i \in 1..Len(sockets) : sockets[i].viewer <= i

\* The mounted viewer has closed each of its sockets but the one it holds.
OthersReplaced ==
  viewer # 0 =>
    /\ current # 0 => sockets[current].viewer = viewer
    /\ \A i \in 1..Len(sockets) :
         sockets[i].viewer = viewer /\ i # current => sockets[i].state \in {"closing", "closed"}

\* Open, and connected to what is shown or about to be told of a close.
OpenHere ==
  viewer # 0 /\ open =>
    \/ current # 0 /\ sockets[current].state = "open" /\ sockets[current].container = terminalShown
    \/ \E i \in 1..Len(sockets) : sockets[i].viewer = viewer /\ sockets[i].state = "closing"

TerminalInv ==
  /\ TerminalTypeOK /\ ViewersNumbered /\ OthersReplaced /\ OpenHere
  /\ ~open => terminalShown = Null

\* The sockets, with socket i in the state st.
StateSet(new, i, st) ==
  /\ new \in Seq(SocketType) /\ Len(new) = Len(sockets) /\ Len(sockets) \in Nat
  /\ \A j \in 1..Len(sockets) :
       /\ sockets[j] \in SocketType
       /\ new[j].viewer = sockets[j].viewer /\ new[j].container = sockets[j].container
       /\ new[j].state = IF j = i THEN st ELSE sockets[j].state

\* What changing the state of one socket does to the others.
LEMMA SocketChanged ==
  ASSUME TerminalInv, NEW i \in 1..Len(sockets), NEW st \in {"connecting", "open", "closing", "closed"},
         NEW new, new = [sockets EXCEPT ![i].state = st]
  PROVE  StateSet(new, i, st)
<1>1. sockets \in Seq(SocketType)
  BY DEF TerminalInv, TerminalTypeOK, SocketType
<1>2. sockets[i] \in SocketType
  BY <1>1, ElementOfSeq
<1> DEFINE w == [sockets[i] EXCEPT !.state = st]
<1>3. w \in SocketType /\ w.viewer = sockets[i].viewer /\ w.container = sockets[i].container /\ w.state = st
  BY <1>2 DEF SocketType
<1>4. new = [sockets EXCEPT ![i] = w]
  OBVIOUS
<1> HIDE DEF w
<1>5. new \in Seq(SocketType) /\ Len(new) = Len(sockets) /\ \A j \in 1..Len(sockets) : new[j] = IF j = i THEN w ELSE sockets[j]
  BY <1>1, <1>3, <1>4, ExceptSeq
<1> QED BY <1>1, <1>3, <1>5, ElementOfSeq, LenProperties DEF StateSet

\* The open event of a socket: only the one the viewer holds still connects.
LEMMA OpenStep ==
  ASSUME TerminalInv, NEW i \in 1..Len(sockets), OnOpen(i) PROVE TerminalInv'
<1>1. sockets' = [sockets EXCEPT ![i].state = "open"]
  BY DEF OnOpen
<1>2. /\ sockets' \in Seq(SocketType) /\ Len(sockets') = Len(sockets) /\ Len(sockets) \in Nat
      /\ \A j \in 1..Len(sockets) :
           /\ sockets[j] \in SocketType
           /\ sockets'[j].viewer = sockets[j].viewer /\ sockets'[j].container = sockets[j].container
           /\ sockets'[j].state = IF j = i THEN "open" ELSE sockets[j].state
  <2>1. StateSet(sockets', i, "open")
    BY <1>1, SocketChanged
  <2> QED BY <2>1 DEF StateSet
<1>3. sockets[i].container \in PodContainer /\ sockets[i].state = "connecting"
  BY <1>2 DEF OnOpen, SocketType
<1>4. UNCHANGED <<selected, current, viewer, retries>>
  BY DEF OnOpen
<1>5. TerminalTypeOK'
  BY <1>2, <1>3, <1>4 DEF OnOpen, TerminalInv, TerminalTypeOK, SocketType
<1>6. ViewersNumbered'
  BY <1>2, <1>4 DEF TerminalInv, ViewersNumbered
<1>7. current \in 0..Len(sockets)
  BY DEF TerminalInv, TerminalTypeOK
<1>8. viewer # 0 /\ sockets[i].viewer = viewer => i = current
  BY <1>3 DEF TerminalInv, OthersReplaced
<1>9. OthersReplaced'
  BY <1>2, <1>4, <1>7, <1>8 DEF TerminalInv, OthersReplaced
<1>10. OpenHere' /\ (~open => terminalShown = Null)'
  <2>1. CASE sockets[i].viewer = viewer
    BY <1>2, <1>3, <1>4, <1>7, <1>8, <2>1 DEF OnOpen, OpenHere
  <2>2. CASE sockets[i].viewer # viewer
    <3>1. UNCHANGED <<open, terminalShown>>
      BY <2>2 DEF OnOpen
    <3>2. viewer # 0 /\ current # 0 => current # i
      BY <2>2 DEF TerminalInv, OthersReplaced
    <3>3. \A j \in 1..Len(sockets) : sockets[j].state = "closing" => sockets'[j].state = "closing"
      BY <1>2, <1>3
    <3> QED BY <1>2, <1>4, <1>7, <3>1, <3>2, <3>3 DEF TerminalInv, OpenHere
  <2> QED BY <2>1, <2>2
<1> QED BY <1>5, <1>6, <1>9, <1>10 DEF TerminalInv

\* The close event of a socket: of any socket of the viewer, also one it replaced.
LEMMA CloseStep ==
  ASSUME TerminalInv, NEW i \in 1..Len(sockets), NEW failed \in BOOLEAN, OnClose(i, failed) PROVE TerminalInv'
<1>1. sockets' = [sockets EXCEPT ![i].state = "closed"]
  BY DEF OnClose, OnError
<1>2. /\ sockets' \in Seq(SocketType) /\ Len(sockets') = Len(sockets) /\ Len(sockets) \in Nat
      /\ \A j \in 1..Len(sockets) :
           /\ sockets[j] \in SocketType
           /\ sockets'[j].viewer = sockets[j].viewer /\ sockets'[j].container = sockets[j].container
           /\ sockets'[j].state = IF j = i THEN "closed" ELSE sockets[j].state
  <2>1. StateSet(sockets', i, "closed")
    BY <1>1, SocketChanged
  <2> QED BY <2>1 DEF StateSet
<1>3. UNCHANGED <<selected, current, viewer>>
  BY DEF OnClose
<1>4. sockets[i].viewer \in 1..(MaxSockets + 1)
  BY <1>2 DEF SocketType
<1>5. TerminalTypeOK'
  BY <1>2, <1>3, <1>4 DEF OnClose, OnError, TerminalInv, TerminalTypeOK, SocketType
<1>6. ViewersNumbered'
  BY <1>2, <1>3 DEF TerminalInv, ViewersNumbered
<1>7. current \in 0..Len(sockets)
  BY DEF TerminalInv, TerminalTypeOK
<1>8. OthersReplaced'
  BY <1>2, <1>3, <1>7 DEF TerminalInv, OthersReplaced
<1>9. OpenHere' /\ (~open => terminalShown = Null)'
  <2>1. CASE sockets[i].viewer = viewer
    BY <2>1 DEF OnClose, OpenHere
  <2>2. CASE sockets[i].viewer # viewer
    <3>1. UNCHANGED <<open, terminalShown>>
      BY <2>2 DEF OnClose
    <3>2. viewer # 0 /\ current # 0 => current # i
      BY <2>2 DEF TerminalInv, OthersReplaced
    <3>3. \A j \in 1..Len(sockets) : sockets[j].viewer = viewer => sockets'[j].state = sockets[j].state
      BY <1>2, <2>2
    <3> QED BY <1>2, <1>3, <1>7, <3>1, <3>2, <3>3 DEF TerminalInv, OpenHere
  <2> QED BY <2>1, <2>2
<1> QED BY <1>5, <1>6, <1>8, <1>9 DEF TerminalInv

\* A new socket replaces the one the viewer holds.
LEMMA ReplaceStep ==
  ASSUME TerminalInv, OpenTerminal, retries' \subseteq retries PROVE TerminalInv'
<1> DEFINE old == IF current = 0 THEN sockets ELSE Destroyed(current)
           w == [container |-> selected, state |-> "connecting", viewer |-> viewer]
<1>1. sockets \in Seq(SocketType) /\ Len(sockets) \in Nat /\ current \in 0..Len(sockets) /\ MaxSockets \in Nat
  BY TerminalAssumption, LenProperties DEF TerminalAssumption, TerminalInv, TerminalTypeOK, SocketType
<1>2. viewer \in 1..(MaxSockets + 1) /\ viewer <= Len(sockets) + 1 /\ Len(sockets) < MaxSockets
  BY DEF OpenTerminal, TerminalInv, TerminalTypeOK, ViewersNumbered
<1>3. /\ old \in Seq(SocketType) /\ Len(old) = Len(sockets)
      /\ \A j \in 1..Len(sockets) :
           /\ sockets[j] \in SocketType
           /\ old[j].viewer = sockets[j].viewer /\ old[j].container = sockets[j].container
           /\ old[j].state = IF j # current \/ sockets[j].state = "closed" THEN sockets[j].state ELSE "closing"
  <2>1. CASE current = 0
    BY <1>1, <2>1, ElementOfSeq
  <2>2. CASE current # 0
    <3> DEFINE st == IF sockets[current].state = "closed" THEN "closed" ELSE "closing"
    <3>1. old = [sockets EXCEPT ![current].state = st]
      BY <2>2 DEF Destroyed
    <3> HIDE DEF old
    <3>2. current \in 1..Len(sockets) /\ st \in {"connecting", "open", "closing", "closed"}
      BY <1>1, <2>2
    <3>3. sockets[current].state = "closed" => st = sockets[current].state
      OBVIOUS
    <3>4. sockets[current].state # "closed" => st = "closing"
      OBVIOUS
    <3> HIDE DEF st
    <3>5. /\ old \in Seq(SocketType) /\ Len(old) = Len(sockets)
          /\ \A j \in 1..Len(sockets) :
              /\ sockets[j] \in SocketType
              /\ old[j].viewer = sockets[j].viewer /\ old[j].container = sockets[j].container
              /\ old[j].state = IF j = current THEN st ELSE sockets[j].state
      <4>1. StateSet(old, current, st)
        BY <3>1, <3>2, SocketChanged
      <4> QED BY <4>1 DEF StateSet
    <3> QED BY <3>3, <3>4, <3>5
  <2> QED BY <2>1, <2>2
<1>4. w \in SocketType /\ w.viewer = viewer /\ w.state = "connecting"
  BY <1>2 DEF TerminalInv, TerminalTypeOK, SocketType
<1>5. sockets' = Append(old, w) /\ current' = Len(sockets') /\ UNCHANGED <<selected, viewer, open, terminalShown>>
  BY DEF OpenTerminal
<1> HIDE DEF old, w
<1>6. /\ sockets' \in Seq(SocketType) /\ Len(sockets') = Len(sockets) + 1 /\ sockets'[Len(sockets) + 1] = w
      /\ \A j \in 1..Len(sockets) : sockets'[j] = old[j]
  BY <1>1, <1>3, <1>4, <1>5, AppendProperties
<1>7. current' = Len(sockets) + 1
  BY <1>5, <1>6
<1>8. TerminalTypeOK'
  BY <1>1, <1>2, <1>5, <1>6, <1>7 DEF TerminalInv, TerminalTypeOK, SocketType
<1>9. ViewersNumbered'
  BY <1>1, <1>2, <1>3, <1>4, <1>5, <1>6 DEF TerminalInv, ViewersNumbered
<1>10. OthersReplaced'
  <2>1. ASSUME NEW j \in 1..Len(sockets'), sockets'[j].viewer = viewer, j # current'
        PROVE  sockets'[j].state \in {"closing", "closed"}
    <3>1. j \in 1..Len(sockets)
      BY <1>1, <1>6, <1>7, <2>1
    <3>2. sockets[j].viewer = viewer /\ sockets'[j].state = old[j].state
      BY <1>3, <1>6, <2>1, <3>1
    <3> QED BY <1>2, <1>3, <3>1, <3>2 DEF TerminalInv, OthersReplaced, SocketType
  <2> QED BY <1>4, <1>5, <1>6, <1>7, <2>1 DEF OthersReplaced
<1>11. OpenHere'
  <2> SUFFICES ASSUME open PROVE \E j \in 1..Len(sockets') : sockets'[j].viewer = viewer /\ sockets'[j].state = "closing"
    BY <1>5 DEF OpenHere
  <2>1. viewer # 0
    BY <1>2
  <2>2. CASE current # 0 /\ sockets[current].state = "open"
    <3>1. current \in 1..Len(sockets) /\ sockets[current].viewer = viewer
      BY <1>1, <2>1, <2>2 DEF TerminalInv, OthersReplaced
    <3>2. sockets'[current].viewer = viewer /\ sockets'[current].state = "closing" /\ current \in 1..Len(sockets')
      BY <1>1, <1>3, <1>6, <2>2, <3>1
    <3> QED BY <3>2
  <2>3. CASE \E j \in 1..Len(sockets) : sockets[j].viewer = viewer /\ sockets[j].state = "closing"
    <3>1. PICK j \in 1..Len(sockets) : sockets[j].viewer = viewer /\ sockets[j].state = "closing"
      BY <2>3
    <3>2. sockets'[j].viewer = viewer /\ sockets'[j].state = "closing" /\ j \in 1..Len(sockets')
      BY <1>1, <1>3, <1>6, <3>1
    <3> QED BY <3>2
  <2> QED BY <2>1, <2>2, <2>3 DEF TerminalInv, OpenHere
<1> QED BY <1>5, <1>8, <1>9, <1>10, <1>11 DEF TerminalInv

\* Every step of the terminal keeps the invariant.
LEMMA TerminalStep == TerminalInv /\ [TerminalNext]_terminalVars => TerminalInv'
<1> SUFFICES ASSUME TerminalInv, [TerminalNext]_terminalVars PROVE TerminalInv'
  OBVIOUS
<1>1. ASSUME NEW c \in PodContainer \cup {NoContainer}, SelectTerminalFor(c) PROVE TerminalInv'
  BY <1>1 DEF SelectTerminalFor, TerminalInv, TerminalTypeOK, ViewersNumbered, OthersReplaced, OpenHere
<1>2. CASE HandleExec \/ TryAgain
  BY <1>2, ReplaceStep DEF HandleExec, TryAgain
<1>3. ASSUME NEW i \in DOMAIN sockets, OnOpen(i) \/ (\E failed \in BOOLEAN : OnClose(i, failed)) PROVE TerminalInv'
  <2>1. i \in 1..Len(sockets)
    BY LenProperties DEF TerminalInv, TerminalTypeOK
  <2> QED BY <1>3, <2>1, OpenStep, CloseStep
<1>4. CASE Unmount
  <2>1. 0 \in 0..(MaxSockets + 1) /\ \A n \in Nat : 0 <= n + 1
    BY TerminalAssumption DEF TerminalAssumption
  <2>2. Len(sockets) \in Nat
    BY LenProperties DEF TerminalInv, TerminalTypeOK
  <2> QED BY <1>4, <2>1, <2>2 DEF Unmount, TerminalInv, TerminalTypeOK, ViewersNumbered, OthersReplaced, OpenHere
<1>5. CASE MountTerminal
  <2>1. /\ viewer' = 1 + Len(sockets) /\ current' = 0 /\ open' = FALSE /\ terminalShown' = Null
        /\ Len(sockets) < MaxSockets /\ UNCHANGED <<selected, sockets, retries>>
    BY <1>5 DEF MountTerminal
  <2>2. Len(sockets) \in Nat /\ MaxSockets \in Nat
    BY TerminalAssumption, LenProperties DEF TerminalAssumption, TerminalInv, TerminalTypeOK
  <2>3. \A i \in 1..Len(sockets) : sockets[i].viewer \in 1..(MaxSockets + 1) /\ sockets[i].viewer <= i
    <3>1. sockets \in Seq(SocketType)
      BY DEF TerminalInv, TerminalTypeOK, SocketType
    <3>2. \A i \in 1..Len(sockets) : sockets[i] \in SocketType
      BY <3>1, ElementOfSeq
    <3> QED BY <3>2 DEF TerminalInv, ViewersNumbered, SocketType
  <2>4. \A i \in 1..Len(sockets) : sockets[i].viewer # 1 + Len(sockets)
    BY <2>2, <2>3
  <2>5. viewer' \in 0..(MaxSockets + 1) /\ viewer' <= Len(sockets) + 1 /\ 0 \in 0..Len(sockets)
    BY <2>1, <2>2
  <2>6. TerminalTypeOK'
    BY <2>1, <2>5 DEF TerminalInv, TerminalTypeOK
  <2>7. ViewersNumbered' /\ OthersReplaced' /\ OpenHere'
    BY <2>1, <2>4, <2>5 DEF TerminalInv, ViewersNumbered, OthersReplaced, OpenHere
  <2> QED BY <2>1, <2>6, <2>7 DEF TerminalInv
<1>6. CASE UNCHANGED terminalVars
  BY <1>6 DEF terminalVars, TerminalInv, TerminalTypeOK, ViewersNumbered, OthersReplaced, OpenHere
<1> QED BY <1>1, <1>2, <1>3, <1>4, <1>5, <1>6 DEF TerminalNext

\* No socket, and nothing open.
LEMMA TerminalStart == TerminalInit => TerminalInv
<1> SUFFICES ASSUME TerminalInit PROVE TerminalInv
  OBVIOUS
<1>1. sockets = <<>> /\ sockets \in Seq(SocketType) /\ Len(sockets) = 0 /\ MaxSockets \in Nat
  BY TerminalAssumption, EmptySeq DEF TerminalAssumption, TerminalInit
<1>2. 0 \in 0..0 /\ 1 \in 0..(MaxSockets + 1) /\ 1 <= 0 + 1 /\ 0 <= MaxSockets /\ 1..0 = {}
  BY <1>1
<1> QED
  BY <1>1, <1>2 DEF TerminalInit, TerminalInv, TerminalTypeOK, SocketType, ViewersNumbered, OthersReplaced, OpenHere

\* What the invariant is for.
LEMMA TerminalUsable == TerminalInv => OpenIsConnected /\ CanReopen
<1> SUFFICES ASSUME TerminalInv PROVE OpenIsConnected /\ CanReopen
  OBVIOUS
<1>1. DOMAIN sockets = 1..Len(sockets)
  BY LenProperties DEF TerminalInv, TerminalTypeOK
<1>2. selected # Null
  BY TerminalAssumption DEF TerminalAssumption, TerminalInv, TerminalTypeOK
<1> QED BY <1>1, <1>2 DEF TerminalInv, OpenHere, OpenIsConnected, OnInput, CanReopen

\* A terminal that is displayed as open is connected to the container it is displayed for,
\* or is about to receive the close event of a socket that was replaced.
THEOREM OpenIsConnectedAlways == TerminalSpec => []OpenIsConnected
  BY TerminalStart, TerminalStep, TerminalUsable, PTL DEF TerminalSpec

\* The play button of a terminal that is not open always opens one.
THEOREM CanReopenAlways == TerminalSpec => []CanReopen
  BY TerminalStart, TerminalStep, TerminalUsable, PTL DEF TerminalSpec
-----------------------------------------------------------------------------
(* The logs. *)

LogsSpec == LogsInit /\ [][LogsNext]_logVars

FollowerType == [container : Container, tries : 0..MaxTries, timer : BOOLEAN,
                 socket : {"connecting", "open", "closed", "none"}]

\* The followers have their types, and the one of a container is the one that may have a
\* socket.
FollowersOf(fs, fd) ==
  /\ fs \in Seq(FollowerType) /\ fd \in [Container -> 0..Len(fs)]
  /\ \A i \in 1..Len(fs) : fs[i].socket # "none" => fd[fs[i].container] = i

\* The buffer holds the last lines that were received.
BufferRecent ==
  /\ buffer \in Seq(Nat) /\ lines \in 0..MaxLines /\ Len(buffer) <= lines /\ Len(buffer) <= BufferSize
  /\ \A j \in 1..Len(buffer) : buffer[j] = lines - Len(buffer) + j

\* What was received since the last viewer are the last lines too, and the buffer holds
\* them or is full.
MissedRecent ==
  logsPage /\ ~logViewer =>
    \E m \in 0..lines : missed = (m + 1)..lines /\ (Len(buffer) = BufferSize \/ m + Len(buffer) >= lines)

LogTypes ==
  /\ podContainers = Undefined \/ podContainers \subseteq Container
  /\ running \subseteq Container /\ ready \subseteq Container /\ reported \subseteq Container
  /\ logsPage \in BOOLEAN /\ attached \in BOOLEAN /\ logViewer \in BOOLEAN /\ filtering \in BOOLEAN
  /\ logsShown \subseteq 1..lines /\ missed \subseteq 1..lines

LogsInv ==
  /\ LogTypes /\ FollowersOf(followers, followed)
  /\ \A i \in 1..Len(followers) : followers[i].socket # "none" => logsPage
  /\ BufferRecent /\ MissedRecent /\ QueuedLinesShown

\* SetToSeq lists every element of a finite set once.
LEMMA ListedOnce ==
  ASSUME NEW S, IsFiniteSet(S), NEW q, q = SetToSeq(S)
  PROVE  /\ q \in Seq(S) /\ Len(q) = Cardinality(S) /\ Len(q) \in Nat /\ DOMAIN q = 1..Len(q)
         /\ \A i, j \in 1..Len(q) : q[i] = q[j] => i = j
         /\ \A x \in S : \E i \in 1..Len(q) : q[i] = x
<1> DEFINE n == Cardinality(S)
<1>1. n \in Nat /\ ExistsBijection(1..n, S)
  BY FS_CardinalityType
<1>2. \E f \in [1..n -> S] : IsInjective(f)
  BY <1>1 DEF ExistsBijection, Bijection, Injection
<1>3. q \in [1..n -> S] /\ IsInjective(q)
  BY <1>2 DEF SetToSeq
<1>4. q \in Injection(1..n, S) /\ IsFiniteSet(1..n) /\ Cardinality(1..n) = n
  BY <1>1, <1>3, FS_Interval DEF Injection
<1>5. q \in Surjection(1..n, S)
  BY <1>4, FS_Injection
<1> HIDE DEF n
<1>6. q \in Seq(S) /\ Len(q) = n /\ DOMAIN q = 1..n
  BY <1>1, <1>3
<1> QED BY <1>1, <1>3, <1>5, <1>6 DEF IsInjective, Surjection, n

\* watchLogs leaves each follower that may have a socket to its container.
LEMMA WatchStep ==
  ASSUME NEW fd, FollowersOf(followers, fd), NEW pcs, NEW rs \in SUBSET Container, WatchLogs(pcs, rs, fd)
  PROVE  FollowersOf(followers', followed')
<1>1. CASE pcs = Undefined
  <2>1. followers' = followers /\ followed' = fd
    BY <1>1 DEF WatchLogs
  <2> QED BY <2>1
<1>2. CASE pcs # Undefined
  <2> DEFINE S == {c \in rs : fd[c] = 0}
             new == SetToSeq(S)
             gone == {fd[c] : c \in {d \in Container \ rs : fd[d] # 0}}
             n == Len(followers)
             kept == [i \in DOMAIN followers |-> IF i \in gone THEN Destroy(followers[i]) ELSE followers[i]]
             more == [i \in DOMAIN new |-> NewFollower(new[i])]
  <2>1. followers' = kept \o more
    BY <1>2 DEF WatchLogs
  <2>2. \A c \in Container :
          followed'[c] = IF c \notin rs THEN 0
                         ELSE IF fd[c] # 0 THEN fd[c] ELSE n + CHOOSE i \in DOMAIN new : new[i] = c
    BY <1>2 DEF WatchLogs
  <2>3. followed' = [c \in Container |-> followed'[c]]
    BY <1>2 DEF WatchLogs
  <2>4. followers \in Seq(FollowerType) /\ n \in Nat /\ DOMAIN followers = 1..n /\ fd \in [Container -> 0..n]
    BY LenProperties DEF FollowersOf
  <2>5. IsFiniteSet(S) /\ S \subseteq Container
    BY LogsAssumption, FS_Subset DEF LogsAssumption
  <2> HIDE DEF S
  <2>6. /\ new \in Seq(S) /\ Len(new) \in Nat /\ DOMAIN new = 1..Len(new)
        /\ \A i, j \in 1..Len(new) : new[i] = new[j] => i = j
        /\ \A x \in S : \E i \in 1..Len(new) : new[i] = x
    BY <2>5, ListedOnce
  <2> HIDE DEF new
  <2>7. \A i \in 1..Len(new) : new[i] \in S /\ new[i] \in Container
    BY <2>5, <2>6, ElementOfSeq
  <2>8. /\ kept \in Seq(FollowerType) /\ Len(kept) = n
        /\ \A i \in 1..n : kept[i].container = followers[i].container /\ followers[i].container \in Container
                            /\ kept[i].socket = IF i \in gone THEN "none" ELSE followers[i].socket
    <3>1. \A i \in 1..n : followers[i] \in FollowerType
      BY <2>4, ElementOfSeq
    <3>2. \A i \in 1..n : kept[i] = IF i \in gone THEN Destroy(followers[i]) ELSE followers[i]
      BY <2>4
    <3>3. \A i \in 1..n : Destroy(followers[i]) \in FollowerType /\ Destroy(followers[i]).socket = "none"
                           /\ Destroy(followers[i]).container = followers[i].container
      BY <3>1 DEF Destroy, FollowerType
    <3> HIDE DEF gone
    <3>4. kept \in [1..n -> FollowerType]
      BY <2>4, <3>1, <3>3
    <3>5. kept \in Seq(FollowerType) /\ Len(kept) = n
      BY <2>4, <3>4
    <3> HIDE DEF kept
    <3> QED BY <3>1, <3>2, <3>3, <3>5 DEF FollowerType
  <2>9. /\ more \in Seq(FollowerType) /\ Len(more) = Len(new)
        /\ \A i \in 1..Len(new) : more[i].container = new[i]
    <3>1. \A i \in 1..Len(new) : NewFollower(new[i]) \in FollowerType /\ NewFollower(new[i]).container = new[i]
      <4>1. 0 \in 0..MaxTries
        BY LogsAssumption DEF LogsAssumption
      <4> QED BY <2>7, <4>1 DEF NewFollower, FollowerType
    <3>2. more \in [1..Len(new) -> FollowerType]
      BY <2>6, <3>1
    <3>3. more \in Seq(FollowerType) /\ Len(more) = Len(new)
      BY <2>6, <3>2
    <3> QED BY <2>6, <3>1, <3>3
  <2> HIDE DEF kept, more, gone, n
  <2>10. /\ followers' \in Seq(FollowerType) /\ Len(followers') = n + Len(new)
         /\ \A i \in 1..(n + Len(new)) : followers'[i] = IF i <= n THEN kept[i] ELSE more[i - n]
    <3>1. kept \in Seq(FollowerType) /\ more \in Seq(FollowerType) /\ Len(kept) = n /\ Len(more) = Len(new)
      BY <2>8, <2>9
    <3>2. /\ kept \o more \in Seq(FollowerType) /\ Len(kept \o more) = Len(kept) + Len(more)
          /\ \A i \in 1..(Len(kept) + Len(more)) : (kept \o more)[i] = IF i <= Len(kept) THEN kept[i] ELSE more[i - Len(kept)]
      BY <3>1, ConcatProperties
    <3> QED BY <2>1, <3>1, <3>2
  <2>11. ASSUME NEW c \in Container, c \in rs, fd[c] = 0
         PROVE  \E i \in 1..Len(new) : new[i] = c /\ followed'[c] = n + i
    <3>1. c \in S
      BY <2>11 DEF S
    <3>2. (CHOOSE i \in DOMAIN new : new[i] = c) \in 1..Len(new) /\ new[CHOOSE i \in DOMAIN new : new[i] = c] = c
      BY <2>6, <3>1
    <3> DEFINE k == CHOOSE i \in DOMAIN new : new[i] = c
    <3>3. followed'[c] = n + k
      BY <2>2, <2>11 DEF n
    <3> QED BY <3>2, <3>3
  <2>12. followed' \in [Container -> 0..Len(followers')]
    <3>1. ASSUME NEW c \in Container PROVE followed'[c] \in 0..(n + Len(new))
      <4>1. CASE c \notin rs
        BY <2>2, <2>4, <2>6, <4>1
      <4>2. CASE c \in rs /\ fd[c] # 0
        <5>1. followed'[c] = fd[c] /\ fd[c] \in 0..n
          BY <2>2, <2>4, <4>2
        <5> QED BY <2>4, <2>6, <5>1
      <4>3. CASE c \in rs /\ fd[c] = 0
        BY <2>4, <2>6, <2>11, <4>3
      <4> QED BY <4>1, <4>2, <4>3
    <3> QED BY <2>3, <2>10, <3>1
  <2>13. ASSUME NEW i \in 1..Len(followers'), followers'[i].socket # "none"
         PROVE  followed'[followers'[i].container] = i
    <3>1. CASE i <= n
      <4>1. i \in 1..n /\ followers'[i] = kept[i]
        BY <2>4, <2>6, <2>10, <3>1
      <4>2. i \notin gone /\ followers[i].socket # "none" /\ followers'[i].container = followers[i].container
        BY <2>8, <2>13, <4>1
      <4> DEFINE c == followers[i].container
      <4>3. c \in Container /\ fd[c] = i /\ fd[c] # 0
        BY <2>4, <2>8, <4>1, <4>2 DEF FollowersOf, n
      <4>4. c \in rs
        BY <4>2, <4>3 DEF gone
      <4> QED BY <2>2, <4>2, <4>3, <4>4
    <3>2. CASE i > n
      <4>1. i - n \in 1..Len(new) /\ followers'[i] = more[i - n]
        BY <2>4, <2>6, <2>10, <3>2
      <4> DEFINE c == new[i - n]
      <4>2. followers'[i].container = c /\ c \in Container /\ c \in rs /\ fd[c] = 0
        BY <2>7, <2>9, <4>1 DEF S
      <4>3. PICK j \in 1..Len(new) : new[j] = c /\ followed'[c] = n + j
        BY <2>11, <4>2
      <4>4. j = i - n
        BY <2>6, <4>1, <4>3
      <4>5. n + j = i
        BY <2>4, <2>6, <2>10, <4>4
      <4> QED BY <4>2, <4>3, <4>5
    <3> QED BY <2>4, <2>6, <2>10, <3>1, <3>2
  <2> QED BY <2>10, <2>12, <2>13 DEF FollowersOf
<1> QED BY <1>1, <1>2

\* A step that leaves the display alone keeps what the invariant says of it.
LEMMA SameDisplay ==
  ASSUME LogsInv, UNCHANGED display, logsPage' = logsPage
  PROVE  BufferRecent' /\ MissedRecent' /\ QueuedLinesShown'
BY DEF LogsInv, display, BufferRecent, MissedRecent, QueuedLinesShown

\* A step that changes one follower, and opens no socket of one that has none.
LEMMA FollowerStep ==
  ASSUME LogsInv, NEW i \in 1..Len(followers), NEW w \in FollowerType,
         w.container = followers[i].container, w.socket # "none" => followers[i].socket # "none",
         followers' = [followers EXCEPT ![i] = w], reported' \subseteq Container,
         UNCHANGED <<podContainers, running, logsPage, ready, followed, display>>
  PROVE  LogsInv'
<1>1. followers \in Seq(FollowerType) /\ Len(followers) \in Nat
  BY LenProperties DEF LogsInv, FollowersOf
<1>2. /\ followers' \in Seq(FollowerType) /\ Len(followers') = Len(followers)
      /\ \A j \in 1..Len(followers) : followers'[j] = IF j = i THEN w ELSE followers[j]
  BY <1>1, ExceptSeq
<1>3. FollowersOf(followers', followed') /\ \A j \in 1..Len(followers') : followers'[j].socket # "none" => logsPage'
  BY <1>1, <1>2 DEF LogsInv, FollowersOf
<1>4. LogTypes'
  BY DEF LogsInv, LogTypes, display
<1> QED BY <1>3, <1>4, SameDisplay DEF LogsInv

\* The events of a socket and the timer of a reconnection.
LEMMA SocketStep ==
  ASSUME LogsInv, NEW i \in 1..Len(followers), OnLogOpen(i) \/ OnLogError(i) \/ StreamEnds(i) \/ Reload(i)
  PROVE  LogsInv'
<1> DEFINE f == followers[i]
<1>1. followers \in Seq(FollowerType) /\ f \in FollowerType
  BY ElementOfSeq DEF LogsInv, FollowersOf
<1>2. followers = [j \in DOMAIN followers |-> followers[j]] /\ i \in DOMAIN followers
  BY <1>1, LenProperties
<1>3. reported \subseteq Container /\ f.container \in Container
  BY <1>1 DEF LogsInv, LogTypes, FollowerType
<1>4. CASE OnLogOpen(i)
  <2> DEFINE w == [f EXCEPT !.socket = "open"]
  <2>1. w \in FollowerType /\ w.container = f.container /\ f.socket # "none" /\ followers' = [followers EXCEPT ![i] = w]
    BY <1>1, <1>2, <1>4 DEF OnLogOpen, FollowerType
  <2> HIDE DEF w
  <2> QED BY <1>3, <1>4, <2>1, FollowerStep DEF OnLogOpen
<1>5. CASE StreamEnds(i)
  <2> DEFINE w == [f EXCEPT !.socket = "closed"]
  <2>1. w \in FollowerType /\ w.container = f.container /\ f.socket # "none" /\ followers' = [followers EXCEPT ![i] = w]
    BY <1>1, <1>2, <1>5 DEF StreamEnds, FollowerType
  <2> HIDE DEF w
  <2> QED BY <1>3, <1>5, <2>1, FollowerStep DEF StreamEnds
<1>6. CASE Reload(i)
  <2> DEFINE st == IF f.socket = "none" THEN "none" ELSE "connecting"
             w == [[f EXCEPT !.timer = FALSE] EXCEPT !.socket = st]
  <2>1. st \in {"connecting", "none"} /\ (st # "none" => f.socket # "none")
    OBVIOUS
  <2>2. followers' = [followers EXCEPT ![i] = w]
    BY <1>1, <1>2, <1>6 DEF Reload, FollowerType
  <2> HIDE DEF st
  <2>3. w \in FollowerType /\ w.container = f.container /\ w.socket = st
    BY <1>1, <2>1 DEF FollowerType
  <2> HIDE DEF w
  <2> QED BY <1>3, <1>6, <2>1, <2>2, <2>3, FollowerStep DEF Reload
<1>7. CASE OnLogError(i) /\ f.tries < MaxTries
  <2> DEFINE w == [[[f EXCEPT !.socket = "closed"] EXCEPT !.tries = f.tries + 1] EXCEPT !.timer = TRUE]
  <2>1. f.tries + 1 \in 0..MaxTries
    BY <1>1, <1>7, LogsAssumption DEF FollowerType, LogsAssumption
  <2>2. w \in FollowerType /\ w.container = f.container
    BY <1>1, <2>1 DEF FollowerType
  <2>3. followers' = [followers EXCEPT ![i] = w]
    BY <1>1, <1>2, <1>7 DEF OnLogError, FollowerType
  <2> HIDE DEF w
  <2> QED BY <1>3, <1>7, <2>2, <2>3, FollowerStep DEF OnLogError
<1>8. CASE OnLogError(i) /\ ~(f.tries < MaxTries)
  <2> DEFINE w == Destroy(f)
  <2>1. w \in FollowerType /\ w.container = f.container /\ w.socket = "none" /\ followers' = [followers EXCEPT ![i] = w]
    BY <1>1, <1>2, <1>8 DEF OnLogError, Destroy, FollowerType
  <2> HIDE DEF w
  <2> QED BY <1>3, <1>8, <2>1, FollowerStep DEF OnLogError
<1> QED BY <1>4, <1>5, <1>6, <1>7, <1>8

\* A line arrives and is the newest of the buffer.
LEMMA EventStep ==
  ASSUME LogsInv, NEW i \in 1..Len(followers), NEW matches \in BOOLEAN, OnEvent(i, matches)
  PROVE  LogsInv'
<1>0. lines \in Nat /\ lines < MaxLines /\ MaxLines \in Nat /\ BufferSize \in Nat /\ lines' = lines + 1 /\ lines' \in 0..MaxLines
  BY LogsAssumption DEF LogsAssumption, LogsInv, BufferRecent, OnEvent
<1>1. UNCHANGED <<streams, attached, logViewer, filtering>> /\ logsPage
  BY DEF OnEvent, LogsInv
<1>2. FollowersOf(followers', followed') /\ \A j \in 1..Len(followers') : followers'[j].socket # "none" => logsPage'
  BY <1>1 DEF LogsInv, FollowersOf, streams
<1>3. logsShown \subseteq logsShown' /\ logsShown' \subseteq logsShown \cup {lines'} /\ missed' = IF logViewer THEN missed ELSE missed \cup {lines'}
  BY DEF OnEvent
<1>4. LogTypes'
  <2>1. 1..lines \subseteq 1..lines' /\ lines' \in 1..lines'
    BY <1>0
  <2> QED BY <1>1, <1>3, <2>1 DEF LogsInv, LogTypes, streams
<1> DEFINE b == Append(buffer, lines')
           n == Len(buffer)
<1>5. buffer \in Seq(Nat) /\ n \in Nat /\ n <= lines /\ n <= BufferSize /\ \A j \in 1..n : buffer[j] = lines - n + j
  BY LenProperties DEF LogsInv, BufferRecent
<1>6. lines' \in Nat /\ b \in Seq(Nat) /\ Len(b) = n + 1 /\ b[n + 1] = lines' /\ \A j \in 1..n : b[j] = buffer[j]
  BY <1>0, <1>5, AppendProperties
<1>7. buffer' = SubSeq(b, 1 + (IF Len(b) > BufferSize THEN Len(b) - BufferSize ELSE 0), Len(b))
  BY DEF OnEvent, Push
<1> HIDE DEF b
<1>8. \A j \in 1..(n + 1) : b[j] = lines - n + j
  <2>1. lines' = lines - n + (n + 1) /\ \A j \in 1..(n + 1) : j \in 1..n \/ j = n + 1
    BY <1>0, <1>5
  <2> QED BY <1>5, <1>6, <2>1
<1>9. CASE n < BufferSize
  <2>1. buffer' = b
    <3>1. buffer' = SubSeq(b, 1, Len(b))
      <4>1. ~(Len(b) > BufferSize)
        BY <1>0, <1>5, <1>6, <1>9
      <4> QED BY <1>7, <4>1
    <3> QED BY <1>6, <3>1, SubSeqFull
  <2>2. BufferRecent'
    <3>1. buffer' \in Seq(Nat) /\ Len(buffer') = n + 1 /\ n + 1 <= BufferSize /\ n + 1 <= lines'
      BY <1>0, <1>5, <1>6, <1>9, <2>1
    <3>2. \A j \in 1..(n + 1) : buffer'[j] = lines' - (n + 1) + j
      <4>1. lines' - (n + 1) = lines - n
        BY <1>0, <1>5
      <4> QED BY <1>8, <2>1, <4>1
    <3> QED BY <1>0, <3>1, <3>2 DEF BufferRecent
  <2>3. ASSUME ~logViewer PROVE MissedRecent'
    <3>1. PICK m \in 0..lines : missed = (m + 1)..lines /\ m + n >= lines
      BY <1>0, <1>1, <1>5, <1>9, <2>3 DEF LogsInv, MissedRecent
    <3>2. missed' = (m + 1)..lines' /\ m \in 0..lines' /\ m + (n + 1) >= lines'
      BY <1>0, <1>3, <1>5, <2>3, <3>1
    <3> QED BY <1>6, <2>1, <3>2 DEF MissedRecent
  <2> QED BY <2>2, <2>3, <1>1, <1>2, <1>3, <1>4 DEF LogsInv, MissedRecent, QueuedLinesShown
<1>10. CASE n = BufferSize
  <2>1. buffer' = SubSeq(b, 2, n + 1)
    BY <1>0, <1>5, <1>6, <1>7, <1>10
  <2>2. \A j \in 2..(n + 1) : b[j] \in Nat
    BY <1>0, <1>5, <1>8
  <2>3. buffer' \in Seq(Nat) /\ Len(buffer') = n /\ \A j \in 1..n : buffer'[j] = b[j + 1]
    <3>1. /\ SubSeq(b, 2, n + 1) \in Seq(Nat) /\ Len(SubSeq(b, 2, n + 1)) = IF 2 <= n + 1 THEN n + 1 - 2 + 1 ELSE 0
          /\ \A j \in 1..(n + 1 - 2 + 1) : SubSeq(b, 2, n + 1)[j] = b[2 + j - 1]
      BY <1>5, <2>2, SubSeqProperties
    <3>2. \A j \in 1..n : 2 + j - 1 = j + 1
      BY <1>5
    <3>3. n + 1 - 2 + 1 = n /\ (~(2 <= n + 1) => n = 0)
      BY <1>5
    <3> QED BY <2>1, <3>1, <3>2, <3>3
  <2>4. \A j \in 1..n : buffer'[j] = lines' - n + j
    BY <1>0, <1>5, <1>8, <2>3
  <2>5. BufferRecent'
    BY <1>0, <1>5, <1>10, <2>3, <2>4 DEF BufferRecent
  <2>6. ASSUME ~logViewer PROVE MissedRecent'
    <3>1. PICK m \in 0..lines : missed = (m + 1)..lines
      BY <1>1, <2>6 DEF LogsInv, MissedRecent
    <3>2. missed' = (m + 1)..lines' /\ m \in 0..lines'
      BY <1>0, <1>3, <2>6, <3>1
    <3> QED BY <1>10, <2>3, <3>2 DEF MissedRecent
  <2> QED BY <2>5, <2>6, <1>1, <1>2, <1>3, <1>4 DEF LogsInv, MissedRecent, QueuedLinesShown
<1> QED BY <1>0, <1>5, <1>9, <1>10

\* The viewer is mounted and shows what the buffer holds.
LEMMA ViewerMounts == ASSUME LogsInv, MountViewer PROVE LogsInv'
<1>1. /\ logsPage /\ ~logViewer /\ logViewer' = TRUE /\ filtering' = FALSE /\ attached' = TRUE
      /\ logsShown' = Range(buffer) /\ buffer' = <<>> /\ UNCHANGED <<streams, missed, lines>>
  BY DEF MountViewer
<1>2. /\ buffer \in Seq(Nat) /\ Len(buffer) \in Nat /\ lines \in 0..MaxLines /\ lines \in Nat /\ Len(buffer) <= lines
      /\ BufferSize \in Nat /\ \A j \in 1..Len(buffer) : buffer[j] = lines - Len(buffer) + j
  BY LenProperties, LogsAssumption DEF LogsAssumption, LogsInv, BufferRecent
<1>3. Range(buffer) = {buffer[j] : j \in 1..Len(buffer)}
  BY <1>2, RangeEquality
<1>4. \A l \in (lines - Len(buffer) + 1)..lines : l \in Range(buffer)
  <2> SUFFICES ASSUME NEW l \in (lines - Len(buffer) + 1)..lines PROVE l \in Range(buffer)
    OBVIOUS
  <2> DEFINE j == l - (lines - Len(buffer))
  <2>1. j \in 1..Len(buffer) /\ lines - Len(buffer) + j = l
    BY <1>2
  <2> HIDE DEF j
  <2> QED BY <1>2, <1>3, <2>1
<1>5. Range(buffer) \subseteq 1..lines
  BY <1>2, <1>3
<1>6. LogTypes'
  BY <1>1, <1>5 DEF LogsInv, LogTypes, streams
<1>7. BufferRecent'
  <2>1. buffer' \in Seq(Nat) /\ Len(buffer') = 0
    BY <1>1, EmptySeq
  <2> QED BY <1>1, <1>2, <2>1 DEF BufferRecent
<1>8. QueuedLinesShown'
  <2>1. PICK m \in 0..lines : missed = (m + 1)..lines /\ (Len(buffer) = BufferSize \/ m + Len(buffer) >= lines)
    BY <1>1 DEF LogsInv, MissedRecent
  <2> SUFFICES ASSUME NEW l \in missed, Cardinality({k \in missed : k > l}) < BufferSize PROVE l \in Range(buffer)
    BY <1>1 DEF QueuedLinesShown
  <2>2. l \in Int /\ l > m /\ l <= lines /\ m \in Nat
    BY <1>2, <2>1
  <2>3. {k \in missed : k > l} = (l + 1)..lines
    BY <1>2, <2>1, <2>2
  <2>4. Cardinality((l + 1)..lines) = lines - l
    <3>1. Cardinality((l + 1)..lines) = IF l + 1 > lines THEN 0 ELSE lines - (l + 1) + 1
      BY <1>2, <2>2, FS_Interval
    <3> QED BY <1>2, <2>2, <3>1
  <2>5. lines - l < BufferSize
    BY <2>3, <2>4
  <2>6. l \in (lines - Len(buffer) + 1)..lines
    BY <1>2, <2>1, <2>2, <2>5
  <2> QED BY <1>4, <2>6
<1>9. MissedRecent'
  BY <1>1 DEF MissedRecent
<1>10. FollowersOf(followers', followed') /\ \A j \in 1..Len(followers') : followers'[j].socket # "none" => logsPage'
  BY <1>1 DEF LogsInv, FollowersOf, streams
<1> QED BY <1>6, <1>7, <1>8, <1>9, <1>10 DEF LogsInv

\* Nothing was missed by the viewer that leaves, or by a page that is opened.
LEMMA NothingMissed ==
  ASSUME LogsInv, missed' = {}, lines' = lines, logViewer' = FALSE, Len(buffer') \in Nat
  PROVE  MissedRecent' /\ QueuedLinesShown'
<1>1. lines \in Nat
  BY DEF LogsInv, BufferRecent
<1>2. (lines + 1)..lines = {} /\ lines \in 0..lines /\ lines + Len(buffer') >= lines
  BY <1>1
<1> QED BY <1>1, <1>2 DEF MissedRecent, QueuedLinesShown

\* Every step of the logs keeps the invariant.
LEMMA LogsStep == LogsInv /\ [LogsNext]_logVars => LogsInv'
<1> SUFFICES ASSUME LogsInv, [LogsNext]_logVars PROVE LogsInv'
  OBVIOUS
<1>0. /\ followers \in Seq(FollowerType) /\ Len(followers) \in Nat /\ DOMAIN followers = 1..Len(followers)
      /\ followed \in [Container -> 0..Len(followers)] /\ buffer \in Seq(Nat) /\ Len(buffer) \in Nat
  BY LenProperties DEF LogsInv, FollowersOf, BufferRecent
<1>1. ASSUME NEW cs \in SUBSET Container, SelectLogsFor(cs) PROVE LogsInv'
  <2>1. LogTypes'
    BY <1>1 DEF SelectLogsFor, LogsInv, LogTypes, display
  <2>2. BufferRecent' /\ MissedRecent' /\ QueuedLinesShown' /\ logsPage' = logsPage
    BY <1>1, SameDisplay DEF SelectLogsFor
  <2>3. CASE logsPage
    <3>1. FollowersOf(followers', followed')
      BY <1>1, <2>3, WatchStep DEF SelectLogsFor, LogsInv, LogTypes
    <3> QED BY <2>1, <2>2, <2>3, <3>1 DEF LogsInv
  <2>4. CASE ~logsPage
    BY <1>1, <2>1, <2>2, <2>4 DEF SelectLogsFor, LogsInv
  <2> QED BY <2>3, <2>4
<1>2. ASSUME NEW cs \in SUBSET Container, PodChanged(cs) PROVE LogsInv'
  <2>1. LogTypes' /\ ready' \subseteq Container
    BY <1>2 DEF PodChanged, LogsInv, LogTypes, display, FilterReadyContainers
  <2>2. BufferRecent' /\ MissedRecent' /\ QueuedLinesShown' /\ logsPage' = logsPage
    BY <1>2, SameDisplay DEF PodChanged
  <2>3. CASE logsPage
    <3>1. FollowersOf(followers', followed')
      BY <1>2, <2>1, <2>3, WatchStep DEF PodChanged, LogsInv
    <3> QED BY <2>1, <2>2, <2>3, <3>1 DEF LogsInv
  <2>4. CASE ~logsPage
    BY <1>2, <2>1, <2>2, <2>4 DEF PodChanged, LogsInv
  <2> QED BY <2>3, <2>4
<1>3. CASE Invalidate
  <2>1. LogTypes' /\ UNCHANGED <<logsPage, followers, followed, display>>
    BY <1>3 DEF Invalidate, LogsInv, LogTypes, display
  <2> QED BY <2>1, SameDisplay DEF LogsInv
<1>4. CASE MountPage
  <2> DEFINE fd == [c \in Container |-> 0]
  <2>1. FollowersOf(followers, fd)
    BY <1>0, <1>4 DEF LogsInv, FollowersOf, MountPage
  <2>2. LogTypes' /\ ready' \subseteq Container
    BY <1>4 DEF MountPage, LogsInv, LogTypes, FilterReadyContainers
  <2>3. WatchLogs(podContainers, ready', fd)
    BY <1>4 DEF MountPage
  <2> HIDE DEF fd
  <2>4. FollowersOf(followers', followed')
    BY <2>1, <2>2, <2>3, WatchStep
  <2>5. /\ buffer' = <<>> /\ buffer' \in Seq(Nat) /\ Len(buffer') = 0 /\ lines' = lines /\ missed' = {}
        /\ logsPage' = TRUE /\ logViewer' = logViewer
    BY <1>4, EmptySeq DEF MountPage
  <2>6. BufferRecent'
    BY <2>5, LogsAssumption DEF LogsAssumption, LogsInv, BufferRecent
  <2>7. MissedRecent' /\ QueuedLinesShown'
    <3>1. CASE logViewer
      BY <2>5, <3>1 DEF MissedRecent, QueuedLinesShown
    <3>2. CASE ~logViewer
      BY <2>5, <3>2, NothingMissed DEF LogsInv, LogTypes
    <3> QED BY <3>1, <3>2
  <2> QED BY <2>2, <2>4, <2>5, <2>6, <2>7 DEF LogsInv
<1>5. CASE UnmountPage
  <2> DEFINE dropped == {i \in DOMAIN followers : \E c \in Container : followed[c] = i}
  <2>1. followers' = [i \in DOMAIN followers |-> IF i \in dropped THEN Destroy(followers[i]) ELSE followers[i]]
    BY <1>5 DEF UnmountPage
  <2>2. \A i \in 1..Len(followers) : followers[i] \in FollowerType
    BY <1>0, ElementOfSeq
  <2>3. \A i \in 1..Len(followers) : Destroy(followers[i]) \in FollowerType /\ Destroy(followers[i]).socket = "none"
    BY <2>2 DEF Destroy, FollowerType
  <2>4. \A i \in 1..Len(followers) : i \notin dropped => followers[i].socket = "none"
    BY <1>0, <2>2 DEF LogsInv, FollowersOf, FollowerType
  <2> HIDE DEF dropped
  <2>5. followers' \in [1..Len(followers) -> FollowerType]
    BY <1>0, <2>1, <2>2, <2>3
  <2>6. followers' \in Seq(FollowerType) /\ Len(followers') = Len(followers)
    BY <1>0, <2>5
  <2>7. \A i \in 1..Len(followers) : followers'[i].socket = "none"
    BY <1>0, <2>1, <2>3, <2>4
  <2>8. FollowersOf(followers', followed')
    BY <1>0, <1>5, <2>6, <2>7 DEF UnmountPage, FollowersOf
  <2>9. LogTypes' /\ BufferRecent' /\ MissedRecent' /\ QueuedLinesShown'
    BY <1>5 DEF UnmountPage, LogsInv, LogTypes, BufferRecent, MissedRecent, QueuedLinesShown
  <2> QED BY <2>6, <2>7, <2>8, <2>9 DEF LogsInv
<1>6. ASSUME NEW i \in DOMAIN followers,
             OnLogOpen(i) \/ OnLogError(i) \/ StreamEnds(i) \/ Reload(i) \/ \E m \in BOOLEAN : OnEvent(i, m)
      PROVE  LogsInv'
  BY <1>0, <1>6, SocketStep, EventStep
<1>7. ASSUME NEW c \in Container, Retry(c) PROVE LogsInv'
  <2>1. LogTypes' /\ UNCHANGED <<logsPage, followers, followed, display>>
    BY <1>7 DEF Retry, LogsInv, LogTypes, display
  <2> QED BY <2>1, SameDisplay DEF LogsInv
<1>8. CASE MountViewer
  BY <1>8, ViewerMounts
<1>9. CASE UnmountViewer
  <2>1. LogTypes' /\ BufferRecent' /\ UNCHANGED <<logsPage, followers, followed>>
    BY <1>9 DEF UnmountViewer, LogsInv, LogTypes, BufferRecent, streams
  <2>2. MissedRecent' /\ QueuedLinesShown'
    BY <1>0, <1>9, NothingMissed DEF UnmountViewer
  <2> QED BY <2>1, <2>2 DEF LogsInv
<1>10. CASE ToggleFilter
  <2>1. LogTypes' /\ UNCHANGED <<logsPage, followers, followed>>
    BY <1>10 DEF ToggleFilter, LogsInv, LogTypes, streams
  <2>2. BufferRecent' /\ MissedRecent' /\ QueuedLinesShown'
    BY <1>10 DEF ToggleFilter, LogsInv, BufferRecent, MissedRecent, QueuedLinesShown, streams
  <2> QED BY <2>1, <2>2 DEF LogsInv
<1>11. CASE UNCHANGED logVars
  <2>1. LogTypes' /\ UNCHANGED <<logsPage, followers, followed, display>>
    BY <1>11 DEF logVars, streams, display, LogsInv, LogTypes
  <2> QED BY <2>1, SameDisplay DEF LogsInv
<1> QED BY <1>1, <1>2, <1>3, <1>4, <1>5, <1>6, <1>7, <1>8, <1>9, <1>10, <1>11 DEF LogsNext

\* Nothing is followed or shown at first.
LEMMA LogsStart == LogsInit => LogsInv
<1> SUFFICES ASSUME LogsInit PROVE LogsInv
  OBVIOUS
<1>1. followers = <<>> /\ followers \in Seq(FollowerType) /\ Len(followers) = 0 /\ buffer = <<>> /\ buffer \in Seq(Nat) /\ Len(buffer) = 0
  BY EmptySeq DEF LogsInit
<1>2. 0 \in 0..0 /\ 0 \in 0..MaxLines /\ 0 <= 0 /\ 0 <= BufferSize /\ 1..0 = {}
  BY LogsAssumption DEF LogsAssumption
<1>3. FollowersOf(followers, followed)
  BY <1>1, <1>2 DEF LogsInit, FollowersOf
<1>4. BufferRecent
  BY <1>1, <1>2 DEF LogsInit, BufferRecent
<1>5. LogTypes /\ MissedRecent /\ QueuedLinesShown
  BY <1>1, <1>2 DEF LogsInit, LogTypes, MissedRecent, QueuedLinesShown
<1> QED BY <1>1, <1>2, <1>3, <1>4, <1>5 DEF LogsInv

\* What the invariant is for.
LEMMA LogsRight == LogsInv => LogsTypeOK /\ DroppedStaysClosed /\ QueuedLinesShown
<1> SUFFICES ASSUME LogsInv PROVE LogsTypeOK /\ DroppedStaysClosed
  BY DEF LogsInv
<1>1. followers \in Seq(FollowerType) /\ DOMAIN followers = 1..Len(followers) /\ followed \in [Container -> 0..Len(followers)]
  BY LenProperties DEF LogsInv, FollowersOf
<1>2. DroppedStaysClosed
  BY <1>1 DEF LogsInv, FollowersOf, DroppedStaysClosed
<1>3. buffer \in Seq(Nat) /\ lines \in Nat /\ Len(buffer) \in Nat /\ Len(buffer) <= lines
  BY LenProperties DEF LogsInv, BufferRecent
<1>4. Range(buffer) \subseteq 1..lines
  <2>1. Range(buffer) = {buffer[j] : j \in 1..Len(buffer)}
    BY <1>3, RangeEquality
  <2>2. \A j \in 1..Len(buffer) : buffer[j] = lines - Len(buffer) + j
    BY DEF LogsInv, BufferRecent
  <2> QED BY <1>3, <2>1, <2>2
<1>5. Len(buffer) <= BufferSize /\ lines \in 0..MaxLines
  BY DEF LogsInv, BufferRecent
<1> QED BY <1>1, <1>2, <1>4, <1>5 DEF LogsInv, LogTypes, LogsTypeOK, FollowerType

\* A follower that was dropped, or whose page is gone, has no socket again, whatever its
\* timer does.
THEOREM DroppedStaysClosedAlways == LogsSpec => []DroppedStaysClosed
  BY LogsStart, LogsStep, LogsRight, PTL DEF LogsSpec

\* A viewer shows what arrived while there was none, as far as the buffer reaches back,
\* for any size of the buffer and any number of lines.
THEOREM QueuedLinesShownAlways == LogsSpec => []QueuedLinesShown
  BY LogsStart, LogsStep, LogsRight, PTL DEF LogsSpec
-----------------------------------------------------------------------------
(* The page of one resource. *)

Objects == [InfoKey -> Statuses \union {"absent"}]
Picked == [key : InfoKey, status : Statuses] \union {Nothing}

\* What a page renders is one of the views.
LEMMA Rendered ==
  ASSUME NEW res, NEW fetched
  PROVE  /\ WorkloadInfoRender(res, fetched) \in {"none", "loading", "loadingPage", "page", "notFound"}
         /\ AccessControlsInfoRender(res, fetched) \in {"none", "loading", "loadingPage", "page", "notFound"}
BY DEF WorkloadInfoRender, AccessControlsInfoRender

\* A change of the store keeps the types, and so does what the open page makes of it.
LEMMA ReceiveTypes ==
  ASSUME InfoTypeOK, NEW usr \in BOOLEAN, NEW objs \in Objects, NEW res \in Picked, NEW page \in Pages \union {Nothing},
         NEW ask, NEW done \in InfoKey \union {Nothing}, ReceiveStore(usr, objs, res, page, ask, done), lost' \in BOOLEAN
  PROVE  InfoTypeOK'
<1>1. user' = usr /\ infoObjects' = objs /\ picked' = res /\ infoPage' = page
  BY DEF ReceiveStore
<1>2. asking' \in InfoKey \union {Nothing}
  BY DEF ReceiveStore, EnsureResource, Pages
<1>3. view' \in {"none", "loading", "loadingPage", "page", "notFound"}
  <2>1. \/ view' = "none" \/ view' = view
        \/ \E b : view' = WorkloadInfoRender(res, b) \/ view' = AccessControlsInfoRender(res, b)
    BY DEF ReceiveStore, ClusterInfoRender
  <2> QED BY <2>1, Rendered DEF InfoTypeOK
<1> QED BY <1>1, <1>2, <1>3 DEF InfoTypeOK, Objects, Picked

\* The selection of a fetched resource.
LEMMA SelectTypes ==
  ASSUME InfoTypeOK, asking # Nothing, NEW usr \in BOOLEAN, NEW objs \in Objects, NEW res \in Picked,
         NEW page \in Pages \union {Nothing}, SelectIn(usr, objs, res, page), lost' \in BOOLEAN
  PROVE  InfoTypeOK'
<1> DEFINE new == IF ResourceMatchesParams(res, asking, TRUE) THEN res ELSE DoSelectResource(objs, asking)
           with == IF new = res THEN objs ELSE [objs EXCEPT ![asking] = new.status]
<1>1. asking \in InfoKey
  BY DEF InfoTypeOK
<1>2. DoSelectResource(objs, asking) \in Picked /\ DoSelectResource(objs, asking).status \in Statuses
  BY <1>1 DEF DoSelectResource, Picked, Objects, Statuses
<1>3. new \in Picked /\ (new # res => new.status \in Statuses)
  BY <1>2
<1>4. ReceiveStore(usr, with, new, page, asking, Nothing)
  BY DEF SelectIn
<1> HIDE DEF new
<1>5. with \in Objects
  BY <1>1, <1>3 DEF Objects
<1> HIDE DEF with
<1> QED BY <1>3, <1>4, <1>5, ReceiveTypes

\* Every step of a page keeps the types.
LEMMA InfoStep == InfoTypeOK /\ [InfoNext]_infoVars => InfoTypeOK'
<1> SUFFICES ASSUME InfoTypeOK, [InfoNext]_infoVars PROVE InfoTypeOK'
  OBVIOUS
<1>0. /\ user \in BOOLEAN /\ infoObjects \in Objects /\ picked \in Picked /\ infoPage \in Pages \union {Nothing}
      /\ asking \in InfoKey \union {Nothing} /\ lost \in BOOLEAN /\ NoObjects \in Objects
  BY DEF InfoTypeOK, Objects, Picked, NoObjects
<1>1. ASSUME NEW page \in Pages, Open(page) PROVE InfoTypeOK'
  BY <1>0, <1>1, ReceiveTypes DEF Open
<1>2. CASE Leave
  BY <1>0, <1>2, ReceiveTypes DEF Leave
<1>3. CASE SignIn
  BY <1>0, <1>3, ReceiveTypes DEF SignIn
<1>4. CASE InvalidateSession
  <2> DEFINE none == Nothing
  <2>1. none \in Picked /\ none \in Pages \union {Nothing}
    BY DEF Picked
  <2>2. ReceiveStore(FALSE, NoObjects, none, none, asking, asking) /\ lost' = lost
    BY <1>4 DEF InvalidateSession
  <2> QED BY <1>0, <2>1, <2>2, ReceiveTypes
<1>5. ASSUME NEW found \in SUBSET InfoKey PROVE WithListed(found) \in Objects
  BY <1>0 DEF WithListed, Objects, Statuses
<1>6. CASE RequestResources
  BY <1>0, <1>5, <1>6, ReceiveTypes DEF RequestResources
<1>7. CASE FetchResource
  <2>1. asking # Nothing /\ lost' \in BOOLEAN
    BY <1>0, <1>7 DEF FetchResource
  <2>2. Nothing \in Picked /\ FALSE \in BOOLEAN
    BY DEF Picked
  <2>3. CASE SelectIn(user, infoObjects, picked, infoPage)
    BY <1>0, <2>1, <2>3, SelectTypes
  <2>4. ASSUME NEW found \in SUBSET InfoKey, SelectIn(user, WithListed(found), picked, infoPage) PROVE InfoTypeOK'
    BY <1>0, <1>5, <2>1, <2>4, SelectTypes
  <2>5. CASE SelectIn(FALSE, NoObjects, Nothing, Nothing)
    BY <1>0, <2>1, <2>2, <2>5, SelectTypes
  <2> QED BY <1>7, <2>3, <2>4, <2>5 DEF FetchResource
<1>8. CASE LoseRequest
  BY <1>8 DEF LoseRequest, InfoTypeOK
<1>9. ASSUME NEW k \in InfoKey, PutSelected(k) PROVE InfoTypeOK'
  <2> DEFINE new == [key |-> k, status |-> "live"]
             objs == [infoObjects EXCEPT ![k] = "live"]
             res == IF picked # Nothing /\ SameResource(picked, new) THEN new ELSE picked
  <2>1. new \in Picked /\ objs \in Objects
    BY <1>0 DEF Picked, Objects, Statuses
  <2>2. ReceiveStore(user, objs, res, infoPage, asking, asking) /\ lost' = lost
    BY <1>9 DEF PutSelected
  <2>3. res \in Picked
    BY <1>0, <2>1
  <2> HIDE DEF objs, res
  <2> QED BY <1>0, <2>1, <2>2, <2>3, ReceiveTypes
<1>10. ASSUME NEW k \in InfoKey, RemoveSelected(k) PROVE InfoTypeOK'
  <2> DEFINE objs == IF infoObjects[k] = "live" THEN [infoObjects EXCEPT ![k] = "deleted"] ELSE infoObjects
             res == IF picked # Nothing /\ picked.key = k /\ picked.status # "placeholder" THEN Nothing ELSE picked
  <2>1. res \in Picked /\ objs \in Objects
    BY <1>0 DEF Picked, Objects, Statuses
  <2>2. ReceiveStore(user, objs, res, infoPage, asking, asking) /\ lost' = lost
    BY <1>10 DEF RemoveSelected
  <2> HIDE DEF objs, res
  <2> QED BY <1>0, <2>1, <2>2, ReceiveTypes
<1>11. CASE UNCHANGED infoVars
  BY <1>11 DEF infoVars, InfoTypeOK
<1> QED BY <1>1, <1>2, <1>3, <1>4, <1>6, <1>7, <1>8, <1>9, <1>10, <1>11 DEF InfoNext
-----------------------------------------------------------------------------
(* The parts together. *)

AsyncInv == IInv /\ TerminalInv /\ LogsInv /\ InfoTypeOK

\* The invariants of the parts hold together, whichever takes steps.
THEOREM AsyncInvariance == AsyncSpec => []AsyncInv
<1>1. AsyncInit => AsyncInv
  <2>1. InfoInit => InfoTypeOK
    BY DEF InfoInit, InfoTypeOK, NoObjects
  <2> QED BY <2>1, RequestsStart, TerminalStart, LogsStart DEF AsyncInit, AsyncInv
<1>2. AsyncInv /\ [AsyncNext]_<<part, requestVars, terminalVars, logVars, infoVars>> => AsyncInv'
  <2> SUFFICES ASSUME AsyncInv, [AsyncNext]_<<part, requestVars, terminalVars, logVars, infoVars>> PROVE AsyncInv'
    OBVIOUS
  <2>1. [Next]_vars /\ [TerminalNext]_terminalVars /\ [LogsNext]_logVars /\ [InfoNext]_infoVars
    BY DEF AsyncNext, requestVars
  <2> QED BY <2>1, Inductive, TerminalStep, LogsStep, InfoStep DEF AsyncInv
<1> QED BY <1>1, <1>2, PTL DEF AsyncSpec

\* Every variable of these parts keeps its type, for any callers, containers, lines and
\* resources.
THEOREM AsyncTypes == AsyncSpec => []AsyncTypeOK
<1>1. AsyncInv => AsyncTypeOK
  BY LogsRight DEF AsyncInv, AsyncTypeOK, IInv, TerminalInv
<1> QED BY <1>1, AsyncInvariance, PTL

\* Terminals and logs stay usable: what is shown as open is connected, what is closed can
\* be opened again, dropped followers stay closed and queued lines are shown.
THEOREM StreamsUsableAlways == AsyncSpec => []StreamsUsable
<1>1. AsyncInv => StreamsUsable
  BY TerminalUsable, LogsRight DEF AsyncInv, StreamsUsable
<1> QED BY <1>1, AsyncInvariance, PTL
==============================================================================
