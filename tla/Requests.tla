------------------------------ MODULE Requests ------------------------------
(***************************************************************************)
(* doRequest of the browser application (state/actions/requests.js) with   *)
(* the reducer that stores the promises in flight by name.  The code up to *)
(* the await runs without interruption; what follows it runs when the      *)
(* promise settles, the caller that made the promise first, for its await  *)
(* was registered first.                                                   *)
(***************************************************************************)
EXTENDS Naturals, Sequences

CONSTANTS Caller,      \* the thunks that call doRequest
          Name,        \* the names requests are made under
          Unnamed,     \* stands for a call without a name
          MaxRequests  \* bounds the promises made in a behaviour

ASSUME RequestsAssumption == Unnamed \notin Name /\ MaxRequests \in Nat

VARIABLES fetching,  \* state.requests.fetching: the promise of each name, 0 for none
          made,      \* the promises made: under which name, by whom, and how they stand
          awaits     \* the promise each caller awaits, 0 for none

vars == <<fetching, made, awaits>>

Promise == 1..Len(made)

\* The store starts with nothing in flight.
Init ==
  /\ fetching = [n \in Name |-> 0]
  /\ made = <<>>
  /\ awaits = [c \in Caller |-> 0]

\* requestHandle = sleep(fetchBackoff).then(request), awaited at once.
Make(c, n) ==
  /\ Len(made) < MaxRequests
  /\ made' = Append(made, [name |-> n, by |-> c, state |-> "pending", resumed |-> FALSE])
  /\ awaits' = [awaits EXCEPT ![c] = Len(made) + 1]

\* A new request without a look at the store.
StartAlways(c, n) ==
  /\ awaits[c] = 0
  /\ Make(c, n)
  /\ fetching' = [fetching EXCEPT ![n] = Len(made) + 1]

\* START_FETCHING is dispatched and the request is not made.
StartUnmade(c, n) ==
  /\ awaits[c] = 0
  /\ fetching[n] = 0
  /\ fetching' = [fetching EXCEPT ![n] = Len(made) + 1]
  /\ UNCHANGED <<made, awaits>>

\* No promise under this name: a new request, and START_FETCHING.
Start(c, n) ==
  /\ awaits[c] = 0
  /\ fetching[n] = 0
  /\ Make(c, n)
  /\ fetching' = [fetching EXCEPT ![n] = Len(made) + 1]

\* A promise is stored under this name: the caller shares it.
Join(c, n) ==
  /\ awaits[c] = 0
  /\ fetching[n] # 0
  /\ awaits' = [awaits EXCEPT ![c] = fetching[n]]
  /\ UNCHANGED <<fetching, made>>

\* A call with a function in place of the name is never stored.
CallUnnamed(c) ==
  /\ awaits[c] = 0
  /\ Make(c, Unnamed)
  /\ UNCHANGED fetching

\* The request's own promise resolves or rejects.
Settle(h, outcome) ==
  /\ made[h].state = "pending"
  /\ made' = [made EXCEPT ![h].state = outcome]
  /\ UNCHANGED <<fetching, awaits>>

\* The name is left in the store.
KeepName(h) == UNCHANGED fetching

\* DONE_FETCHING deletes what the store holds under the name.
ClearName(h) ==
  fetching' = IF made[h].name = Unnamed THEN fetching
                                        ELSE [fetching EXCEPT ![made[h].name] = 0]

\* The caller that made the promise resumes with its result.
DoneFetching(h) ==
  /\ made[h].state = "resolved" /\ ~made[h].resumed
  /\ ClearName(h)
  /\ made' = [made EXCEPT ![h].resumed = TRUE]
  /\ awaits' = [awaits EXCEPT ![made[h].by] = 0]

\* The await of the caller that made the promise throws: no DONE_FETCHING.
Throw(h) ==
  /\ made[h].state = "rejected" /\ ~made[h].resumed
  /\ made' = [made EXCEPT ![h].resumed = TRUE]
  /\ awaits' = [awaits EXCEPT ![made[h].by] = 0]
  /\ UNCHANGED fetching

\* Every caller that finds its promise settled clears the name.
ShareAndClear(c) ==
  /\ awaits[c] # 0
  /\ made[awaits[c]].resumed
  /\ awaits' = [awaits EXCEPT ![c] = 0]
  /\ ClearName(awaits[c])
  /\ UNCHANGED made

\* A caller comes back for the promise that is stored then.
ShareIfStored(c) ==
  /\ awaits[c] # 0
  /\ made[awaits[c]].resumed
  /\ \E n \in Name : fetching[n] = awaits[c]
  /\ awaits' = [awaits EXCEPT ![c] = 0]
  /\ UNCHANGED <<fetching, made>>

\* A caller that shares the promise resumes, or throws, after its maker.
Share(c) ==
  /\ awaits[c] # 0
  /\ made[awaits[c]].resumed
  /\ awaits' = [awaits EXCEPT ![c] = 0]
  /\ UNCHANGED <<fetching, made>>

DoRequest(c) == CallUnnamed(c) \/ \E n \in Name : Start(c, n) \/ Join(c, n)

Next ==
  \/ \E c \in Caller : DoRequest(c) \/ Share(c)
  \/ \E h \in Promise : \/ Settle(h, "resolved") \/ Settle(h, "rejected")
                        \/ DoneFetching(h) \/ Throw(h)

Spec == Init /\ [][Next]_vars

\* The browser answers or fails every fetch and runs every continuation.
FairSpec ==
  /\ Spec
  /\ \A c \in Caller : WF_vars(Share(c))
  /\ \A h \in 1..MaxRequests :
       /\ WF_vars(h \in Promise /\ (Settle(h, "resolved") \/ Settle(h, "rejected")))
       /\ WF_vars(h \in Promise /\ (DoneFetching(h) \/ Throw(h)))
-----------------------------------------------------------------------------
PromiseType == [name : Name \cup {Unnamed}, by : Caller,
                state : {"pending", "resolved", "rejected"}, resumed : BOOLEAN]

\* Every variable has its type.
TypeOK ==
  /\ fetching \in [Name -> 0..Len(made)]
  /\ made \in Seq(PromiseType)
  /\ awaits \in [Caller -> 0..Len(made)]

\* A named request in flight is the one the store holds under its name, so two of
\* a name are never in flight: DONE_FETCHING, which deletes whatever the store
\* holds, deletes no other request than its own.
PendingIsStored ==
  \A h \in Promise :
    made[h].state = "pending" /\ made[h].name # Unnamed => fetching[made[h].name] = h

\* A stored promise is one its maker has still to come back to, or a rejected one:
\* a request that succeeded never keeps its name.
StoredIsOpen ==
  \A n \in Name : fetching[n] # 0 =>
    ~made[fetching[n]].resumed \/ made[fetching[n]].state = "rejected"

\* Every caller gets an answer: a shared promise never leaves one behind.
EveryCallerReturns == \A c \in Caller : awaits[c] # 0 ~> awaits[c] = 0

\* A promise is stored under its own name only.
StoredUnderName == \A n \in Name : fetching[n] # 0 => made[fetching[n]].name = n

\* A maker awaits its promise until it resumes, and until then it is the stored one.
MakerAwaits ==
  \A h \in Promise : ~made[h].resumed =>
    /\ awaits[made[h].by] = h
    /\ made[h].name # Unnamed => fetching[made[h].name] = h

\* A maker resumes after its promise has settled.
ResumedIsSettled == \A h \in Promise : made[h].resumed => made[h].state # "pending"

\* The two facts with the strengthening that makes them inductive.
IInv ==
  /\ TypeOK
  /\ PendingIsStored
  /\ StoredIsOpen
  /\ StoredUnderName
  /\ MakerAwaits
  /\ ResumedIsSettled

\* "returning the same request handle if multiple requests are made under the same
\* name before the request completes": after that a name is free again.
NameFreed ==
  \A n \in Name : \A h \in 1..MaxRequests :
    (fetching[n] = h /\ made[h].state # "pending") ~> fetching[n] # h
=============================================================================
