--------------------------- MODULE BridgeRegistry ---------------------------
(***************************************************************************)
(* The bridge registry (bridge-registry.ts): which owner a session has,    *)
(* one queue of operations per session, and closeAll, which shuts the      *)
(* registry down while operations are in flight.                           *)
(*                                                                         *)
(* Unlike SessionManager, which sees the registry through bridges whose    *)
(* close always succeeds, this module splits every operation at its        *)
(* awaits and lets close reject, as the BridgeOwner interface allows.      *)
(***************************************************************************)
EXTENDS Naturals, Sequences, FiniteSets

CONSTANTS Sessions, Owners, Calls, None

ASSUME NoneAssumption == None \notin Owners

VARIABLES
    owners,     \* owners map
    queue,      \* operationQueues: calls per session, the head is running
    request,    \* operation, session and owner of a call
    pc,         \* where a call is suspended, or its outcome
    prior,      \* owner a running replace or close has read
    life,       \* what has become of an owner
    shutdown,   \* shutdownResult: none, draining, closing, or its outcome
    inFlight,   \* queue tails closeAll waits for
    closing,    \* sessions whose owner closeAll is closing
    failure     \* did one of those closes reject?

callVars     == <<queue, request, pc, prior>>
shutdownVars == <<shutdown, inFlight, closing, failure>>
vars == <<owners, queue, request, pc, prior, life, shutdown, inFlight, closing, failure>>

Request == [op : {"replace", "remove"}, session : Sessions, owner : Owners]
           \cup [op : {"close"}, session : Sessions, owner : {None}]
Waiting == {"queued", "barred", "closingPrior", "closingOwner", "closingRejected"}
Settled == {"resolved", "rejected"}

TypeOK ==
    /\ owners \in [Sessions -> Owners \cup {None}]
    /\ queue \in [Sessions -> Seq(Calls)]
    /\ request \in [Calls -> Request \cup {None}]
    /\ pc \in [Calls -> {"unused"} \cup Waiting \cup Settled]
    /\ prior \in [Calls -> Owners \cup {None}]
    /\ life \in [Owners -> {"live", "closing", "closed", "failed"}]
    /\ shutdown \in {"none", "draining", "closing", "resolved", "rejected"}
    /\ inFlight \subseteq Calls
    /\ closing \subseteq Sessions
    /\ failure \in BOOLEAN

Init ==
    /\ owners = [s \in Sessions |-> None]
    /\ queue = [s \in Sessions |-> <<>>]
    /\ request = [c \in Calls |-> None]
    /\ pc = [c \in Calls |-> "unused"]
    /\ prior = [c \in Calls |-> None]
    /\ life = [o \in Owners |-> "live"]
    /\ shutdown = "none"
    /\ inFlight = {}
    /\ closing = {}
    /\ failure = FALSE

-----------------------------------------------------------------------------
Session(c) == request[c].session
Owner(c) == request[c].owner

Runs(c, op) ==
    /\ pc[c] = "queued"
    /\ request[c].op = op
    /\ Head(queue[Session(c)]) = c

Goto(c, step) == pc' = [pc EXCEPT ![c] = step] /\ UNCHANGED queue

\* The call settles; its session's next operation may run.
Finish(c, outcome) ==
    /\ pc' = [pc EXCEPT ![c] = outcome]
    /\ queue' = IF queue[Session(c)] # <<>> /\ Head(queue[Session(c)]) = c
                THEN [queue EXCEPT ![Session(c)] = Tail(@)] ELSE queue

\* owner.close is called for the owners in O; a bridge closes only once.
StartClose(O) ==
    life' = [o \in Owners |-> IF o \in O /\ life[o] = "live" THEN "closing" ELSE life[o]]

\* The close of owner o resolves, or rejects.
Closes(o) == life' = [life EXCEPT ![o] = "closed"]
Rejects(o) == life[o] # "closed" /\ life' = [life EXCEPT ![o] = "failed"]

SetOwner(s, o) == owners' = [owners EXCEPT ![s] = o]

-----------------------------------------------------------------------------
\* replace, remove and close: before a shutdown the operation joins the queue
\* of its session, after it the call waits for the end of the shutdown.  Each
\* bridge is handed to replace once.
Invoke(c, r) ==
    /\ pc[c] = "unused"
    /\ r.op = "replace" => life[r.owner] = "live" /\
          \A d \in Calls : request[d] # None => request[d].op # "replace" \/ Owner(d) # r.owner
    /\ request' = [request EXCEPT ![c] = r]
    /\ IF shutdown = "none"
       THEN /\ pc' = [pc EXCEPT ![c] = "queued"]
            /\ queue' = [queue EXCEPT ![r.session] = Append(@, c)]
       ELSE Goto(c, "barred")
    /\ UNCHANGED <<owners, prior, life, shutdownVars>>

\* Mutant: the close of the prior owner is not awaited.
BeginReplaceAtOnce(c) ==
    /\ Runs(c, "replace")
    /\ prior' = [prior EXCEPT ![c] = owners[Session(c)]]
    /\ StartClose({owners[Session(c)]} \ {None, Owner(c)})
    /\ SetOwner(Session(c), Owner(c)) /\ Finish(c, "resolved")
    /\ UNCHANGED <<request, shutdownVars>>

BeginReplace(c) ==
    /\ Runs(c, "replace")
    /\ prior' = [prior EXCEPT ![c] = owners[Session(c)]]
    /\ \/ /\ owners[Session(c)] \in {None, Owner(c)}
          /\ SetOwner(Session(c), Owner(c)) /\ Finish(c, "resolved")
          /\ UNCHANGED life
       \/ /\ owners[Session(c)] \notin {None, Owner(c)}
          /\ StartClose({owners[Session(c)]})
          /\ Goto(c, "closingPrior") /\ UNCHANGED owners
    /\ UNCHANGED <<request, shutdownVars>>

\* Mutant: a failed replacement does not dispose of the new owner.
PriorSettlesNoDisposal(c) ==
    /\ pc[c] = "closingPrior"
    /\ \/ Closes(prior[c]) /\ SetOwner(Session(c), Owner(c)) /\ Finish(c, "resolved")
       \/ Rejects(prior[c]) /\ Finish(c, "rejected") /\ UNCHANGED owners
    /\ UNCHANGED <<request, prior, shutdownVars>>

\* The close of the prior owner settles: the new owner is registered, or its
\* registration fails and it is closed before the call rejects.
PriorSettles(c) ==
    /\ pc[c] = "closingPrior"
    /\ \/ /\ Closes(prior[c])
          /\ IF owners[Session(c)] = prior[c]
             THEN SetOwner(Session(c), Owner(c)) ELSE UNCHANGED owners
          /\ Finish(c, "resolved")
       \/ /\ life[prior[c]] # "closed"
          /\ life' = [life EXCEPT ![prior[c]] = "failed",
                                  ![Owner(c)] = IF @ = "live" THEN "closing" ELSE @]
          /\ Goto(c, "closingRejected") /\ UNCHANGED owners
    /\ UNCHANGED <<request, prior, shutdownVars>>

\* closeRejectedOwner settles; its own failure is ignored.
RejectedOwnerSettles(c) ==
    /\ pc[c] = "closingRejected"
    /\ Closes(Owner(c)) \/ Rejects(Owner(c))
    /\ Finish(c, "rejected")
    /\ UNCHANGED <<owners, request, prior, shutdownVars>>

\* Only the owner the call was made for is forgotten.
Remove(c) ==
    /\ Runs(c, "remove")
    /\ IF owners[Session(c)] = Owner(c) THEN SetOwner(Session(c), None) ELSE UNCHANGED owners
    /\ Finish(c, "resolved")
    /\ UNCHANGED <<request, prior, life, shutdownVars>>

BeginClose(c) ==
    /\ Runs(c, "close")
    /\ \/ owners[Session(c)] = None /\ Finish(c, "resolved") /\ UNCHANGED <<prior, life>>
       \/ /\ owners[Session(c)] # None
          /\ prior' = [prior EXCEPT ![c] = owners[Session(c)]]
          /\ StartClose({owners[Session(c)]})
          /\ Goto(c, "closingOwner")
    /\ UNCHANGED <<owners, request, shutdownVars>>

\* An owner whose close rejects stays registered.
OwnerSettles(c) ==
    /\ pc[c] = "closingOwner"
    /\ \/ /\ Closes(prior[c])
          /\ IF owners[Session(c)] = prior[c]
             THEN SetOwner(Session(c), None) ELSE UNCHANGED owners
          /\ Finish(c, "resolved")
       \/ Rejects(prior[c]) /\ Finish(c, "rejected") /\ UNCHANGED owners
    /\ UNCHANGED <<request, prior, shutdownVars>>

-----------------------------------------------------------------------------
\* closeAll; a second call returns the same promise.
CloseAll ==
    /\ shutdown = "none"
    /\ shutdown' = "draining"
    /\ inFlight' = {queue[s][Len(queue[s])] : s \in {t \in Sessions : queue[t] # <<>>}}
    /\ UNCHANGED <<owners, callVars, life, closing, failure>>

\* The operations in flight have settled: every registered owner is closed.
Drained ==
    /\ shutdown = "draining"
    /\ \A c \in inFlight : pc[c] \in Settled
    /\ shutdown' = "closing"
    /\ closing' = {s \in Sessions : owners[s] # None}
    /\ StartClose({owners[s] : s \in closing'})
    /\ UNCHANGED <<owners, callVars, inFlight, failure>>

\* One of these closes settles; the owner is forgotten either way.
ShutdownOwnerSettles(s) ==
    /\ shutdown = "closing" /\ s \in closing
    /\ \/ Closes(owners[s]) /\ UNCHANGED failure
       \/ Rejects(owners[s]) /\ failure' = TRUE
    /\ SetOwner(s, None)
    /\ closing' = closing \ {s}
    /\ UNCHANGED <<callVars, shutdown, inFlight>>

ShutdownEnds ==
    /\ shutdown = "closing" /\ closing = {}
    /\ shutdown' = IF failure THEN "rejected" ELSE "resolved"
    /\ UNCHANGED <<owners, callVars, life, inFlight, closing, failure>>

\* Calls that came during or after the shutdown go on when it has ended.
PassBarrier(c) ==
    /\ pc[c] = "barred" /\ shutdown \in Settled
    /\ \/ /\ request[c].op = "replace"
          /\ StartClose({Owner(c)}) /\ Goto(c, "closingRejected")
       \/ request[c].op # "replace" /\ Finish(c, "resolved") /\ UNCHANGED life
    /\ UNCHANGED <<owners, request, prior, shutdownVars>>

-----------------------------------------------------------------------------
CallStep(c) ==
    \/ BeginReplace(c) \/ PriorSettles(c) \/ RejectedOwnerSettles(c) \/ Remove(c)
    \/ BeginClose(c) \/ OwnerSettles(c) \/ PassBarrier(c)

ShutdownStep == Drained \/ (\E s \in Sessions : ShutdownOwnerSettles(s)) \/ ShutdownEnds

Next ==
    \/ \E c \in Calls, r \in Request : Invoke(c, r)
    \/ \E c \in Calls : CallStep(c)
    \/ CloseAll \/ ShutdownStep

Spec == Init /\ [][Next]_vars

-----------------------------------------------------------------------------
Handed(c) == pc[c] # "unused" /\ request[c].op = "replace"

\* "Takes ownership of owner and closes it before any rejected result": the
\* caller of a rejected replace need not close its bridge.
RejectedOwnerIsClosed ==
    \A c \in Calls : Handed(c) /\ pc[c] = "rejected" => life[Owner(c)] \in {"closed", "failed"}

\* No bridge is forgotten while it is live: once its replace has resolved it is
\* registered, unless remove was called for it, which its handler does after
\* closing it.  A remove for one owner never drops another.
LiveOwnerIsRegistered ==
    \A c \in Calls :
        Handed(c) /\ pc[c] = "resolved" /\ life[Owner(c)] = "live" =>
            \/ owners[Session(c)] = Owner(c)
            \/ \E d \in Calls : pc[d] # "unused" /\ request[d].op = "remove" /\ Owner(d) = Owner(c)

\* An owner gives way to another only after its close has resolved: two
\* bridges are never attached one over the other.
ReplacedOwnerIsClosed ==
    [][\A s \in Sessions :
         owners[s] # None /\ owners'[s] \notin {None, owners[s]} => life'[owners[s]] = "closed"]_vars

\* After closeAll nothing is registered and nothing is registered again, and
\* every bridge handed over with an answer was told to close or removed.
ShutdownIsFinal ==
    shutdown \in Settled =>
        /\ \A s \in Sessions : owners[s] = None /\ queue[s] = <<>>
        /\ \A c \in Calls :
              Handed(c) /\ pc[c] \in Settled /\ life[Owner(c)] = "live" =>
                  \E d \in Calls : pc[d] # "unused" /\ request[d].op = "remove" /\ Owner(d) = Owner(c)

\* While closeAll closes owners no operation is inside its critical section.
ShutdownRunsAlone ==
    shutdown \in {"closing", "resolved", "rejected"} =>
        \A c \in Calls : pc[c] \notin {"queued", "closingPrior", "closingOwner"}

\* A call that has not settled is where its operation can be: only replace
\* closes a prior or a rejected owner, only close closes its owner.
CallsMatchRequests ==
    \A c \in Calls :
        /\ pc[c] # "unused" => request[c] \in Request
        /\ pc[c] \in {"closingPrior", "closingRejected"} => request[c].op = "replace"
        /\ pc[c] = "closingOwner" => request[c].op = "close"

\* An operation queue holds each unsettled operation of its session once, and
\* only its head has begun.
QueuesAreSerial ==
    /\ \A s \in Sessions : \A i \in 1..Len(queue[s]) :
          /\ pc[queue[s][i]] \in {"queued", "closingPrior", "closingOwner", "closingRejected"}
          /\ request[queue[s][i]].session = s
          /\ i > 1 => pc[queue[s][i]] = "queued"
          /\ \A j \in 1..Len(queue[s]) : queue[s][j] = queue[s][i] => j = i
    /\ \A c \in Calls :
          pc[c] \in {"queued", "closingPrior", "closingOwner"} =>
              \E i \in 1..Len(queue[Session(c)]) : queue[Session(c)][i] = c

\* The owner an operation read before its await is the registered one after it.
PriorStaysRegistered ==
    \A c \in Calls :
        pc[c] \in {"closingPrior", "closingOwner"} =>
            prior[c] # None /\ owners[Session(c)] = prior[c]

\* closeAll waits for the last operation of every queue, and closes exactly
\* the owners that are still registered.
ShutdownCoversAll ==
    /\ shutdown = "draining" =>
          \A s \in Sessions : queue[s] # <<>> => queue[s][Len(queue[s])] \in inFlight
    /\ shutdown \in {"closing", "resolved", "rejected"} =>
          /\ \A s \in Sessions : queue[s] = <<>>
          /\ closing = {s \in Sessions : owners[s] # None}
    /\ shutdown \in Settled => closing = {}

\* Nobody loses sight of a live bridge: neither a caller whose replace was
\* rejected, nor the registry, nor a shutdown, because operations of a session
\* are serial and closeAll covers them all.
OwnersAreKept ==
    /\ TypeOK /\ RejectedOwnerIsClosed /\ LiveOwnerIsRegistered
    /\ ShutdownIsFinal /\ ShutdownRunsAlone
    /\ CallsMatchRequests /\ QueuesAreSerial /\ PriorStaysRegistered /\ ShutdownCoversAll

=============================================================================
