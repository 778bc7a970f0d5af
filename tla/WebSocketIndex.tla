--------------------------- MODULE WebSocketIndex ---------------------------
(***************************************************************************)
(* The authentication index (websocket-auth-index.ts) with the part of the *)
(* WebSocket server (websocket.ts) that feeds it: upgrades that wait for   *)
(* their authentication, socket events, the heartbeat and the shutdown.    *)
(* The index closes every socket of an application session that ends, and  *)
(* counts the sockets of a tab, with a generation, for the cleaner.        *)
(*                                                                         *)
(* The bridge behind a socket is in SessionManager.  An application        *)
(* session keeps one generation for its whole life, so that an authority   *)
(* is its session.  A socket is one upgrade request and is used once.      *)
(***************************************************************************)
EXTENDS Naturals, FiniteSets, InsertionOrder

CONSTANTS Sockets, AppSessions,
          SocketTabs,       \* tabs that sockets ask for
          Stubborn,         \* sockets that stay OPEN although close and terminate are called
          MaxSockets,       \* capacity of the index
          MaxAppSessions,   \* application sessions the index has room for
          Mortal,           \* sockets whose peer may fall silent
          MaxGenerations    \* MAX_CLEANUP_GENERATIONS

SocketsAssumption == IsFiniteSet(Sockets) /\ Stubborn \subseteq Sockets /\ Mortal \subseteq Sockets
CapacityAssumption ==
    MaxSockets \in Nat \ {0} /\ MaxAppSessions \in Nat \ {0} /\ MaxGenerations \in Nat \ {0}

VARIABLES
    session,    \* application session: live, expired but not yet noticed, or gone
    socket,     \* state, application session and tab of a socket
    bySocket, bySession, tabCounts,   \* the maps of WebSocketAuthIndex
    cleanup,    \* cleanupGenerations, its keys in order, and cleanupEvictionGeneration
    unanswered, \* open sockets whose last ping has no pong (alive is false)
    dead,       \* sockets whose peer no longer answers
    phase,      \* the server: serving, stopping, closing, closed
    reader      \* what a reader of cleanupSnapshot saw, and whether it changed since

mapVars == <<bySocket, bySession, tabCounts, cleanup, reader>>
indexVars == <<session, socket, mapVars, unanswered, dead, phase>>

ReadyState(s) == socket[s].st
Open == {s \in Sockets : ReadyState(s) = "open"}
Refused == {s \in Sockets : ReadyState(s) = "refused"}

IndexInit ==
    /\ session = [a \in AppSessions |-> "live"]
    /\ socket \in {[s \in Sockets |-> [st |-> "none", sess |-> f[s][1], tab |-> f[s][2]]] :
                      f \in [Sockets -> AppSessions \X SocketTabs]}
    /\ bySocket = {} /\ bySession = [a \in AppSessions |-> {}]
    /\ tabCounts = [t \in SocketTabs |-> 0]
    /\ cleanup = [order |-> <<>>, generation |-> [t \in SocketTabs |-> 0], evicted |-> 0]
    /\ unanswered = {} /\ dead = {} /\ phase = "serving"
    /\ reader = [t \in SocketTabs |-> [generation |-> 0, changed |-> FALSE]]

-----------------------------------------------------------------------------
(***************************************************************************)
(* WebSocketAuthIndex.                                                     *)
(***************************************************************************)
\* cleanupSnapshot: a tab that is not tracked has the generation of evictions.
CleanupGeneration(g, t) ==
    IF Contains(g.order, t) THEN g.generation[t] ELSE g.evicted

\* The generation of evictions leaves that of the evicted tab behind.
Evicted(g, oldest) == IF oldest > g.evicted + 1 THEN oldest ELSE g.evicted + 1

AdvanceCleanupGeneration(g, t) ==
    LET all == Renew(g.order, t)
        full == Len(all) > MaxGenerations
    IN [order |-> IF full THEN Tail(all) ELSE all,
        generation |-> [g.generation EXCEPT ![t] = CleanupGeneration(g, t) + 1],
        evicted |-> IF full THEN Evicted(g, g.generation[Head(all)]) ELSE g.evicted]

\* advanceCleanupGeneration for the tab of one socket after the other
AdvanceAll(g, sequence) ==
    LET upTo[n \in 0 .. Len(sequence)] ==
            IF n = 0 THEN g
            ELSE AdvanceCleanupGeneration(upTo[n - 1], socket[sequence[n]].tab)
    IN upTo[Len(sequence)]

\* What the reader of the cleanup snapshot does not know yet.
Notice(S) ==
    reader' = [t \in SocketTabs |->
        [reader[t] EXCEPT !.changed = @ \/ \E s \in S : socket[s].tab = t]]

\* registerIfActive
Register(s) ==
    /\ bySocket' = bySocket \cup {s}
    /\ bySession' = [bySession EXCEPT ![socket[s].sess] = @ \cup {s}]
    /\ tabCounts' = [tabCounts EXCEPT ![socket[s].tab] = @ + 1]
    /\ cleanup' = AdvanceCleanupGeneration(cleanup, socket[s].tab)
    /\ Notice({s})

\* unregister, of one socket of the index after the other
Unregister(sequence) ==
    LET S == ToSet(sequence) IN
    /\ bySocket' = bySocket \ S
    /\ bySession' = [a \in AppSessions |-> bySession[a] \ S]
    /\ tabCounts' = [t \in SocketTabs |->
                        tabCounts[t] - Cardinality({s \in S : socket[s].tab = t})]
    /\ cleanup' = AdvanceAll(cleanup, sequence)
    /\ Notice(S)

\* registerIfActive: capacity for sockets, and for sessions if this one is new
HasRoom(a) ==
    /\ Cardinality(bySocket) < MaxSockets
    /\ \/ bySession[a] # {}
       \/ Cardinality({b \in AppSessions : bySession[b] # {}}) < MaxAppSessions

-----------------------------------------------------------------------------
\* secureAuthenticationClosure: whether the sockets left OPEN
Secured(S) == {s \in S : ReadyState(s) # "open" \/ s \notin Stubborn}

Closing(S) == {s \in S : ReadyState(s) \in {"open", "refused"} /\ s \notin Stubborn}

SetStates(to, S) ==
    socket' = [s \in Sockets |-> IF s \in S THEN [socket[s] EXCEPT !.st = to] ELSE socket[s]]

\* closeAuthenticationRequired for each socket of S, in some order
CutOff(S) == \E sequence \in SetToSeqs(Secured(S) \cap bySocket) : Unregister(sequence)

\* The sockets that the observer of the authentication service closes when
\* sessions A end; the shutdown removes the observer.
SocketsOf(A) == IF phase = "serving" THEN UNION {bySession[a] : a \in A} ELSE {}

SessionsWithout(A) == [a \in AppSessions |-> IF a \in A THEN "gone" ELSE session[a]]

\* A session ends by logout, capacity or password change, or because some
\* request finds it expired.
Revoke(a) ==
    /\ session[a] # "gone"
    /\ session' = SessionsWithout({a})
    /\ CutOff(SocketsOf({a}))
    /\ SetStates("closing", Closing(SocketsOf({a})))
    /\ UNCHANGED <<unanswered, dead, phase>>

Expire(a) ==
    /\ session[a] = "live"
    /\ session' = [session EXCEPT ![a] = "expired"]
    /\ UNCHANGED <<socket, mapVars, unanswered, dead, phase>>

-----------------------------------------------------------------------------
(***************************************************************************)
(* Sockets.                                                                *)
(***************************************************************************)

\* acceptUpgrade up to the authentication
Upgrade(s) ==
    /\ ReadyState(s) = "none"
    /\ SetStates(IF phase = "serving" THEN "authenticating" ELSE "closed", {s})
    /\ UNCHANGED <<session, mapVars, unanswered, dead, phase>>

\* isActive of a disposed index says no at once; before, it ends a session
\* that it finds expired.
FoundExpired(s) ==
    {a \in {socket[s].sess} : phase = "serving" /\ session[a] = "expired"}

\* Socket s is closed and those of cut begin to close.
Ends(s, cut) ==
    socket' = [o \in Sockets |->
        [socket[o] EXCEPT !.st = IF o = s THEN "closed"
                                 ELSE IF o \in Closing(cut) THEN "closing" ELSE @]]

\* Mutant: acceptUpgrade does not ask isActive again, so that the upgrade of a
\* session that has expired meanwhile opens.
MayOpenLate(s) == phase = "serving" /\ session[socket[s].sess] # "gone"

\* accepting and isActive, read again after the authentication
MayOpen(s) == phase = "serving" /\ session[socket[s].sess] = "live"

\* The authentication of an upgrade has answered: the rest of acceptUpgrade
\* and registerIfActive run without a pause.
UpgradeAnswered(s) ==
    /\ ReadyState(s) = "authenticating"
    /\ \/ /\ MayOpen(s) /\ HasRoom(socket[s].sess)
          /\ SetStates("open", {s})
          /\ Register(s)
          /\ UNCHANGED session
       \/ /\ MayOpen(s) /\ ~HasRoom(socket[s].sess)
          /\ SetStates(IF s \in Stubborn THEN "refused" ELSE "closing", {s})
          /\ UNCHANGED <<session, mapVars>>
       \/ /\ ~MayOpen(s)
          /\ session' = SessionsWithout(FoundExpired(s))
          /\ CutOff(SocketsOf(FoundExpired(s))) /\ Ends(s, SocketsOf(FoundExpired(s)))
    /\ UNCHANGED <<unanswered, dead, phase>>

\* The peer closes, or an error makes the ws library close: a socket leaves
\* OPEN before the server hears of it.
PeerCloses(s) ==
    /\ ReadyState(s) \in {"open", "refused"}
    /\ SetStates("closing", {s})
    /\ UNCHANGED <<session, mapVars, unanswered, dead, phase>>

\* The close or error event: unregister, unless it happened before, and ask
\* whether the session is still active.
SocketEvent(s) ==
    /\ ReadyState(s) = "closing"
    /\ session' = SessionsWithout(FoundExpired(s))
    /\ LET cut == SocketsOf(FoundExpired(s)) IN
       /\ Ends(s, cut)
       /\ \E sequence \in SetToSeqs((Secured(cut) \cup {s}) \cap bySocket) :
             (s \in bySocket => sequence[1] = s) /\ Unregister(sequence)
    /\ unanswered' = unanswered \ {s} /\ dead' = dead \ {s}
    /\ UNCHANGED phase

PeerDies(s) ==
    /\ ReadyState(s) \in {"open", "refused"} /\ s \in Mortal \ dead
    /\ dead' = dead \cup {s}
    /\ UNCHANGED <<session, socket, mapVars, unanswered, phase>>

Pong(s) ==
    /\ s \in unanswered \ dead
    /\ unanswered' = unanswered \ {s}
    /\ UNCHANGED <<session, socket, mapVars, dead, phase>>

\* sweepExpired: sockets of sessions that end now, and of those that ended
\* before although their sockets could not be closed then
Swept == {s \in bySocket : session[socket[s].sess] # "live"}

Silent == {s \in unanswered : ReadyState(s) \in {"open", "refused"}}

\* The interval callback: sweep, terminate the silent, ping the others.
Heartbeat ==
    /\ phase = "serving"
    /\ session' = SessionsWithout({a \in AppSessions : session[a] = "expired"})
    /\ CutOff(Swept)
    /\ SetStates("closing", Closing(Swept \cup Silent))
    /\ unanswered' = {s \in Sockets : socket'[s].st \in {"open", "refused"}}
    /\ UNCHANGED <<dead, phase>>

\* server.close: stop accepting, stop the heartbeat, dispose the index.
Shutdown ==
    /\ phase = "serving" /\ phase' = "stopping"
    /\ CutOff(bySocket)
    /\ SetStates("closing", Closing(bySocket))
    /\ UNCHANGED <<session, unanswered, dead>>

CloseClients ==
    /\ phase = "stopping" /\ phase' = "closing"
    /\ SetStates("closing", Closing(Open \cup Refused))
    /\ UNCHANGED <<session, mapVars, unanswered, dead>>

\* websocketServer.close calls back once no client is left.
Closed ==
    /\ phase = "closing" /\ phase' = "closed"
    /\ \A s \in Sockets : ReadyState(s) \in {"none", "authenticating", "closed"}
    /\ UNCHANGED <<session, socket, mapVars, unanswered, dead>>

\* The cleaner takes a cleanupSnapshot.
ReadSnapshot(t) ==
    /\ reader' = [reader EXCEPT ![t] = [generation |-> CleanupGeneration(cleanup, t), changed |-> FALSE]]
    /\ UNCHANGED <<session, socket, bySocket, bySession, tabCounts, cleanup, unanswered, dead,
                   phase>>

SocketStep(s) == Upgrade(s) \/ UpgradeAnswered(s) \/ PeerCloses(s) \/ SocketEvent(s)
                 \/ PeerDies(s) \/ Pong(s)

IndexNext ==
    \/ \E s \in Sockets : SocketStep(s)
    \/ \E a \in AppSessions : Revoke(a) \/ Expire(a)
    \/ \E t \in SocketTabs : ReadSnapshot(t)
    \/ Heartbeat \/ Shutdown \/ CloseClients \/ Closed

IndexSpec == IndexInit /\ [][IndexNext]_indexVars

-----------------------------------------------------------------------------
IndexTypeOK ==
    /\ session \in [AppSessions -> {"live", "expired", "gone"}]
    /\ socket \in [Sockets -> [st : {"none", "authenticating", "open", "refused", "closing",
                                     "closed"},
                               sess : AppSessions, tab : SocketTabs]]
    /\ bySocket \subseteq Sockets
    /\ bySession \in [AppSessions -> SUBSET Sockets]
    /\ tabCounts \in [SocketTabs -> Nat]
    /\ cleanup \in [order : Seq(SocketTabs), generation : [SocketTabs -> Nat], evicted : Nat]
    /\ IsInjective(cleanup.order) /\ Len(cleanup.order) <= MaxGenerations
    /\ unanswered \subseteq Sockets /\ dead \subseteq Sockets
    /\ phase \in {"serving", "stopping", "closing", "closed"}
    /\ reader \in [SocketTabs -> [generation : Nat, changed : BOOLEAN]]

\* The three maps of the index describe the same registrations, and only of
\* sockets that have not had their close event: what the cleaner and the
\* administrator are told of a tab is the truth.
MapsAgree ==
    /\ \A a \in AppSessions :
          bySession[a] = {s \in bySocket : socket[s].sess = a}
    /\ \A t \in SocketTabs :
          tabCounts[t] = Cardinality({s \in bySocket : socket[s].tab = t})
    /\ \A s \in bySocket : ReadyState(s) \in {"open", "closing"}

\* Generations only grow, and that of a tab grows whenever a socket of the tab comes
\* or goes, although the map of generations forgets tabs: a reader who sees the same
\* generation twice, as the cleaner does, may conclude that nothing has changed.
NoRepeatedGeneration ==
    \A t \in SocketTabs :
        /\ reader[t].generation <= CleanupGeneration(cleanup, t)
        /\ reader[t].changed => reader[t].generation < CleanupGeneration(cleanup, t)

\* Every open socket is registered, and those of an application session that was
\* ended, or of a server that stops, are closed with it.  One that could not be
\* closed stays registered, for the next sweep to try again.
EndedSessionIsCutOff ==
    /\ Open \subseteq bySocket
    /\ \A s \in Open : phase # "serving" \/ session[socket[s].sess] = "gone" => s \in Stubborn

\* The inductive invariant of the index
IndexIsSound == IndexTypeOK /\ MapsAgree /\ NoRepeatedGeneration /\ EndedSessionIsCutOff

\* An upgrade that was waiting for its authentication when the server began
\* to stop, or when its session ended, does not open a terminal.
NoLateSocket ==
    \A s \in Sockets : socket'[s].st = "open" /\ ReadyState(s) # "open" =>
       phase = "serving" /\ session[socket[s].sess] = "live"

\* The maps of the index agree with each other and with the sockets, no reader sees
\* the same generation before and after a change, the sockets of an ended session
\* are cut off or kept for the next sweep, and an upgrade that waits for its
\* authentication while the server stops or its session ends opens no terminal.
IndexTellsTheTruth == []IndexIsSound /\ [][NoLateSocket]_indexVars

=============================================================================
