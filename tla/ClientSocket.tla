---------------------------- MODULE ClientSocket ----------------------------
(***************************************************************************)
(* The browser's terminal connections: useTerminalSocket.ts, one hook per  *)
(* mounted terminal, with the registry of suspensions that outlives them   *)
(* (terminal-auth-suspension.ts), the remounts App.tsx causes and the loss *)
(* of the authentication that useAuth.ts announces.                        *)
(*                                                                         *)
(* generationRef only tells whether the latest generation is the one of a  *)
(* given socket: current names that socket, or none.  The listeners to be  *)
(* removed are always those of socketRef.  Error texts, the length of the  *)
(* retry delay and the output of the terminal are left out.  An effect and *)
(* the microtasks it queues are one step: no other event comes between.    *)
(***************************************************************************)
EXTENDS InsertionOrder, FiniteSets

CONSTANTS Terminals,    \* the sessions whose terminals the browser shows
          BrowserSockets,  \* sockets of the browser; a closed one is used again
          NoSocket,     \* null
          RetrySteps,   \* INITIAL_RETRY_STEPS: all later attempts are alike
          MaxIds        \* MAX_SESSION_IDS

TerminalsAssumption == IsFiniteSet(Terminals) /\ NoSocket \notin BrowserSockets \cup Terminals
LimitsAssumption == RetrySteps \in Nat \ {0} /\ MaxIds \in Nat \ {0}

VARIABLES
    hook,            \* the refs, the status and the registration of each terminal
    connection,      \* each browser socket: its readyState, terminal and listeners
    suspended,       \* the registry's ids, oldest first
    behavior,        \* the setting reconnectBehavior
    authentication,  \* "in", "lost" (announced, still mounted) or "out"
    halted,          \* ghost: terminals the user detached, or the server closed for good
    away             \* ghost: terminals that lost their authentication and wait for the user

socketVars == <<hook, connection, suspended, behavior, authentication, halted, away>>

Codes == {"AUTHENTICATION_REQUIRED", "SESSION_REPLACED", "SESSION_STOPPED",
          "SESSION_RESTARTING", "BRIDGE_RESTART", "other"}
Final == Codes \ {"BRIDGE_RESTART", "other"}

Unmounted == [mounted |-> FALSE, stopped |-> TRUE, authSuspended |-> FALSE,
              manualSuspended |-> FALSE, timer |-> FALSE, attempt |-> 0, sock |-> NoSocket,
              current |-> NoSocket, status |-> "disconnected", restored |-> FALSE,
              preserve |-> FALSE]
Unused == [st |-> "none", tab |-> NoSocket, heard |-> FALSE]

SocketInit ==
    /\ hook = [t \in Terminals |-> Unmounted]
    /\ connection = [s \in BrowserSockets |-> Unused]
    /\ suspended = <<>>
    /\ behavior \in {"automatic", "manual"}
    /\ authentication = "in" /\ halted = {} /\ away = {}

Mounted == {t \in Terminals : hook[t].mounted}
IsLive(s) == connection[s].st \in {"connecting", "open"}

-----------------------------------------------------------------------------
(***************************************************************************)
(* The registry of suspensions.  A registration is part of its hook.       *)
(***************************************************************************)
\* rememberSuspension
Remember(ids, t) ==
    IF Contains(ids, t) THEN ids
    ELSE Append(IF Len(ids) < MaxIds THEN ids ELSE SubSeq(ids, Len(ids) + 2 - MaxIds, Len(ids)), t)

\* rememberSuspension of the terminals in q, one after the other
RememberAll(ids, q) ==
    LET upTo[n \in 0 .. Len(q)] == IF n = 0 THEN ids ELSE Remember(upTo[n - 1], q[n])
    IN upTo[Len(q)]

\* The orders in which terminals may have been registered
Orders(T) == {q \in [1 .. Cardinality(T) -> T] : ToSet(q) = T}

\* The hooks after suspendTerminalAuthLifecycle
Suspend(H, T) ==
    [t \in Terminals |-> IF t \in T THEN [H[t] EXCEPT !.restored = TRUE, !.preserve = TRUE]
                         ELSE H[t]]

\* The ids after unregister, and its microtask, of terminals that are not mounted again
Unregistered(T) == ForgetAll(suspended, {t \in T : hook[t].restored /\ ~hook[t].preserve})

-----------------------------------------------------------------------------
(***************************************************************************)
(* The hook.                                                               *)
(***************************************************************************)
\* The generation advances, and the socket is forgotten.
Dropped(h) == [h EXCEPT !.sock = NoSocket, !.current = NoSocket]

\* Mutant: the socket is forgotten and stays open.
AbandonNone(S) == connection

\* The sockets once the listeners of those in S are removed and they are closed
Abandon(S) ==
    [s \in BrowserSockets |->
        IF s \in S THEN [connection[s] EXCEPT !.st = "closing", !.heard = FALSE]
        ELSE connection[s]]

\* Mutant: no timer is set.
ScheduleNothing(h, b) ==
    [h EXCEPT !.status = IF h.stopped THEN "disconnected" ELSE "reconnecting"]

\* scheduleRetry, where reconnecting is of kind b
ScheduleRetry(h, b) ==
    IF h.stopped THEN [h EXCEPT !.status = "disconnected"]
    ELSE IF b = "manual"
    THEN [h EXCEPT !.stopped = TRUE, !.manualSuspended = TRUE, !.timer = FALSE,
                   !.status = "disconnected"]
    ELSE [h EXCEPT !.timer = TRUE, !.status = "reconnecting",
                   !.attempt = IF @ < RetrySteps THEN @ + 1 ELSE @]

\* connect comes to the factory.
Connects(h) == ~h.stopped /\ ~h.authSuspended

\* connect, with the socket the factory returns, or none where it throws
Connect(h, b, s) ==
    LET v == [h EXCEPT !.timer = FALSE, !.current = s, !.sock = s,
                       !.status = IF h.attempt = 0 THEN "connecting" ELSE "reconnecting"]
    IN IF ~Connects(h) THEN h ELSE IF s = NoSocket THEN ScheduleRetry(v, b) ELSE v

\* connect of the terminals T, when the hooks are H and the sockets C
Connecting(H, C, T, b, f) ==
    LET made(s) == {t \in T : Connects(H[t]) /\ f[t] = s}
    IN /\ hook' = [t \in Terminals |-> IF t \in T THEN Connect(H[t], b, f[t]) ELSE H[t]]
       /\ connection' = [s \in BrowserSockets |->
              IF made(s) = {} THEN C[s]
              ELSE [st |-> "connecting", tab |-> CHOOSE t \in made(s) : TRUE, heard |-> TRUE]]

\* What the factory may return.
Offers == {s \in BrowserSockets : connection[s].st = "none"} \cup {NoSocket}

\* One terminal connects.
ConnectOne(H, C, t, s) == Connecting(H, C, {t}, behavior, [u \in {t} |-> s])

\* The ids after the first render, which clears a suspension that does not count
Rendered(t) == IF behavior = "automatic" THEN ForgetAll(suspended, {t}) ELSE suspended

\* The hook after the first render and the registration
Mounting(t) ==
    LET waits == behavior = "manual" /\ Contains(suspended, t)
    IN [Unmounted EXCEPT !.mounted = TRUE, !.stopped = waits, !.manualSuspended = waits,
                         !.restored = Contains(Rendered(t), t),
                         !.status = IF waits THEN "disconnected" ELSE "connecting"]

\* The terminals that wait for the user after t was mounted
AwayAfter(t) == IF behavior = "automatic" THEN away \ {t} ELSE away

\* App.tsx renders the terminal of a visited, active tab.
Mount(t, s) ==
    /\ authentication = "in" /\ t \notin Mounted /\ s \in Offers
    /\ ConnectOne([hook EXCEPT ![t] = Mounting(t)], connection, t, s)
    /\ suspended' = Rendered(t) /\ away' = AwayAfter(t)
    /\ UNCHANGED <<behavior, authentication, halted>>

\* The tab is closed or stopped: its terminal is no longer rendered.
Unmount(t) ==
    /\ authentication = "in" /\ t \in Mounted
    /\ hook' = [hook EXCEPT ![t] = Unmounted] /\ connection' = Abandon({hook[t].sock})
    /\ suspended' = Unregistered({t})
    /\ halted' = halted \ {t} /\ away' = away \ {t}
    /\ UNCHANGED <<behavior, authentication>>

\* onRestartClient: the key changes, so that one commit renders the new
\* terminal, cleans up the old one and runs the effects of the new one.
RestartClient(t, s) ==
    /\ authentication = "in" /\ t \in Mounted /\ s \in Offers
    /\ ConnectOne([hook EXCEPT ![t] = Mounting(t)], Abandon({hook[t].sock}), t, s)
    /\ suspended' = Rendered(t) /\ away' = AwayAfter(t)
    /\ halted' = halted \ {t}
    /\ UNCHANGED <<behavior, authentication>>

\* Saved settings are rendered: the effect runs in every terminal.  One that
\* waits for a retry waits for the user now,
SetManual ==
    /\ authentication # "out" /\ behavior = "automatic" /\ behavior' = "manual"
    /\ hook' = [t \in Terminals |->
           IF t \in Mounted /\ ~hook[t].authSuspended /\ hook[t].timer
           THEN [hook[t] EXCEPT !.timer = FALSE, !.current = NoSocket, !.stopped = TRUE,
                                !.manualSuspended = TRUE, !.status = "disconnected"]
           ELSE hook[t]]
    /\ UNCHANGED <<connection, suspended, authentication, halted, away>>

\* and one that waits for the user connects.
SetAutomatic(f) ==
    LET waiting == {t \in Mounted : ~hook[t].authSuspended /\ hook[t].manualSuspended}
    IN /\ authentication # "out" /\ behavior = "manual" /\ behavior' = "automatic"
       /\ \A t, u \in waiting : f[t] = f[u] => t = u \/ f[t] = NoSocket
       /\ Connecting([t \in Terminals |->
                         IF t \in waiting
                         THEN [hook[t] EXCEPT !.manualSuspended = FALSE, !.stopped = FALSE,
                                              !.timer = FALSE, !.attempt = 0]
                         ELSE hook[t]],
                     connection, waiting, "automatic", f)
       /\ away' = away \ Mounted
       /\ UNCHANGED <<suspended, authentication, halted>>

-----------------------------------------------------------------------------
(***************************************************************************)
(* Authentication lost: useAuth.ts suspends every registered terminal and  *)
(* publishes; the terminals are unmounted by a later commit.               *)
(***************************************************************************)
\* authenticationRequired, called for an answer of the server or a logout
AuthenticationLost ==
    /\ authentication = "in" /\ authentication' = "lost"
    /\ hook' = Suspend(hook, Mounted)
    /\ \E q \in Orders(Mounted) : suspended' = RememberAll(suspended, q)
    /\ away' = away \cup Mounted
    /\ UNCHANGED <<connection, behavior, halted>>

UnmountAll ==
    /\ authentication = "lost" /\ authentication' = "out"
    /\ hook' = [t \in Terminals |-> Unmounted]
    /\ connection' = Abandon({hook[t].sock : t \in Mounted})
    /\ suspended' = Unregistered(Mounted)
    /\ halted' = {}
    /\ UNCHANGED <<behavior, away>>

SignIn ==
    /\ authentication = "out" /\ authentication' = "in"
    /\ UNCHANGED <<hook, connection, suspended, behavior, halted, away>>

-----------------------------------------------------------------------------
(***************************************************************************)
(* The user: disconnect and reconnect.                                     *)
(***************************************************************************)
\* Mutant: a terminal that waited for the user's reconnect still does.
DetachedKeepsManual(h) == [h EXCEPT !.stopped = TRUE, !.timer = FALSE, !.status = "disconnected"]

Detached(h) ==
    [h EXCEPT !.stopped = TRUE, !.manualSuspended = FALSE, !.timer = FALSE,
              !.status = "disconnected"]

Disconnect(t) ==
    /\ t \in Mounted
    /\ hook' = [hook EXCEPT ![t] = Detached(Dropped(@))]
    /\ connection' = Abandon({hook[t].sock})
    /\ halted' = halted \cup {t}
    /\ UNCHANGED <<suspended, behavior, authentication, away>>

\* reconnect, up to its connect
Anew(h) ==
    [h EXCEPT !.stopped = FALSE, !.manualSuspended = FALSE, !.timer = FALSE, !.attempt = 0,
              !.status = "connecting", !.restored = FALSE, !.preserve = FALSE]

Reconnect(t, s) ==
    /\ t \in Mounted /\ ~hook[t].authSuspended /\ s \in Offers
    /\ ConnectOne([hook EXCEPT ![t] = Anew(Dropped(@))], Abandon({hook[t].sock}), t, s)
    /\ suspended' = ForgetAll(suspended, {t})
    /\ halted' = halted \ {t} /\ away' = away \ {t}
    /\ UNCHANGED <<behavior, authentication>>

-----------------------------------------------------------------------------
(***************************************************************************)
(* Events: the retry timer, and those of a socket.                         *)
(***************************************************************************)
RetryTimer(t, s) ==
    /\ t \in Mounted /\ hook[t].timer /\ s \in Offers
    /\ ConnectOne(hook, connection, t, s)
    /\ UNCHANGED <<suspended, behavior, authentication, halted, away>>

\* The listeners are attached and isCurrent.
IsCurrent(s) == connection[s].heard /\ hook[connection[s].tab].current = s

\* onOpen
Opened(s) ==
    /\ connection[s].st = "connecting"
    /\ connection' = [connection EXCEPT ![s].st = "open"]
    /\ hook' = IF IsCurrent(s) THEN [hook EXCEPT ![connection[s].tab].attempt = 0] ELSE hook
    /\ UNCHANGED <<suspended, behavior, authentication, halted, away>>

\* onMessage: ready
Ready(s) ==
    /\ connection[s].st = "open" /\ IsCurrent(s)
    /\ hook' = [hook EXCEPT ![connection[s].tab] =
                               [@ EXCEPT !.attempt = 0, !.status = "connected"]]
    /\ UNCHANGED <<connection, suspended, behavior, authentication, halted, away>>

\* onMessage: a malformed message, one of another terminal, or an error
BadMessage(s) ==
    /\ connection[s].st = "open" /\ IsCurrent(s)
    /\ hook' = [hook EXCEPT ![connection[s].tab].status = "error"]
    /\ connection' = [connection EXCEPT ![s].st = "closing"]
    /\ UNCHANGED <<suspended, behavior, authentication, halted, away>>

Stopped(h) == [h EXCEPT !.stopped = TRUE, !.timer = FALSE, !.status = "disconnected"]

\* onClose of a socket that is not the current one
ClosedUnheard(s) ==
    /\ connection[s].st # "none" /\ ~IsCurrent(s)
    /\ connection' = [connection EXCEPT ![s] = Unused]
    /\ UNCHANGED <<hook, suspended, behavior, authentication, halted, away>>

\* onClose, with the code of the peer if there was one.  No event of the socket
\* follows.
ClosedWith(s, code) ==
    LET t == connection[s].tab
        h == Dropped(hook[t])
    IN /\ connection[s].st # "none" /\ IsCurrent(s)
       /\ connection[s].st = "connecting" => code = "other"
       /\ hook' = [hook EXCEPT ![t] = IF code \in Final THEN Stopped(h)
                                      ELSE ScheduleRetry(h, behavior)]
       /\ connection' = [connection EXCEPT ![s] = Unused]
       /\ halted' = IF code \in Final THEN halted \cup {t} ELSE halted
       /\ UNCHANGED <<suspended, behavior, authentication, away>>

\* onClose after the server has ended the application session: the loss is
\* announced unless it was before.
ClosedUnauthorized(s) ==
    LET t == connection[s].tab
        told == IF authentication = "in" THEN Mounted ELSE {}
    IN /\ connection[s].st \in {"open", "closing"} /\ IsCurrent(s)
       /\ hook' = Suspend([hook EXCEPT ![t] = [Stopped(Dropped(@)) EXCEPT !.authSuspended = TRUE]],
                          {t} \cup told)
       /\ \E q \in Orders(told) : suspended' = RememberAll(suspended, <<t>> \o q)
       /\ connection' = [connection EXCEPT ![s] = Unused]
       /\ halted' = halted \cup {t} /\ away' = away \cup {t} \cup told
       /\ authentication' = IF authentication = "in" THEN "lost" ELSE authentication
       /\ UNCHANGED behavior

\* The browser reports the end of a socket.
SocketEnds(s) ==
    \/ ClosedUnheard(s) \/ ClosedUnauthorized(s)
    \/ \E code \in Codes \ {"AUTHENTICATION_REQUIRED"} : ClosedWith(s, code)

-----------------------------------------------------------------------------
SocketNext ==
    \/ \E t \in Terminals, s \in BrowserSockets \cup {NoSocket} :
           Mount(t, s) \/ RestartClient(t, s) \/ Reconnect(t, s) \/ RetryTimer(t, s)
    \/ \E t \in Terminals : Unmount(t) \/ Disconnect(t)
    \/ SetManual \/ \E f \in [Terminals -> Offers] : SetAutomatic(f)
    \/ AuthenticationLost \/ UnmountAll \/ SignIn
    \/ \E s \in BrowserSockets : Opened(s) \/ Ready(s) \/ BadMessage(s) \/ SocketEnds(s)

SocketSpec == SocketInit /\ [][SocketNext]_socketVars

-----------------------------------------------------------------------------
(***************************************************************************)
(* Properties.                                                             *)
(***************************************************************************)
Hooks == [mounted : BOOLEAN, stopped : BOOLEAN, authSuspended : BOOLEAN,
          manualSuspended : BOOLEAN, timer : BOOLEAN, attempt : 0 .. RetrySteps,
          sock : BrowserSockets \cup {NoSocket}, current : BrowserSockets \cup {NoSocket},
          status : {"connecting", "connected", "reconnecting", "disconnected", "error"},
          restored : BOOLEAN, preserve : BOOLEAN]
Connections == [st : {"none", "connecting", "open", "closing"}, tab : Terminals \cup {NoSocket},
                heard : BOOLEAN]

SocketTypeOK ==
    /\ hook \in [Terminals -> Hooks] /\ connection \in [BrowserSockets -> Connections]
    /\ suspended \in Seq(Terminals) /\ Len(suspended) <= MaxIds /\ IsInjective(suspended)
    /\ behavior \in {"automatic", "manual"} /\ authentication \in {"in", "lost", "out"}
    /\ halted \subseteq Terminals /\ away \subseteq Terminals

\* Every connection of the browser is the one a mounted terminal knows: none is
\* left behind that would take the bridge of the tab from its successor.
ConnectionsAreKnown ==
    \A s \in BrowserSockets : IsLive(s) => LET t == connection[s].tab
                                  IN t \in Mounted /\ hook[t].sock = s /\ hook[t].current = s

\* A mounted terminal has a connection, waits for a retry, or shows that it is
\* disconnected, and it shows that only where the user's reconnect is needed;
\* it shows "connected" only over an open connection.
NeverStuck ==
    \A t \in Mounted :
        /\ hook[t].stopped <=> hook[t].status = "disconnected"
        /\ ~hook[t].stopped => hook[t].sock # NoSocket \/ hook[t].timer
        /\ hook[t].stopped => hook[t].sock = NoSocket /\ ~hook[t].timer
        /\ hook[t].status = "connected" =>
               hook[t].sock # NoSocket /\ connection[hook[t].sock].st = "open"

\* The socket a terminal knows listens for that terminal, and no other does; the
\* generation of a hook is the one of its socket.
ListenersFit ==
    /\ \A t \in Terminals : hook[t].sock # NoSocket =>
           /\ connection[hook[t].sock].tab = t /\ connection[hook[t].sock].heard
           /\ connection[hook[t].sock].st # "none"
    /\ \A t \in Terminals : hook[t].current = hook[t].sock
    /\ \A s \in BrowserSockets : connection[s].heard =>
           connection[s].tab \in Terminals /\ hook[connection[s].tab].sock = s

\* A terminal waits for a retry only while it is mounted, has no connection and
\* reconnecting is automatic; one that waits for the user is stopped; a terminal
\* that is not mounted keeps nothing.
WaitingFits ==
    \A t \in Terminals :
        /\ hook[t].timer => behavior = "automatic" /\ hook[t].sock = NoSocket /\ ~hook[t].stopped
        /\ hook[t].authSuspended \/ hook[t].manualSuspended => hook[t].stopped
        /\ ~hook[t].mounted => hook[t] = Unmounted

\* A terminal that is halted is mounted, and no setting makes it connect.
HaltedIsStopped ==
    \A t \in halted : hook[t].mounted /\ hook[t].stopped /\ ~hook[t].manualSuspended

\* The registry has room for the terminals of the browser.
RoomForAll == Cardinality(Terminals) <= MaxIds

\* The registry knows who waits for the user, and does not forget it with the
\* unmounts that follow the loss of the authentication.
AwayIsRemembered ==
    RoomForAll => \A t \in away :
        /\ Contains(suspended, t)
        /\ authentication = "lost" /\ hook[t].mounted => hook[t].preserve

\* useTerminalSocket.ts: every connection of the browser is the one its mounted terminal
\* knows, and a terminal that is mounted is connected, waits for a retry, or says that
\* the user must reconnect.
NoSocketLeaks ==
    /\ SocketTypeOK /\ ConnectionsAreKnown /\ NeverStuck
    /\ ListenersFit /\ WaitingFits /\ HaltedIsStopped /\ AwayIsRemembered

\* A terminal the user detached, another browser took over, or the server
\* stopped opens no connection until the user asks for one: neither a timer, a
\* late event nor a changed setting does.
HaltedStaysHalted ==
    \A s \in BrowserSockets :
       connection[s].st = "none" /\ connection'[s].st = "connecting" =>
           connection'[s].tab \notin halted \cap halted'

\* With manual reconnecting, a terminal that was mounted when the
\* authentication was lost is restored disconnected after the next login.
AwayStaysAway ==
    \A t \in Terminals :
        t \notin Mounted /\ hook'[t].mounted /\ t \in away /\ behavior = "manual" =>
            hook'[t].sock = NoSocket /\ hook'[t].status = "disconnected"

\* useTerminalSocket.ts: a terminal that was detached, taken over or stopped opens no
\* connection until the user asks, whichever timer or event comes late; with manual
\* reconnecting it also stays away after the next login, if the registry has room.
HaltIsObeyed ==
    [][HaltedStaysHalted /\ (RoomForAll => AwayStaysAway)]_socketVars

=============================================================================
