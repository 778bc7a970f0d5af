--------------------------- MODULE SessionManager ---------------------------
(***************************************************************************)
(* The session manager of the server (session-manager.ts) with the parts   *)
(* it drives: the bridge registry, the terminal bridges, the WebSocket     *)
(* connection handler, the tmux runtime and the desired state kept by the  *)
(* tab store.                                                              *)
(*                                                                         *)
(* Node runs one callback at a time, so a step of this specification is    *)
(* the synchronous code between two awaits.  pc[r] names the await at      *)
(* which the call made by request r is suspended; the action named for it  *)
(* takes the effect of what is awaited together with the code that runs    *)
(* after it.  A connect request, its socket and the bridge it creates are  *)
(* one to one and share the identity of the request.                       *)
(***************************************************************************)
EXTENDS Naturals, Sequences

CONSTANTS Tabs,       \* tab identifiers (UUIDs, never reused)
          Requests,   \* HTTP operations and WebSocket connections
          NoRequest   \* "no bridge is registered"

ASSUME NoRequestAssumption == NoRequest \notin Requests
ASSUME TabsAssumption == Tabs # {}

VARIABLES
    tabState,   \* tab record in the store: absent, its desiredState, removed
    tmux,       \* does the tab's tmux session exist?
    gen,        \* generations map of the manager, 0 when the tab has no entry
    clock,      \* generationClock
    queue,      \* KeyedMutex: callers per tab, the head holds the lock
    kind,       \* operation a request performs
    target,     \* tab a request is about
    pc,         \* where the call of a request is suspended
    token,      \* generation in the AttachToken of a connect request
    sock,       \* the WebSocket of a connect request
    authority,  \* is the application session behind the socket active?
    handler,    \* 'connection' handler of the WebSocket server
    bridge,     \* TerminalBridge created for a connect request
    owner,      \* BridgeRegistry.owners
    life,       \* history: how often the tab was committed to stopped
    tokenLife   \* history: life of the tab when the token was issued

storeVars   == <<tabState, tmux, life>>
genVars     == <<gen, clock>>
requestVars == <<kind, target, token, tokenLife>>
socketVars  == <<sock, authority, handler>>
bridgeVars  == <<bridge, owner>>
vars == <<tabState, tmux, gen, clock, queue, kind, target, pc, token, sock,
          authority, handler, bridge, owner, life, tokenLife>>

-----------------------------------------------------------------------------
StopKinds == {"terminate", "restart", "closeTab"}
LifecycleKinds == StopKinds \cup {"recreate", "restartBridge"}
Kinds == LifecycleKinds \cup {"connect", "none"}

\* Steps in which a request holds the lock of its tab.
LockedSteps == {"probing", "persistingStop", "closingBridge", "killing",
                "preparing", "persistingActive", "bumping", "undoing",
                "removing", "forgetting", "spawning", "registering"}
Steps == LockedSteps \cup {"unused", "authorized", "queued", "succeeded", "failed"}

TypeOK ==
    /\ tabState \in [Tabs -> {"absent", "active", "stopped", "removed"}]
    /\ tmux \in [Tabs -> BOOLEAN]
    /\ gen \in [Tabs -> Nat]
    /\ clock \in Nat
    /\ queue \in [Tabs -> Seq(Requests)]
    /\ kind \in [Requests -> Kinds]
    /\ target \in [Requests -> Tabs]
    /\ pc \in [Requests -> Steps]
    /\ token \in [Requests -> Nat]
    /\ sock \in [Requests -> {"none", "open", "closing", "closed"}]
    /\ authority \in [Requests -> BOOLEAN]
    /\ handler \in [Requests -> {"none", "pending", "ready", "removing", "settled"}]
    /\ bridge \in [Requests -> {"none", "open", "closed"}]
    /\ owner \in [Tabs -> Requests \cup {NoRequest}]
    /\ life \in [Tabs -> Nat]
    /\ tokenLife \in [Requests -> Nat]

\* The server starts on whatever the last run left behind: the persisted
\* desired states, and tmux sessions of known tabs, also of a tab whose stop
\* was persisted before the previous process died.
Init ==
    /\ tabState \in [Tabs -> {"absent", "active", "stopped"}]
    /\ tmux \in {m \in [Tabs -> BOOLEAN] : \A t \in Tabs : m[t] => tabState[t] # "absent"}
    /\ gen = [t \in Tabs |-> 0]
    /\ clock = 0
    /\ queue = [t \in Tabs |-> <<>>]
    /\ kind = [r \in Requests |-> "none"]
    /\ target = [r \in Requests |-> CHOOSE t \in Tabs : TRUE]
    /\ pc = [r \in Requests |-> "unused"]
    /\ token = [r \in Requests |-> 0]
    /\ sock = [r \in Requests |-> "none"]
    /\ authority = [r \in Requests |-> FALSE]
    /\ handler = [r \in Requests |-> "none"]
    /\ bridge = [r \in Requests |-> "none"]
    /\ owner = [t \in Tabs |-> NoRequest]
    /\ life = [t \in Tabs |-> 0]
    /\ tokenLife = [r \in Requests |-> 0]

-----------------------------------------------------------------------------
(***************************************************************************)
(* Building blocks.                                                        *)
(***************************************************************************)
Exists(t) == tabState[t] \in {"active", "stopped"}

\* The call of r holds the lock of its tab.
Running(r) == queue[target[r]] # <<>> /\ Head(queue[target[r]]) = r

Goto(r, step) == pc' = [pc EXCEPT ![r] = step] /\ UNCHANGED queue

\* The call settles and releases the lock.
Finish(r, result) ==
    /\ pc' = [pc EXCEPT ![r] = result]
    /\ queue' = [queue EXCEPT ![target[r]] = Tail(@)]

IncrementGeneration(t) ==
    /\ clock' = clock + 1
    /\ gen' = [gen EXCEPT ![t] = clock + 1]

\* TerminalBridge.shutdown with closeSocket for each of the bridges in B: a
\* bridge that is already closed does nothing, the pty is killed, and a socket
\* that is still open starts its closing handshake.
Shutdown(B) ==
    /\ bridge' = [r \in Requests |->
                    IF r \in B /\ bridge[r] = "open" THEN "closed" ELSE bridge[r]]
    /\ sock' = [r \in Requests |->
                    IF r \in B /\ bridge[r] = "open" /\ sock[r] = "open"
                    THEN "closing" ELSE sock[r]]

CloseSocket(r) ==
    sock' = [sock EXCEPT ![r] = IF @ = "open" THEN "closing" ELSE @]

-----------------------------------------------------------------------------
(***************************************************************************)
(* Callers: HTTP routes and WebSocket upgrades.                            *)
(***************************************************************************)
CreateTab(t) ==
    /\ tabState[t] = "absent"
    /\ tabState' = [tabState EXCEPT ![t] = "active"]
    /\ UNCHANGED <<tmux, life, genVars, queue, pc, requestVars, socketVars, bridgeVars>>

\* An upgrade is authorized without the lock: the token carries the tab's
\* generation, which ensureGeneration allocates on first use.  The socket is
\* registered with the authentication index and its handler starts.
Upgrade(r, t) ==
    /\ pc[r] = "unused"
    /\ tabState[t] = "active"
    /\ IF gen[t] = 0 THEN IncrementGeneration(t) ELSE UNCHANGED genVars
    /\ token' = [token EXCEPT ![r] = gen'[t]]
    /\ tokenLife' = [tokenLife EXCEPT ![r] = life[t]]
    /\ kind' = [kind EXCEPT ![r] = "connect"]
    /\ target' = [target EXCEPT ![r] = t]
    /\ sock' = [sock EXCEPT ![r] = "open"]
    /\ authority' = [authority EXCEPT ![r] = TRUE]
    /\ handler' = [handler EXCEPT ![r] = "pending"]
    /\ Goto(r, "authorized")
    /\ UNCHANGED <<storeVars, bridgeVars>>

\* The handler calls connect in a later microtask.
Connect(r) ==
    /\ pc[r] = "authorized"
    /\ pc' = [pc EXCEPT ![r] = "queued"]
    /\ queue' = [queue EXCEPT ![target[r]] = Append(@, r)]
    /\ UNCHANGED <<storeVars, genVars, requestVars, socketVars, bridgeVars>>

\* terminate, recreate, restart, restartBridge and closeTab: every caller
\* waits in the KeyedMutex of the tab.
Request(r, t, k) ==
    /\ pc[r] = "unused"
    /\ kind' = [kind EXCEPT ![r] = k]
    /\ target' = [target EXCEPT ![r] = t]
    /\ pc' = [pc EXCEPT ![r] = "queued"]
    /\ queue' = [queue EXCEPT ![t] = Append(@, r)]
    /\ UNCHANGED <<storeVars, genVars, token, tokenLife, socketVars, bridgeVars>>

-----------------------------------------------------------------------------
(***************************************************************************)
(* The lock is acquired: the synchronous prefix of each operation.         *)
(***************************************************************************)
Starts(r, k) == pc[r] = "queued" /\ Running(r) /\ kind[r] = k

\* Mutant: only the generation is compared.
TokenIsCurrentAnyState(r) == token[r] = gen[target[r]]

\* The token is checked again under the lock.
TokenIsCurrent(r) ==
    /\ tabState[target[r]] = "active"
    /\ token[r] = gen[target[r]]

BeginConnect(r) ==
    /\ Starts(r, "connect")
    /\ \/ TokenIsCurrent(r) /\ Goto(r, "preparing")
       \/ Finish(r, "failed")  \* StaleAttachError, or no valid runtime settings
    /\ UNCHANGED <<storeVars, genVars, requestVars, socketVars, bridgeVars>>

\* requireLifecycleTab finds no record, or the operation cannot read a valid
\* shell and history limit from the settings.
Refuse(r) ==
    /\ \E k \in LifecycleKinds : Starts(r, k)
    /\ \/ ~Exists(target[r])
       \/ kind[r] \in {"recreate", "restart"}
    /\ Finish(r, "failed")
    /\ UNCHANGED <<storeVars, genVars, requestVars, socketVars, bridgeVars>>

\* A stopped tab is probed first; an active one is stopped at once.
BeginTerminate(r) ==
    /\ Starts(r, "terminate")
    /\ Exists(target[r])
    /\ IF tabState[target[r]] = "stopped"
       THEN Goto(r, "probing") /\ UNCHANGED genVars
       ELSE Goto(r, "persistingStop") /\ IncrementGeneration(target[r])
    /\ UNCHANGED <<storeVars, requestVars, socketVars, bridgeVars>>

BeginRecreate(r) ==
    /\ Starts(r, "recreate")
    /\ tabState[target[r]] = "stopped"
    /\ Goto(r, "probing")
    /\ UNCHANGED <<storeVars, genVars, requestVars, socketVars, bridgeVars>>

\* restart and closeTab invalidate every token before they first await.
BeginStop(r) ==
    /\ Starts(r, "restart") \/ Starts(r, "closeTab")
    /\ Exists(target[r])
    /\ IncrementGeneration(target[r])
    /\ Goto(r, "persistingStop")
    /\ UNCHANGED <<storeVars, requestVars, socketVars, bridgeVars>>

BeginRestartBridge(r) ==
    /\ Starts(r, "restartBridge")
    /\ Exists(target[r])
    /\ Goto(r, "closingBridge")
    /\ UNCHANGED <<storeVars, genVars, requestVars, socketVars, bridgeVars>>

-----------------------------------------------------------------------------
(***************************************************************************)
(* Steps under the lock, each the completion of one await.                 *)
(***************************************************************************)

\* runtime.exists settles.  terminate has nothing to do only when there is
\* neither a session nor a registered bridge; a failed probe counts as "may
\* exist".  recreate refuses unless the session is known to be gone.
ProbeTerminate(r) ==
    /\ pc[r] = "probing" /\ kind[r] = "terminate"
    /\ \/ /\ ~tmux[target[r]] /\ owner[target[r]] = NoRequest
          /\ Finish(r, "succeeded") /\ UNCHANGED genVars
       \/ Goto(r, "persistingStop") /\ IncrementGeneration(target[r])
    /\ UNCHANGED <<storeVars, requestVars, socketVars, bridgeVars>>

ProbeRecreate(r) ==
    /\ pc[r] = "probing" /\ kind[r] = "recreate"
    /\ \/ ~tmux[target[r]] /\ Goto(r, "preparing") /\ IncrementGeneration(target[r])
       \/ Finish(r, "failed") /\ UNCHANGED genVars
    /\ UNCHANGED <<storeVars, requestVars, socketVars, bridgeVars>>

\* Mutant: a failed write does not end the operation.
PersistStopUnchecked(r) ==
    /\ pc[r] = "persistingStop"
    /\ \/ /\ tabState' = [tabState EXCEPT ![target[r]] = "stopped"]
          /\ life' = [life EXCEPT ![target[r]] = @ + 1]
       \/ UNCHANGED <<tabState, life>>
    /\ Goto(r, "closingBridge")
    /\ UNCHANGED <<tmux, genVars, requestVars, socketVars, bridgeVars>>

\* store.setDesiredState(id, 'stopped'): the document changes, or the write
\* fails and it does not.
PersistStop(r) ==
    /\ pc[r] = "persistingStop"
    /\ \/ /\ tabState' = [tabState EXCEPT ![target[r]] = "stopped"]
          /\ life' = [life EXCEPT ![target[r]] = @ + 1]
          /\ Goto(r, "closingBridge")
       \/ Finish(r, "failed") /\ UNCHANGED <<tabState, life>>
    /\ UNCHANGED <<tmux, genVars, requestVars, socketVars, bridgeVars>>

\* Mutant: a connect leaves it to registry.replace to close the old bridge.
CloseBridgeOnlyToStop(r) ==
    /\ pc[r] = "closingBridge"
    /\ IF kind[r] = "connect"
       THEN UNCHANGED <<sock, bridgeVars>> /\ Goto(r, "spawning")
       ELSE /\ Shutdown({owner[target[r]]})
            /\ owner' = [owner EXCEPT ![target[r]] = NoRequest]
            /\ IF kind[r] = "restartBridge" THEN Finish(r, "succeeded") ELSE Goto(r, "killing")
    /\ UNCHANGED <<storeVars, genVars, requestVars, authority, handler>>

\* registry.close: the registered bridge is closed, then forgotten.
CloseBridge(r) ==
    /\ pc[r] = "closingBridge"
    /\ Shutdown({owner[target[r]]})
    /\ owner' = [owner EXCEPT ![target[r]] = NoRequest]
    /\ \/ kind[r] = "connect" /\ Goto(r, "spawning")
       \/ kind[r] = "restartBridge" /\ Finish(r, "succeeded")
       \/ kind[r] \in StopKinds /\ Goto(r, "killing")
    /\ UNCHANGED <<storeVars, genVars, requestVars, authority, handler>>

AfterKill(r) ==
    \/ kind[r] = "restart" /\ Goto(r, "preparing")
    \/ kind[r] = "closeTab" /\ Goto(r, "removing")
    \/ kind[r] = "terminate" /\ Finish(r, "succeeded")

\* Mutant: a failed kill is taken for a successful one.
KillRuntimeUnchecked(r) ==
    /\ pc[r] = "killing"
    /\ \E alive \in {FALSE, tmux[target[r]]} : tmux' = [tmux EXCEPT ![target[r]] = alive]
    /\ AfterKill(r)
    /\ UNCHANGED <<tabState, life, genVars, requestVars, socketVars, bridgeVars>>

\* runtime.kill: a missing session (exit code 1) is no error; any
\* other failure is.
KillRuntime(r) ==
    /\ pc[r] = "killing"
    /\ \/ tmux' = [tmux EXCEPT ![target[r]] = FALSE] /\ AfterKill(r)
       \/ \E alive \in {FALSE, tmux[target[r]]} :
             tmux' = [tmux EXCEPT ![target[r]] = alive] /\ Finish(r, "failed")
    /\ UNCHANGED <<tabState, life, genVars, requestVars, socketVars, bridgeVars>>

\* runtime.prepare creates the session if it is missing and sets its options.
\* It can fail before the session exists and after it does.
Prepare(r) ==
    /\ pc[r] = "preparing"
    /\ \/ /\ tmux' = [tmux EXCEPT ![target[r]] = TRUE]
          /\ Goto(r, IF kind[r] = "connect" THEN "closingBridge" ELSE "persistingActive")
       \/ /\ \E alive \in {TRUE, tmux[target[r]]} : tmux' = [tmux EXCEPT ![target[r]] = alive]
          /\ IF kind[r] = "connect" THEN Finish(r, "failed") ELSE Goto(r, "undoing")
    /\ UNCHANGED <<tabState, life, genVars, requestVars, socketVars, bridgeVars>>

\* store.setDesiredState(id, 'active'): upgrades are authorized again from the
\* commit on, the operation itself continues in a later step.
PersistActive(r) ==
    /\ pc[r] = "persistingActive"
    /\ \/ tabState' = [tabState EXCEPT ![target[r]] = "active"] /\ Goto(r, "bumping")
       \/ UNCHANGED tabState /\ Goto(r, "undoing")
    /\ UNCHANGED <<tmux, life, genVars, requestVars, socketVars, bridgeVars>>

\* Mutant: tokens handed out around the stop stay valid.
BumpGenerationMissing(r) ==
    /\ pc[r] = "bumping"
    /\ Finish(r, "succeeded")
    /\ UNCHANGED <<storeVars, genVars, requestVars, socketVars, bridgeVars>>

\* The second incrementGeneration of recreate and restart.
BumpGeneration(r) ==
    /\ pc[r] = "bumping"
    /\ IncrementGeneration(target[r])
    /\ Finish(r, "succeeded")
    /\ UNCHANGED <<storeVars, requestVars, socketVars, bridgeVars>>

\* ignoreFailure(runtime.kill): the session may survive the clean-up.
Undo(r) ==
    /\ pc[r] = "undoing"
    /\ \E alive \in {FALSE, tmux[target[r]]} : tmux' = [tmux EXCEPT ![target[r]] = alive]
    /\ Finish(r, "failed")
    /\ UNCHANGED <<tabState, life, genVars, requestVars, socketVars, bridgeVars>>

RemoveTab(r) ==
    /\ pc[r] = "removing"
    /\ \/ tabState' = [tabState EXCEPT ![target[r]] = "removed"] /\ Goto(r, "forgetting")
       \/ UNCHANGED tabState /\ Finish(r, "failed")
    /\ UNCHANGED <<tmux, life, genVars, requestVars, socketVars, bridgeVars>>

\* generations.delete(id)
ForgetGeneration(r) ==
    /\ pc[r] = "forgetting"
    /\ gen' = [gen EXCEPT ![target[r]] = 0]
    /\ Finish(r, "succeeded")
    /\ UNCHANGED <<storeVars, clock, requestVars, socketVars, bridgeVars>>

\* ptyFactory.spawn and the TerminalBridge constructor.  A constructor that
\* cannot install its listeners shuts itself down, socket included.
SpawnBridge(r) ==
    /\ pc[r] = "spawning"
    /\ \/ /\ bridge' = [bridge EXCEPT ![r] = "open"]
          /\ Goto(r, "registering") /\ UNCHANGED sock
       \/ /\ CloseSocket(r) \/ UNCHANGED sock
          /\ Finish(r, "failed") /\ UNCHANGED bridge
    /\ UNCHANGED <<storeVars, genVars, requestVars, authority, handler, owner>>

\* registry.replace: a previous owner is closed before it is replaced.
RegisterBridge(r) ==
    /\ pc[r] = "registering"
    /\ Shutdown({owner[target[r]]} \ {r})
    /\ owner' = [owner EXCEPT ![target[r]] = r]
    /\ Finish(r, "succeeded")
    /\ UNCHANGED <<storeVars, genVars, requestVars, authority, handler>>

-----------------------------------------------------------------------------
(***************************************************************************)
(* The 'connection' handler of the WebSocket server, and the environment.  *)
(***************************************************************************)

\* connect resolved.  The connection is announced as ready only if its socket
\* is open and its application session active; otherwise the bridge is closed
\* and then removed from the registry.
ConnectionResolved(r) ==
    /\ handler[r] = "pending" /\ pc[r] = "succeeded"
    /\ \/ /\ sock[r] = "open" /\ authority[r]
          /\ handler' = [handler EXCEPT ![r] = "ready"]
          /\ UNCHANGED <<sock, bridge>>
       \/ /\ sock[r] # "open" \/ ~authority[r]
          /\ handler' = [handler EXCEPT ![r] = "removing"]
          /\ bridge' = [bridge EXCEPT ![r] = "closed"]
          /\ CloseSocket(r)
    /\ UNCHANGED <<storeVars, genVars, queue, pc, requestVars, authority, owner>>

ConnectionRejected(r) ==
    /\ handler[r] = "pending" /\ pc[r] = "failed"
    /\ handler' = [handler EXCEPT ![r] = "settled"]
    /\ CloseSocket(r)
    /\ UNCHANGED <<storeVars, genVars, queue, pc, requestVars, authority, bridgeVars>>

\* What the 'close' and 'error' listeners of the bridge and of the connection
\* handler do: the handler can only clean up an owner it already has.
SocketEnded(r) ==
    /\ bridge' = [bridge EXCEPT ![r] = IF @ = "open" THEN "closed" ELSE @]
    /\ handler' = [handler EXCEPT ![r] = IF @ = "ready" THEN "removing" ELSE @]

SocketClosed(r) ==
    /\ sock[r] \in {"open", "closing"}
    /\ sock' = [sock EXCEPT ![r] = "closed"]
    /\ SocketEnded(r)
    /\ UNCHANGED <<storeVars, genVars, queue, pc, requestVars, authority, owner>>

SocketError(r) ==
    /\ sock[r] = "open"
    /\ sock' = [sock EXCEPT ![r] = "closing"]
    /\ SocketEnded(r)
    /\ UNCHANGED <<storeVars, genVars, queue, pc, requestVars, authority, owner>>

\* Mutant: whoever owns the tab is forgotten.
RegistryRemoveAny(r) ==
    /\ handler[r] = "removing"
    /\ handler' = [handler EXCEPT ![r] = "settled"]
    /\ owner' = [owner EXCEPT ![target[r]] = NoRequest]
    /\ UNCHANGED <<storeVars, genVars, queue, pc, requestVars, sock, authority, bridge>>

\* registry.remove: only the owner it was called for is forgotten.
RegistryRemove(r) ==
    /\ handler[r] = "removing"
    /\ handler' = [handler EXCEPT ![r] = "settled"]
    /\ owner' = [owner EXCEPT ![target[r]] = IF @ = r THEN NoRequest ELSE @]
    /\ UNCHANGED <<storeVars, genVars, queue, pc, requestVars, sock, authority, bridge>>

\* The bridge ends itself: pty exit, invalid message, backpressure, a failed
\* send, write or resize, or input whose session is no longer authenticated.
BridgeEnds(r) ==
    /\ bridge[r] = "open"
    /\ Shutdown({r})
    /\ UNCHANGED <<storeVars, genVars, queue, pc, requestVars, authority, handler, owner>>

\* The application session expires; its sockets are closed by the next sweep.
SessionExpires(r) ==
    /\ authority[r]
    /\ authority' = [authority EXCEPT ![r] = FALSE]
    /\ UNCHANGED <<storeVars, genVars, queue, pc, requestVars, sock, handler, bridgeVars>>

\* Logout, revocation, or the sweep after expiry: the index closes the socket.
RevokeSocket(r) ==
    /\ sock[r] = "open"
    /\ authority' = [authority EXCEPT ![r] = FALSE]
    /\ CloseSocket(r)
    /\ UNCHANGED <<storeVars, genVars, queue, pc, requestVars, handler, bridgeVars>>

\* The user leaves the shell, or tmux dies.
ShellExits(t) ==
    /\ tmux[t]
    /\ tmux' = [tmux EXCEPT ![t] = FALSE]
    /\ UNCHANGED <<tabState, life, genVars, queue, pc, requestVars, socketVars, bridgeVars>>

-----------------------------------------------------------------------------
Begin(r) ==
    \/ BeginConnect(r) \/ Refuse(r) \/ BeginTerminate(r) \/ BeginRecreate(r)
    \/ BeginStop(r) \/ BeginRestartBridge(r)

\* The next step of the call of request r.
Step(r) ==
    \/ Connect(r) \/ Begin(r) \/ ProbeTerminate(r) \/ ProbeRecreate(r)
    \/ PersistStop(r) \/ CloseBridge(r) \/ KillRuntime(r) \/ Prepare(r)
    \/ PersistActive(r) \/ BumpGeneration(r) \/ Undo(r) \/ RemoveTab(r)
    \/ ForgetGeneration(r) \/ SpawnBridge(r) \/ RegisterBridge(r)

\* The next step of the connection handler of request r.
HandlerStep(r) ==
    ConnectionResolved(r) \/ ConnectionRejected(r) \/ RegistryRemove(r)

SocketStep(r) ==
    \/ SocketClosed(r) \/ SocketError(r) \/ BridgeEnds(r)
    \/ SessionExpires(r) \/ RevokeSocket(r)

Next ==
    \/ \E t \in Tabs : CreateTab(t) \/ ShellExits(t)
    \/ \E r \in Requests, t \in Tabs :
          Upgrade(r, t) \/ \E k \in LifecycleKinds : Request(r, t, k)
    \/ \E r \in Requests : Step(r) \/ HandlerStep(r) \/ SocketStep(r)

Spec == Init /\ [][Next]_vars

-----------------------------------------------------------------------------
(***************************************************************************)
(* Properties.                                                             *)
(***************************************************************************)

\* The operation holding the lock of t is at the given step.
LockHolderAt(t, step) == \E r \in Requests : target[r] = t /\ pc[r] = step

\* A tab never has two live bridges, whichever way reconnects, replacements,
\* restarts and socket closes interleave: attach closes the old owner before it
\* spawns the new pty (session-manager.ts attach).
OneBridgePerTab ==
    \A r, s \in Requests :
        bridge[r] = "open" /\ bridge[s] = "open" /\ target[r] = target[s] => r = s

\* Every live bridge can be found by lifecycle operations: it is the registered
\* owner of its tab, unless it is just being registered.  A late
\* registry.remove for a replaced bridge must not drop its successor.
LiveBridgeIsRegistered ==
    \A r \in Requests :
        bridge[r] = "open" => owner[target[r]] = r \/ pc[r] = "registering"

\* Once a tab's stopped state is committed, the only moment at which a bridge
\* is still live is before the stopping operation has reached registry.close;
\* no connect with a token from before or during the stop attaches later.
StoppedTabHasNoBridge ==
    \A r \in Requests :
        bridge[r] = "open" /\ tabState[target[r]] = "stopped" =>
            LockHolderAt(target[r], "closingBridge")

\* A bridge belongs to the life of the tab for which its upgrade was
\* authorized: a token issued before a stop is never honoured after the tab has
\* been recreated or restarted (the second incrementGeneration).
AttachWithinLife ==
    \A r \in Requests :
        bridge[r] = "open" /\ tokenLife[r] # life[target[r]] =>
            LockHolderAt(target[r], "closingBridge")

\* closeTab removes a record only when nothing is left that could not be
\* reached any more: no tmux session and no live bridge.
RemovedTabLeavesNothing ==
    \A t \in Tabs :
        tabState[t] \in {"absent", "removed"} =>
            /\ ~tmux[t]
            /\ \A r \in Requests : target[r] = t => bridge[r] # "open"

\* A live pty whose socket is gone exists only while connect is still under
\* way or its result not yet handled; the handler notices the closed socket.
LivePtyHasSocket ==
    \A r \in Requests :
        bridge[r] = "open" /\ sock[r] = "closed" => handler[r] = "pending"

\* The shell of a tab that is recorded as active is never killed by the
\* manager: 'stopped' is committed before kill-session is issued, so a failed
\* write leaves the running shell alone.
ActiveShellNeverKilled ==
    [][\A t \in Tabs : tabState[t] = "active" /\ tmux[t] /\ ~tmux'[t] => ShellExits(t)]_vars

\* terminate reports success only if the tab is stopped, its tmux session gone
\* and no bridge live.
TerminateSucceedsWhenStopped ==
    [][\A r \in Requests :
         kind[r] = "terminate" /\ pc[r] # "succeeded" /\ pc'[r] = "succeeded" =>
            /\ tabState'[target[r]] = "stopped"
            /\ ~tmux'[target[r]]
            /\ \A s \in Requests : target[s] = target[r] => bridge'[s] # "open"]_vars

-----------------------------------------------------------------------------
(***************************************************************************)
(* The inductive invariant behind the safety properties: what each step of *)
(* an operation may rely on although other callbacks run in between.       *)
(***************************************************************************)

\* Only the head of the queue is past its first step.
LockInv == \A r \in Requests : pc[r] \in LockedSteps => Running(r)

\* Which operations reach which step.
KindInv ==
    \A r \in Requests :
        /\ pc[r] = "unused" => kind[r] = "none"
        /\ pc[r] \in {"authorized", "spawning", "registering"} => kind[r] = "connect"
        /\ pc[r] = "persistingStop" => kind[r] \in StopKinds
        /\ pc[r] = "preparing" => kind[r] \in {"connect", "recreate", "restart"}
        /\ pc[r] \in {"persistingActive", "bumping"} => kind[r] \in {"recreate", "restart"}
        /\ pc[r] \in {"removing", "forgetting"} => kind[r] = "closeTab"

\* The desired state of the tab while an operation is at a step.
StateOK(r) ==
    /\ kind[r] = "connect" => tabState[target[r]] # "absent"
    /\ pc[r] \in {"persistingStop", "closingBridge"} => Exists(target[r])
    /\ pc[r] = "closingBridge" /\ kind[r] \in StopKinds => tabState[target[r]] = "stopped"
    /\ pc[r] \in {"preparing", "closingBridge"} /\ kind[r] = "connect" =>
          tabState[target[r]] = "active"
    /\ pc[r] = "preparing" /\ kind[r] # "connect" => tabState[target[r]] = "stopped"
    /\ pc[r] \in {"probing", "killing", "persistingActive", "undoing", "removing"} =>
          tabState[target[r]] = "stopped"
    /\ pc[r] \in {"bumping", "spawning", "registering"} => tabState[target[r]] = "active"
    /\ pc[r] = "forgetting" => tabState[target[r]] = "removed"

StateInv == \A r \in Requests : StateOK(r)

\* Who owns a tab, and where its bridge came from.
BridgeInv ==
    /\ \A r \in Requests :
        /\ bridge[r] # "none" => kind[r] = "connect" /\ pc[r] \in {"registering", "succeeded"}
        /\ bridge[r] = "open" /\ pc[r] = "succeeded" => owner[target[r]] = r
        /\ pc[r] \in {"spawning", "registering"} => owner[target[r]] = NoRequest
    /\ \A t \in Tabs :
        owner[t] # NoRequest => target[owner[t]] = t /\ pc[owner[t]] = "succeeded"

\* The connection handler waits for as long as its connect is under way, and
\* removes a bridge from the registry only after it has closed it.
HandlerInv ==
    \A r \in Requests :
        /\ handler[r] # "none" => kind[r] = "connect"
        /\ kind[r] = "connect" /\ pc[r] \notin {"succeeded", "failed"} => handler[r] = "pending"
        /\ handler[r] = "removing" => bridge[r] # "open"

\* A current token was issued in the current life of the tab, except between
\* the commit of 'active' and the second incrementGeneration.
TokenOK(r) ==
    /\ 0 < token[r] /\ token[r] <= clock
    /\ TokenIsCurrent(r) /\ ~LockHolderAt(target[r], "bumping") =>
          tokenLife[r] = life[target[r]]
    /\ pc[r] \in {"preparing", "closingBridge", "spawning", "registering"} =>
          tokenLife[r] = life[target[r]]

TokenInv ==
    /\ \A t \in Tabs : gen[t] <= clock
    /\ \A r \in Requests : kind[r] = "connect" => TokenOK(r)

\* While closeTab removes the record, the session is gone.
RemovalInv ==
    \A r \in Requests : pc[r] = "removing" => ~tmux[target[r]]

IInv ==
    /\ TypeOK /\ LockInv /\ KindInv /\ StateInv /\ BridgeInv /\ HandlerInv
    /\ TokenInv /\ RemovalInv
    /\ StoppedTabHasNoBridge /\ AttachWithinLife /\ RemovedTabLeavesNothing
    /\ LivePtyHasSocket

=============================================================================
