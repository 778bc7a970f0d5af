------------------------------ MODULE MCClient ------------------------------
(***************************************************************************)
(* Small instances of the two ends of a terminal and of two other hooks of *)
(* the browser: the bridge of the server, the terminal sockets, the        *)
(* authentication and the administrator's view of the client.  Every       *)
(* behaviour is one of one component, named by part; the others rest: each *)
(* hook talks to the server, not to the others, and the loss of            *)
(* authentication that they announce to each other is part of each module. *)
(***************************************************************************)
EXTENDS TerminalBridge, ClientSocket, ClientAuth, ClientAdmin, TLC

VARIABLE part   \* the component a behaviour is of

ASSUME InstancesAssumption ==
    /\ SizesAssumption /\ ChunksAssumption /\ TerminalsAssumption
    /\ LimitsAssumption /\ NoneAssumption /\ MaxEpochsAssumption
    /\ MaxChangesAssumption /\ TasksAssumption /\ CleanupAssumption

suiteVars == <<part, vars, socketVars, clientVars, viewVars>>

-----------------------------------------------------------------------------
\* The bridge, the sockets, the authentication and the administrator's view, in the
\* behaviours of the others
BridgeRests == Init
SocketsRest == SocketInit /\ behavior = "manual"
AuthRests == ClientInit /\ mode = "local"
ViewRests == ViewInit

SuiteInit ==
    \/ part = "bridge" /\ Init /\ SocketsRest /\ AuthRests /\ ViewRests
    \/ part = "socket" /\ SocketInit /\ BridgeRests /\ AuthRests /\ ViewRests
    \/ part = "auth" /\ ClientInit /\ BridgeRests /\ SocketsRest /\ ViewRests
    \/ part = "view" /\ ViewInit /\ BridgeRests /\ SocketsRest /\ AuthRests

\* Where it may stop: bridge and socket are closed.
Ended == part = "bridge" /\ bridge = "closed" /\ websocket = "closed"

SuiteNext ==
    \/ part = "bridge" /\ Next /\ UNCHANGED <<part, socketVars, clientVars, viewVars>>
    \/ part = "socket" /\ SocketNext /\ UNCHANGED <<part, vars, clientVars, viewVars>>
    \/ part = "auth" /\ ClientNext /\ UNCHANGED <<part, vars, socketVars, viewVars>>
    \/ part = "view" /\ ViewNext /\ UNCHANGED <<part, vars, socketVars, clientVars>>
    \/ Ended /\ UNCHANGED suiteVars

SuiteSpec == SuiteInit /\ [][SuiteNext]_suiteVars

Alike == Permutations(Ops) \cup Permutations(Loads)

=============================================================================
