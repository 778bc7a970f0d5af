------------------------------ MODULE MCAccess ------------------------------
(***************************************************************************)
(* Small instances of who may use the server: the authentication service   *)
(* with its own passwords and the requests that reach it through the       *)
(* middleware, whose modules are extended, and the service behind a proxy  *)
(* that names the user (proxied).  Every behaviour is one of one           *)
(* component, named by part, and the extended ones rest in those of the    *)
(* others: AuthRequests takes of the service only which sessions are live. *)
(***************************************************************************)
EXTENDS AuthService, AuthRequests, TLC

VARIABLE part   \* the component a behaviour is of

VARIABLES clock, proxySession, proxyAnnounced, proxyPassword, proxyEpoch, proxyEst,
          proxyCred, proxyRequest, proxyChanging

Proxied == INSTANCE AuthService WITH
    Mode <- "trusted-header", MaxPending <- 3, Idle <- 2, Absolute <- 3, MaxNow <- 3,
    MaxCsrf <- 1, now <- clock, session <- proxySession, announced <- proxyAnnounced,
    password <- proxyPassword, epoch <- proxyEpoch, est <- proxyEst, cred <- proxyCred,
    request <- proxyRequest, changing <- proxyChanging

proxiedVars == <<clock, proxySession, proxyAnnounced, proxyPassword, proxyEpoch, proxyEst,
    proxyCred, proxyRequest, proxyChanging>>

ASSUME InstancesAssumption ==
    /\ ModeAssumption /\ CapacityAssumption /\ DurationAssumption /\ NoneAssumption
    /\ BoundsAssumption /\ NoIdAssumption /\ Proxied!ModeAssumption
    /\ Proxied!CapacityAssumption /\ Proxied!DurationAssumption /\ Proxied!NoneAssumption
    /\ Proxied!BoundsAssumption

suiteVars == <<part, vars, proxiedVars, httpVars>>

-----------------------------------------------------------------------------
\* What another component owns is not there.
Absent == "absent"

ProxiedAbsent ==
    /\ clock = Absent /\ proxySession = Absent /\ proxyAnnounced = Absent
    /\ proxyPassword = Absent /\ proxyEpoch = Absent /\ proxyEst = Absent
    /\ proxyCred = Absent /\ proxyRequest = Absent /\ proxyChanging = Absent

\* The service with passwords, and the requests, in the behaviours of the others
ServiceRests == Init /\ password = NoPassword
RequestsRest == HttpInit /\ \A b, c \in Browsers : b # c => jar[b].user # jar[c].user

SuiteInit ==
    \/ part = "service" /\ Init /\ ProxiedAbsent /\ RequestsRest
    \/ part = "proxied" /\ Proxied!Init /\ ServiceRests /\ RequestsRest
    \/ part = "requests" /\ HttpInit /\ ServiceRests /\ ProxiedAbsent

SuiteNext ==
    \/ part = "service" /\ Next /\ UNCHANGED <<part, proxiedVars, httpVars>>
    \/ part = "proxied" /\ Proxied!Next /\ UNCHANGED <<part, vars, httpVars>>
    \/ part = "requests" /\ HttpNext /\ UNCHANGED <<part, vars, proxiedVars>>

SuiteSpec == SuiteInit /\ [][SuiteNext]_suiteVars

Alike == Permutations(Requests) \cup Permutations(Ids) \cup Permutations(Browsers)
         \cup Permutations(Passwords)

-----------------------------------------------------------------------------
\* Behind a proxy, too, the inductive invariant of the service holds, its sessions
\* stay within its capacity, and none outlives its idle, absolute or upstream time or
\* ends without an announcement to its sockets.
ProxiedIsSafe ==
    /\ [](part = "proxied" => Proxied!IInv /\ Proxied!WithinCapacity)
    /\ [][part = "proxied" => Proxied!EndsOnTime]_suiteVars

=============================================================================
