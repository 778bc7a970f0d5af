---------------------------- MODULE MCOperations ----------------------------
(***************************************************************************)
(* Small instances of what watches over the running server: the cleaner of *)
(* stale sessions, the limiter of logins, the index of authenticated       *)
(* sockets and the administrator's service.  Every behaviour is one of one *)
(* component, named by part, and the others rest; what the cleaner reads   *)
(* of the index and of the tracker is part of StaleCleanup.                *)
(***************************************************************************)
EXTENDS StaleCleanup, RateLimiter, WebSocketIndex, AdminService, TLC

CONSTANTS t1, t2,                       \* tabs
          x1, x2, y, z,                 \* spellings of addresses
          s1, s2, s3, a1                \* sockets and their session

\* The tab document of the cleaner
OneTab == <<t1>>

\* An address that is spelled in two ways
KeyOf == [k \in {x1, x2, y, z} |-> IF k = x2 THEN x1 ELSE k]

VARIABLE part   \* the component a behaviour is of

ASSUME InstancesAssumption ==
    /\ MaxSessionsAssumption /\ SettingsAssumption /\ UnavailableAssumption
    /\ StartAssumption /\ OrderAssumption /\ KeyAssumption
    /\ UnitsAssumption /\ SocketsAssumption
    /\ CapacityAssumption /\ BoundsAssumption /\ IdsAssumption /\ RoomAssumption

suiteVars == <<part, vars, limiterVars, indexVars, adminVars>>

-----------------------------------------------------------------------------
\* The components in the behaviours of the others
CleanerRests == Init /\ runtime = {}
LimiterRests == LimiterInit /\ lastNow = 0
IndexRests == IndexInit /\ \A s \in Sockets : socket[s].tab = t1
AdminRests == AdminInit /\ judged = {}

SuiteInit ==
    \/ part = "cleanup" /\ Init /\ LimiterRests /\ IndexRests /\ AdminRests
    \/ /\ part = "limiter" /\ LimiterInit /\ CleanerRests /\ IndexRests /\ AdminRests
    \/ /\ part = "index" /\ IndexInit /\ CleanerRests /\ LimiterRests /\ AdminRests
    \/ /\ part = "admin" /\ AdminInit /\ CleanerRests /\ LimiterRests /\ IndexRests

SuiteNext ==
    \/ part = "cleanup" /\ Next /\ UNCHANGED <<part, limiterVars, indexVars, adminVars>>
    \/ part = "limiter" /\ LimiterNext /\ UNCHANGED <<part, vars, indexVars, adminVars>>
    \/ part = "index" /\ IndexNext /\ UNCHANGED <<part, vars, limiterVars, adminVars>>
    \/ part = "admin" /\ AdminNext /\ UNCHANGED <<part, vars, limiterVars, indexVars>>

SuiteSpec == SuiteInit /\ [][SuiteNext]_suiteVars

Alike == Permutations(Ids)

=============================================================================
