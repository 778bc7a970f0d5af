---------------------------- MODULE MCAccessLive ----------------------------
(***************************************************************************)
(* Smaller instances of who may use the server and of what watches over    *)
(* it, under the fairness that the code's scheduling justifies: every      *)
(* request is answered, a socket that is dead or without a session goes, a *)
(* run of the cleaner and a shutdown end. The cleaner, whose module is     *)
(* extended, is here with the faults of its settings and of tmux and       *)
(* several tabs. Every behaviour is one of one component, named by part,   *)
(* and the cleaner rests in the others'.                                   *)
(***************************************************************************)
EXTENDS StaleCleanup

CONSTANTS r1, r2, r3, p1, p2, a1, a2, b1,   \* requests, passwords, sessions, a browser
          s1, s2, t1, t2,                   \* sockets and tabs
          NoPassword, NoExpiry, NoId

\* The tab document of the cleaner
TwoTabs == <<t1, t2>>

VARIABLE part   \* the component a behaviour is of

VARIABLES clock, session, announced, password, epoch, est, cred, loginRequest, changing

Service == INSTANCE AuthService WITH
    Mode <- "local", Requests <- {r1, r2, r3}, Ids <- {a1, a2}, Passwords <- {p1, p2},
    MaxSessions <- 1, MaxPending <- 2, Idle <- 1, Absolute <- 1, MaxNow <- 0,
    MaxCsrf <- 0, now <- clock, request <- loginRequest

serviceVars == <<clock, session, announced, password, epoch, est, cred, loginRequest,
    changing>>

VARIABLES sessions, jar, message, work, handed

Http == INSTANCE AuthRequests WITH
    Messages <- {r1, r2}, Browsers <- {b1}, Users <- {p1}, SessionIds <- {a1, a2},
    MaxToken <- 2

messagesVars == <<sessions, jar, message, work, handed>>

VARIABLES socketSession, socket, bySocket, bySession, tabCounts, generations, unanswered, dead,
          phase, reader

Index == INSTANCE WebSocketIndex WITH
    Sockets <- {s1, s2}, AppSessions <- {a1, a2}, SocketTabs <- {t1}, Stubborn <- {},
    Mortal <- {s1, s2}, MaxSockets <- 3, MaxAppSessions <- 1, MaxGenerations <- 1,
    session <- socketSession, cleanup <- generations

indexVars == <<socketSession, socket, bySocket, bySession, tabCounts, generations,
    unanswered, dead, phase, reader>>

VARIABLES tabs, rows, probe, building, snapshotReader, active, waiters, hung, errors,
          judged, outcome, reads, actions

Admin == INSTANCE AdminService WITH
    Ids <- {a1, a2}, Readers <- {r1, r2}, Capacity <- 1, RowCapacity <- 2,
    MaxReads <- 2, MaxActions <- 1

adminVars == <<tabs, rows, probe, building, snapshotReader, active, waiters, hung, errors,
    judged, outcome, reads, actions>>

ASSUME InstancesAssumption ==
    /\ MaxSessionsAssumption /\ SettingsAssumption /\ UnavailableAssumption
    /\ StartAssumption /\ OrderAssumption /\ Service!ModeAssumption
    /\ Service!CapacityAssumption /\ Service!DurationAssumption
    /\ Service!NoneAssumption /\ Service!BoundsAssumption /\ Http!NoIdAssumption
    /\ Index!SocketsAssumption /\ Index!CapacityAssumption /\ Admin!BoundsAssumption
    /\ Admin!IdsAssumption /\ Admin!RoomAssumption

suiteVars == <<part, vars, serviceVars, messagesVars, indexVars, adminVars>>

-----------------------------------------------------------------------------
\* What another component owns is not there.
Absent == "absent"

ServiceAbsent ==
    /\ clock = Absent /\ session = Absent /\ announced = Absent /\ password = Absent
    /\ epoch = Absent /\ est = Absent /\ cred = Absent /\ loginRequest = Absent
    /\ changing = Absent

MessagesAbsent ==
    /\ sessions = Absent /\ jar = Absent /\ message = Absent /\ work = Absent
    /\ handed = Absent

IndexAbsent ==
    /\ socketSession = Absent /\ socket = Absent /\ bySocket = Absent
    /\ bySession = Absent /\ tabCounts = Absent /\ generations = Absent
    /\ unanswered = Absent /\ dead = Absent /\ phase = Absent /\ reader = Absent

AdminAbsent ==
    /\ tabs = Absent /\ rows = Absent /\ probe = Absent /\ building = Absent
    /\ snapshotReader = Absent /\ active = Absent /\ waiters = Absent
    /\ hung = Absent /\ errors = Absent /\ judged = Absent /\ outcome = Absent
    /\ reads = Absent /\ actions = Absent

\* The cleaner in the behaviours of the others
CleanerRests == Init /\ runtime = {} /\ hours = 0

SuiteInit ==
    \/ part = "cleanup" /\ Init /\ ServiceAbsent /\ MessagesAbsent /\ IndexAbsent /\ AdminAbsent
    \/ /\ part = "service" /\ Service!Init /\ CleanerRests /\ MessagesAbsent
       /\ IndexAbsent /\ AdminAbsent
    \/ /\ part = "requests" /\ Http!HttpInit /\ CleanerRests /\ ServiceAbsent
       /\ IndexAbsent /\ AdminAbsent
    \/ /\ part = "index" /\ Index!IndexInit /\ CleanerRests /\ ServiceAbsent
       /\ MessagesAbsent /\ AdminAbsent
    \/ /\ part = "admin" /\ Admin!AdminInit /\ CleanerRests /\ ServiceAbsent
       /\ MessagesAbsent /\ IndexAbsent

CleanupRest == <<part, serviceVars, messagesVars, indexVars, adminVars>>
ServiceRest == <<part, vars, messagesVars, indexVars, adminVars>>
MessagesRest == <<part, vars, serviceVars, indexVars, adminVars>>
IndexRest == <<part, vars, serviceVars, messagesVars, adminVars>>
AdminRest == <<part, vars, serviceVars, messagesVars, indexVars>>

SuiteNext ==
    \/ part = "cleanup" /\ Next /\ UNCHANGED CleanupRest
    \/ part = "service" /\ Service!Next /\ UNCHANGED ServiceRest
    \/ part = "requests" /\ Http!HttpNext /\ UNCHANGED MessagesRest
    \/ part = "index" /\ Index!IndexNext /\ UNCHANGED IndexRest
    \/ part = "admin" /\ Admin!AdminNext /\ UNCHANGED AdminRest

SuiteSpec == SuiteInit /\ [][SuiteNext]_suiteVars

-----------------------------------------------------------------------------
(***************************************************************************)
(* Fairness.  A behaviour is of one part, so that the m-th condition is    *)
(* the conjunction of the m-th conditions of the components.               *)
(***************************************************************************)
\* Continuations run, and bcrypt and the file system answer.
ServiceOwes(m) == (m = 1 /\ Service!Continue) \/ (m = 2 /\ Service!Complete)

\* Identity providers answer, bodies end or time out, handlers settle.
MessagesOwes(m) == m \in 1..2 /\ Http!RequestStep(<<r1, r2>>[m])

\* Identity providers answer, events are delivered, the interval fires, and a
\* shutdown goes on.
IndexOwes(m) ==
    \/ m \in 1..2 /\ Index!UpgradeAnswered(<<s1, s2>>[m])
    \/ m \in 3..4 /\ Index!SocketEvent(<<s1, s2>>[m - 2])
    \/ m = 5 /\ Index!Heartbeat
    \/ m = 6 /\ (Index!CloseClients \/ Index!Closed)

\* The tab store, tmux and the holder of the lock answer.
CleanupOwes(m) ==
    \/ m = 1 /\ RunStep
    \/ m \in 2..3 /\ AttachEnds(<<t1, t2>>[m - 1])

\* Timers fire and promises are continued; tmux need never answer.
AdminOwes(m) ==
    \/ m = 1 /\ Admin!Take
    \/ m = 2 /\ Admin!FinishSnapshot
    \/ m \in 3..4 /\ Admin!Timeout(<<a1, a2>>[m - 2])

Owes(m) ==
    \/ part = "service" /\ ServiceOwes(m) /\ UNCHANGED ServiceRest
    \/ part = "requests" /\ MessagesOwes(m) /\ UNCHANGED MessagesRest
    \/ part = "index" /\ IndexOwes(m) /\ UNCHANGED IndexRest
    \/ part = "cleanup" /\ CleanupOwes(m) /\ UNCHANGED CleanupRest
    \/ part = "admin" /\ AdminOwes(m) /\ UNCHANGED AdminRest

FairSpec == SuiteSpec /\ \A m \in 1..6 : WF_suiteVars(Owes(m))

-----------------------------------------------------------------------------
\* What is under way in a component, up to three things at a time: requests that
\* are not answered; open sockets that are dead or whose session has ended, and
\* the stop of the server; a run of the cleaner and its shutdown; readers of the
\* administrator's snapshot.
UnderWay(m) ==
    \/ /\ part = "service" /\ m \in 1..3
       /\ loginRequest[<<r1, r2, r3>>[m]].at \notin {"new", "done"}
    \/ /\ part = "requests" /\ m \in 1..2
       /\ message[<<r1, r2>>[m]].at \notin {"new", "done"}
    \/ /\ part = "index"
       /\ \/ \E s \in Index!Open :
                 /\ m = (IF s = s1 THEN 1 ELSE 2)
                 /\ s \in dead \/ socketSession[socket[s].sess] # "live"
          \/ m = 3 /\ phase \in {"stopping", "closing"}
    \/ part = "cleanup" /\ m = 1 /\ (run.at # "idle" \/ stopping = "waiting")
    \/ part = "admin" /\ m \in 1..2 /\ snapshotReader[<<r1, r2>>[m]] = "waiting"

\* Every login, setup and password change settles although each waits for the
\* chains of the others; every request is answered or cut off; a socket that is
\* dead, or whose session has ended, is closed; the server and the cleaner stop when
\* told to; and a snapshot is answered although tmux may never be.
RequestsSettle == \A m \in 1..3 : UnderWay(m) ~> ~UnderWay(m)

=============================================================================
