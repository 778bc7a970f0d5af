---------------------------- MODULE MCClientLive ----------------------------
(***************************************************************************)
(* Smaller instances of the hooks of the browser, under the fairness that  *)
(* timers, the browser and the network justify: what the user waits for    *)
(* happens. Every behaviour is one of one hook, named by part.             *)
(***************************************************************************)
EXTENDS Naturals, Sequences, FiniteSets

CONSTANTS t1, s1, s2,           \* terminal and sockets
          o1, o2, r1, r2,       \* operations and actions, requests
          i, j, k, n,           \* tabs and a name
          a1, Cleanup, None

VARIABLES part,   \* the component a behaviour is of
          hook, socket, suspended, behavior, auth, halted, away, mode, flight,
          requests, loaded, hidden, doc, ui, call, visible, poll, budget, open, own,
          lost, timer, request, load, task, queue, tail, busy, snapshot, version,
          asked, building

Socket == INSTANCE ClientSocket WITH
    Terminals <- {t1}, BrowserSockets <- {s1, s2}, NoSocket <- None, RetrySteps <- 2, MaxIds <- 1,
    connection <- socket, authentication <- auth

Auth == INSTANCE ClientAuth WITH Ops <- {o1, o2}, MaxEpochs <- 2

Tabs == INSTANCE ClientTabs WITH
    TabRequests <- {r1, r2}, Ids <- {i, j, k}, Names <- {n}, MaxCount <- 3, NoTab <- None,
    InitialTabs <- <<i, j>>, MaxTabChanges <- 1, MaxHides <- 1, tabCall <- call,
    pageVisible <- visible

Admin == INSTANCE ClientAdmin WITH
    Sessions <- {a1}, Tasks <- {o1, o2}, Loads <- {r1}, MaxChanges <- 2,
    Null <- None, pollTimer <- timer, inFlight <- building

ASSUME InstancesAssumption ==
    /\ Socket!TerminalsAssumption /\ Socket!LimitsAssumption /\ Auth!NoneAssumption
    /\ Auth!MaxEpochsAssumption /\ Tabs!TabsAssumption
    /\ Admin!MaxChangesAssumption /\ Admin!TasksAssumption /\ Admin!CleanupAssumption

vars == <<part,
          hook, socket, suspended, behavior, auth, halted, away, mode, flight,
          requests, loaded, hidden, doc, ui, call, visible, poll, budget, open, own,
          lost, timer, request, load, task, queue, tail, busy, snapshot, version,
          asked, building>>

-----------------------------------------------------------------------------
\* What the other components own is not there.
Absent == "absent"

SocketRest == <<part,
    mode, flight, requests, loaded, hidden, doc, ui, call, visible, poll, budget, open,
    own, lost, timer, request, load, task, queue, tail, busy, snapshot, version, asked,
    building>>

AuthRest == <<part,
    hook, socket, suspended, behavior, halted, away, doc, ui, call, visible, poll,
    budget, open, own, lost, timer, request, load, task, queue, tail, busy, snapshot,
    version, asked, building>>

TabsRest == <<part,
    hook, socket, suspended, behavior, auth, halted, away, mode, flight, requests,
    loaded, hidden, open, own, lost, timer, request, load, task, queue, tail, busy,
    snapshot, version, asked, building>>

AdminRest == <<part,
    hook, socket, suspended, behavior, auth, halted, away, mode, flight, requests,
    loaded, hidden, doc, ui, call, poll, budget>>

Init ==
    \/ /\ part = "socket" /\ Socket!SocketInit
       /\ mode = Absent /\ flight = Absent /\ requests = Absent /\ loaded = Absent
       /\ hidden = Absent /\ doc = Absent /\ ui = Absent /\ call = Absent
       /\ visible = Absent /\ poll = Absent /\ budget = Absent /\ open = Absent
       /\ own = Absent /\ lost = Absent /\ timer = Absent /\ request = Absent
       /\ load = Absent /\ task = Absent /\ queue = Absent /\ tail = Absent
       /\ busy = Absent /\ snapshot = Absent /\ version = Absent /\ asked = Absent
       /\ building = Absent
    \/ /\ part = "auth" /\ Auth!ClientInit
       /\ hook = Absent /\ socket = Absent /\ suspended = Absent
       /\ behavior = Absent /\ halted = Absent /\ away = Absent /\ doc = Absent
       /\ ui = Absent /\ call = Absent /\ visible = Absent /\ poll = Absent
       /\ budget = Absent /\ open = Absent /\ own = Absent /\ lost = Absent
       /\ timer = Absent /\ request = Absent /\ load = Absent /\ task = Absent
       /\ queue = Absent /\ tail = Absent /\ busy = Absent /\ snapshot = Absent
       /\ version = Absent /\ asked = Absent /\ building = Absent
    \/ /\ part = "tabs" /\ Tabs!TabsInit
       /\ hook = Absent /\ socket = Absent /\ suspended = Absent
       /\ behavior = Absent /\ auth = Absent /\ halted = Absent /\ away = Absent
       /\ mode = Absent /\ flight = Absent /\ requests = Absent /\ loaded = Absent
       /\ hidden = Absent /\ open = Absent /\ own = Absent /\ lost = Absent
       /\ timer = Absent /\ request = Absent /\ load = Absent /\ task = Absent
       /\ queue = Absent /\ tail = Absent /\ busy = Absent /\ snapshot = Absent
       /\ version = Absent /\ asked = Absent /\ building = Absent
    \/ /\ part = "admin" /\ Admin!ViewInit
       /\ hook = Absent /\ socket = Absent /\ suspended = Absent
       /\ behavior = Absent /\ auth = Absent /\ halted = Absent /\ away = Absent
       /\ mode = Absent /\ flight = Absent /\ requests = Absent /\ loaded = Absent
       /\ hidden = Absent /\ doc = Absent /\ ui = Absent /\ call = Absent
       /\ poll = Absent /\ budget = Absent

Next ==
    \/ part = "socket" /\ Socket!SocketNext /\ UNCHANGED SocketRest
    \/ part = "auth" /\ Auth!ClientNext /\ UNCHANGED AuthRest
    \/ part = "tabs" /\ Tabs!TabsNext /\ UNCHANGED TabsRest
    \/ part = "admin" /\ Admin!ViewNext /\ UNCHANGED AdminRest

Spec == Init /\ [][Next]_vars

-----------------------------------------------------------------------------
(***************************************************************************)
(* Fairness.  A behaviour is of one part, so that the m-th condition is    *)
(* the conjunction of the m-th conditions of the four hooks.               *)
(***************************************************************************)
\* React commits what was announced, and the browser ends a closing handshake.
SocketOwes(m) ==
    \/ m = 1 /\ Socket!UnmountAll
    \/ \E s \in {s1, s2} :
           m = (IF s = s1 THEN 2 ELSE 3) /\ socket[s].st = "closing" /\ Socket!SocketEnds(s)

\* The browser settles every request: with an answer, an error or an abort.
AuthOwes(m) ==
    \/ \E o \in {o1, o2} : m = (IF o = o1 THEN 1 ELSE 2) /\ flight[o] # None /\ Auth!AnyAnswer(o)
    \/ m \in 3..4 /\ Auth!AnyPrivate([epoch |-> m - 2, kind |-> "config"])

\* The timer fires and the server answers.
TabsOwes(m) ==
    \/ m = 1 /\ \E c \in {r1, r2} : Tabs!TimerFires(c)
    \/ \E c \in {r1, r2} :
           \/ m = (IF c = r1 THEN 2 ELSE 3) /\ Tabs!Apply(c)
           \/ m = (IF c = r1 THEN 4 ELSE 5) /\ Tabs!Conflict(c)
           \/ m = (IF c = r1 THEN 6 ELSE 7) /\ call[c].st = "refused" /\ Tabs!Fail(c)

\* Requests settle and promises are continued.
AdminOwes(m) ==
    \/ m = 1 /\ Admin!Answered(r1)
    \/ \E o \in {o1, o2} :
           \/ m = (IF o = o1 THEN 2 ELSE 3) /\ Admin!Call(o)
           \/ m = (IF o = o1 THEN 4 ELSE 5) /\ Admin!TaskAnswer(o)
           \/ m = (IF o = o1 THEN 6 ELSE 7) /\ Admin!ForceRefresh(o, r1)

Owes(m) ==
    \/ part = "socket" /\ SocketOwes(m) /\ UNCHANGED SocketRest
    \/ part = "auth" /\ AuthOwes(m) /\ UNCHANGED AuthRest
    \/ part = "tabs" /\ TabsOwes(m) /\ UNCHANGED TabsRest
    \/ part = "admin" /\ AdminOwes(m) /\ UNCHANGED AdminRest

\* What does not fail for ever: the network, and the timer of a terminal, which
\* authentication and settings may cancel.
Recurs(m) ==
    \/ /\ part = "socket" /\ UNCHANGED SocketRest
       /\ \E s \in {s1, s2} :
              \/ m = 1 /\ Socket!RetryTimer(t1, s)
              \/ m = 2 /\ Socket!Opened(s)
              \/ m = 3 /\ Socket!Ready(s)
    \/ /\ part = "tabs" /\ UNCHANGED TabsRest
       /\ \E c \in {r1, r2} : (m = 1 /\ Tabs!View(c)) \/ (m = 2 /\ Tabs!Deliver(c))

FairSpec ==
    Spec /\ (\A m \in 1..7 : WF_vars(Owes(m))) /\ (\A m \in 1..3 : SF_vars(Recurs(m)))

-----------------------------------------------------------------------------
\* What a user may be waiting for in a hook, up to three things at a time: a
\* terminal that is mounted and not stopped to connect; a busy form, the first
\* answer while the page is shown, the configuration of an epoch; two actions.
Waiting(m) ==
    \/ /\ part = "socket" /\ m = 1
       /\ t1 \in Socket!Mounted /\ ~hook[t1].stopped /\ hook[t1].status # "connected"
    \/ /\ part = "auth"
       /\ \/ m = 1 /\ auth.busy
          \/ m = 2 /\ auth.status = "loading" /\ ~hidden
          \/ m = 3 /\ auth.private # 0 /\ loaded.epoch # auth.private
    \/ part = "admin" /\ m \in 1..2 /\ task[<<o1, o2>>[m]] # Admin!NoTask

\* A terminal that is not stopped connects in the end, a form becomes usable
\* again, loading ends, every epoch gets its configuration or an error, and every
\* action of the administrator ends: the queues of the hooks never wait for each
\* other for ever.
WaitsEnd == \A m \in 1..3 : Waiting(m) ~> ~Waiting(m)

\* useTabs: once nobody changes the tabs any more, a visible list ends up being
\* the server's: no stale or duplicated entry stays.
Converges == <>[](part = "tabs" /\ visible => ui.tabs = doc.tabs)

=============================================================================
