---------------------------- MODULE MCStateLive ----------------------------
(***************************************************************************)
(* Smaller instances of the components that keep the terminals, under the  *)
(* fairness that the code's scheduling justifies: every call settles,      *)
(* whatever fails on the way. The lifecycle of the server, whose           *)
(* operations may hang, is here with its safety properties as well. Every  *)
(* behaviour is one of one component, named by part.                       *)
(***************************************************************************)
EXTENDS Naturals, Sequences

CONSTANTS t1, t2, r1, r2, NoRequest,   \* tabs and requests
          a, b, x, n,                  \* tabs in a document, and their name
          c1, c2, c3, o1, o2,          \* calls and bridges
          v1, v2, Legacy, Invalid,     \* settings
          None, Torn

OldTab(id, position) ==
    [id |-> id, name |-> n, position |-> position, activity |-> 0, desired |-> "active"]

TwoTabs == [revision |-> 2, tabs |-> <<OldTab(a, 0), OldTab(b, 1)>>]

Operations ==
    {[op |-> "create", id |-> x, name |-> n], [op |-> "remove", id |-> a],
     [op |-> "reorder", ids |-> <<b, a>>], [op |-> "flushActivity", ids |-> {a}, now |-> 1]}

VARIABLES part,   \* the component a behaviour is of
          tabState, tmux, gen, clock, queue, kind, target, pc, token, sock, authority,
          handler, bridge, owner, life, tokenLife, versions, temp, orphans, document,
          ready, next, call, status, owners, request, prior, shutdown, inFlight,
          closing, failure, dirty, flushing, timer, flush, gens, marks, taken, saved,
          failures, seen, hostile, litter, file, phase, current, wanted, listener,
          boot, created, lifecycle, listening, signals, teardown, called, op, exitCode

Manager == INSTANCE SessionManager WITH Tabs <- {t1}, Requests <- {r1, r2}

Store == INSTANCE TabStore WITH
    Ids <- {a, b, x}, Names <- {n}, MaxCount <- 2, Calls <- {c1, c2}, DirectorySync <- FALSE,
    InitialDocuments <- {None, TwoTabs}, Operations <- Operations

Registry == INSTANCE BridgeRegistry WITH
    Sessions <- {t1}, Owners <- {o1, o2}, Calls <- {c1, c2, c3}

Activity == INSTANCE ActivityTracker WITH
    Tabs <- {t1, t2}, MaxTracked <- 1, MaxMarks <- 1, MaxFailures <- 2

Settings == INSTANCE SettingsStore WITH
    Calls <- {c1}, Retries <- {r1}, Settings <- {v1, v2}, Defaults <- v1, Migrated <- v1,
    Size <- 2, TempOpenAttempts <- 2

Lifecycle == INSTANCE ServerLifecycle

ASSUME InstancesAssumption ==
    /\ Manager!NoRequestAssumption /\ Manager!TabsAssumption
    /\ Store!OperationsAssumption /\ Store!InitialAssumption /\ Store!NoneAssumption
    /\ Registry!NoneAssumption /\ Activity!MaxTrackedAssumption
    /\ Activity!MaxMarksAssumption /\ Settings!SizeAssumption
    /\ Settings!SettingsAssumption /\ Settings!CallsAssumption

vars == <<part,
          tabState, tmux, gen, clock, queue, kind, target, pc, token, sock, authority,
          handler, bridge, owner, life, tokenLife, versions, temp, orphans, document,
          ready, next, call, status, owners, request, prior, shutdown, inFlight,
          closing, failure, dirty, flushing, timer, flush, gens, marks, taken, saved,
          failures, seen, hostile, litter, file, phase, current, wanted, listener,
          boot, created, lifecycle, listening, signals, teardown, called, op, exitCode>>

-----------------------------------------------------------------------------
\* What the other components own is not there.
Absent == "absent"

ManagerRest == <<part,
    versions, temp, orphans, document, ready, next, call, status, owners, request,
    prior, shutdown, inFlight, closing, failure, dirty, flushing, timer, flush, gens,
    marks, taken, saved, failures, seen, hostile, litter, file, phase, current, wanted,
    listener, boot, created, lifecycle, listening, signals, teardown, called, op,
    exitCode>>

StoreRest == <<part,
    tabState, tmux, gen, clock, kind, target, token, sock, authority, handler, bridge,
    owner, life, tokenLife, owners, request, prior, shutdown, inFlight, closing,
    failure, dirty, flushing, timer, flush, gens, marks, taken, saved, failures, seen,
    hostile, litter, file, phase, current, wanted, listener, boot, created, lifecycle,
    listening, signals, teardown, called, op, exitCode>>

RegistryRest == <<part,
    tabState, tmux, gen, clock, kind, target, token, sock, authority, handler, bridge,
    owner, tokenLife, versions, temp, orphans, document, ready, next, call, status,
    dirty, flushing, timer, flush, gens, marks, taken, saved, failures, seen, hostile,
    litter, file, phase, current, wanted, listener, boot, created, lifecycle,
    listening, signals, teardown, called, op, exitCode>>

ActivityRest == <<part,
    tabState, tmux, gen, clock, queue, kind, target, pc, token, sock, authority,
    handler, bridge, owner, life, tokenLife, versions, temp, orphans, document, ready,
    next, call, status, owners, request, prior, inFlight, closing, failure, hostile,
    litter, file, phase, current, wanted, listener, boot, created, lifecycle,
    listening, signals, teardown, called, op, exitCode>>

SettingsRest == <<part,
    tabState, tmux, gen, clock, kind, target, pc, token, sock, authority, handler,
    bridge, owner, life, tokenLife, orphans, document, next, call, owners, request,
    prior, shutdown, inFlight, closing, failure, dirty, flushing, timer, flush, gens,
    marks, taken, saved, failures, seen, boot, created, lifecycle, listening, signals,
    teardown, called, op, exitCode>>

LifecycleRest == <<part,
    tabState, tmux, gen, clock, queue, kind, target, pc, token, sock, authority,
    handler, bridge, owner, life, tokenLife, versions, temp, orphans, document, ready,
    next, call, status, owners, request, prior, shutdown, inFlight, closing, failure,
    dirty, flushing, timer, flush, gens, marks, taken, saved, failures, seen, hostile,
    litter, file, phase, current, wanted, listener>>

Init ==
    \/ /\ part = "sessions" /\ Manager!Init
       /\ versions = Absent /\ temp = Absent /\ orphans = Absent
       /\ document = Absent /\ ready = Absent /\ next = Absent /\ call = Absent
       /\ status = Absent /\ owners = Absent /\ request = Absent /\ prior = Absent
       /\ shutdown = Absent /\ inFlight = Absent /\ closing = Absent
       /\ failure = Absent /\ dirty = Absent /\ flushing = Absent /\ timer = Absent
       /\ flush = Absent /\ gens = Absent /\ marks = Absent /\ taken = Absent
       /\ saved = Absent /\ failures = Absent /\ seen = Absent /\ hostile = Absent
       /\ litter = Absent /\ file = Absent /\ phase = Absent /\ current = Absent
       /\ wanted = Absent /\ listener = Absent /\ boot = Absent /\ created = Absent
       /\ lifecycle = Absent /\ listening = Absent /\ signals = Absent
       /\ teardown = Absent /\ called = Absent /\ op = Absent /\ exitCode = Absent
    \/ /\ part = "tabs" /\ Store!Init
       /\ tabState = Absent /\ tmux = Absent /\ gen = Absent /\ clock = Absent
       /\ kind = Absent /\ target = Absent /\ token = Absent /\ sock = Absent
       /\ authority = Absent /\ handler = Absent /\ bridge = Absent
       /\ owner = Absent /\ life = Absent /\ tokenLife = Absent /\ owners = Absent
       /\ request = Absent /\ prior = Absent /\ shutdown = Absent
       /\ inFlight = Absent /\ closing = Absent /\ failure = Absent
       /\ dirty = Absent /\ flushing = Absent /\ timer = Absent /\ flush = Absent
       /\ gens = Absent /\ marks = Absent /\ taken = Absent /\ saved = Absent
       /\ failures = Absent /\ seen = Absent /\ hostile = Absent /\ litter = Absent
       /\ file = Absent /\ phase = Absent /\ current = Absent /\ wanted = Absent
       /\ listener = Absent /\ boot = Absent /\ created = Absent
       /\ lifecycle = Absent /\ listening = Absent /\ signals = Absent
       /\ teardown = Absent /\ called = Absent /\ op = Absent /\ exitCode = Absent
    \/ /\ part = "registry" /\ Registry!Init
       /\ tabState = Absent /\ tmux = Absent /\ gen = Absent /\ clock = Absent
       /\ kind = Absent /\ target = Absent /\ token = Absent /\ sock = Absent
       /\ authority = Absent /\ handler = Absent /\ bridge = Absent
       /\ owner = Absent /\ tokenLife = Absent /\ versions = Absent /\ temp = Absent
       /\ orphans = Absent /\ document = Absent /\ ready = Absent /\ next = Absent
       /\ call = Absent /\ status = Absent /\ dirty = Absent /\ flushing = Absent
       /\ timer = Absent /\ flush = Absent /\ gens = Absent /\ marks = Absent
       /\ taken = Absent /\ saved = Absent /\ failures = Absent /\ seen = Absent
       /\ hostile = Absent /\ litter = Absent /\ file = Absent /\ phase = Absent
       /\ current = Absent /\ wanted = Absent /\ listener = Absent /\ boot = Absent
       /\ created = Absent /\ lifecycle = Absent /\ listening = Absent
       /\ signals = Absent /\ teardown = Absent /\ called = Absent /\ op = Absent
       /\ exitCode = Absent
    \/ /\ part = "activity" /\ Activity!ActivityInit
       /\ tabState = Absent /\ tmux = Absent /\ gen = Absent /\ clock = Absent
       /\ queue = Absent /\ kind = Absent /\ target = Absent /\ pc = Absent
       /\ token = Absent /\ sock = Absent /\ authority = Absent /\ handler = Absent
       /\ bridge = Absent /\ owner = Absent /\ life = Absent /\ tokenLife = Absent
       /\ versions = Absent /\ temp = Absent /\ orphans = Absent
       /\ document = Absent /\ ready = Absent /\ next = Absent /\ call = Absent
       /\ status = Absent /\ owners = Absent /\ request = Absent /\ prior = Absent
       /\ inFlight = Absent /\ closing = Absent /\ failure = Absent
       /\ hostile = Absent /\ litter = Absent /\ file = Absent /\ phase = Absent
       /\ current = Absent /\ wanted = Absent /\ listener = Absent /\ boot = Absent
       /\ created = Absent /\ lifecycle = Absent /\ listening = Absent
       /\ signals = Absent /\ teardown = Absent /\ called = Absent /\ op = Absent
       /\ exitCode = Absent
    \/ /\ part = "settings" /\ Settings!Init
       /\ tabState = Absent /\ tmux = Absent /\ gen = Absent /\ clock = Absent
       /\ kind = Absent /\ target = Absent /\ pc = Absent /\ token = Absent
       /\ sock = Absent /\ authority = Absent /\ handler = Absent /\ bridge = Absent
       /\ owner = Absent /\ life = Absent /\ tokenLife = Absent /\ orphans = Absent
       /\ document = Absent /\ next = Absent /\ call = Absent /\ owners = Absent
       /\ request = Absent /\ prior = Absent /\ shutdown = Absent
       /\ inFlight = Absent /\ closing = Absent /\ failure = Absent
       /\ dirty = Absent /\ flushing = Absent /\ timer = Absent /\ flush = Absent
       /\ gens = Absent /\ marks = Absent /\ taken = Absent /\ saved = Absent
       /\ failures = Absent /\ seen = Absent /\ boot = Absent /\ created = Absent
       /\ lifecycle = Absent /\ listening = Absent /\ signals = Absent
       /\ teardown = Absent /\ called = Absent /\ op = Absent /\ exitCode = Absent
    \/ /\ part = "lifecycle" /\ Lifecycle!Init
       /\ tabState = Absent /\ tmux = Absent /\ gen = Absent /\ clock = Absent
       /\ queue = Absent /\ kind = Absent /\ target = Absent /\ pc = Absent
       /\ token = Absent /\ sock = Absent /\ authority = Absent /\ handler = Absent
       /\ bridge = Absent /\ owner = Absent /\ life = Absent /\ tokenLife = Absent
       /\ versions = Absent /\ temp = Absent /\ orphans = Absent
       /\ document = Absent /\ ready = Absent /\ next = Absent /\ call = Absent
       /\ status = Absent /\ owners = Absent /\ request = Absent /\ prior = Absent
       /\ shutdown = Absent /\ inFlight = Absent /\ closing = Absent
       /\ failure = Absent /\ dirty = Absent /\ flushing = Absent /\ timer = Absent
       /\ flush = Absent /\ gens = Absent /\ marks = Absent /\ taken = Absent
       /\ saved = Absent /\ failures = Absent /\ seen = Absent /\ hostile = Absent
       /\ litter = Absent /\ file = Absent /\ phase = Absent /\ current = Absent
       /\ wanted = Absent /\ listener = Absent

\* Where it may stop: every call has settled and all sockets are gone, the
\* registry is shut down, or the server has ended.
Ended ==
    \/ /\ part = "sessions"
       /\ \A r \in {r1, r2} :
              pc[r] \in {"succeeded", "failed"} /\ handler[r] \in {"none", "settled"}
    \/ /\ part = "registry" /\ shutdown \in Registry!Settled
       /\ \A c \in {c1, c2, c3} : pc[c] \in Registry!Settled
    \/ /\ part = "lifecycle"
       /\ boot \in {"failed", "killed"} \/ teardown.st \in {"over", "killed"}

Next ==
    \/ part = "sessions" /\ Manager!Next /\ UNCHANGED ManagerRest
    \/ part = "tabs" /\ Store!Next /\ UNCHANGED StoreRest
    \/ part = "registry" /\ Registry!Next /\ UNCHANGED RegistryRest
    \/ part = "activity" /\ Activity!ActivityNext /\ UNCHANGED ActivityRest
    \/ part = "settings" /\ Settings!Next /\ UNCHANGED SettingsRest
    \/ part = "lifecycle" /\ Lifecycle!Next /\ UNCHANGED LifecycleRest
    \/ Ended /\ UNCHANGED vars

Spec == Init /\ [][Next]_vars

-----------------------------------------------------------------------------
(***************************************************************************)
(* Fairness.  A behaviour is of one part, so that the m-th condition is    *)
(* the conjunction of the m-th conditions of the components.               *)
(***************************************************************************)
\* Every await of a call settles: microtasks, file operations, and tmux
\* commands, which are assumed to exit, for the code sets them no time-out here;
\* and the ws library destroys a socket whose closing handshake is not answered.
ManagerOwes(m) ==
    \E r \in {r1, r2} :
        \/ m = (IF r = r1 THEN 1 ELSE 2) /\ Manager!Step(r)
        \/ m = (IF r = r1 THEN 3 ELSE 4) /\ Manager!HandlerStep(r)
        \/ m = (IF r = r1 THEN 5 ELSE 6) /\ sock[r] = "closing" /\ Manager!SocketClosed(r)

\* The close of an owner settles, and promises run their continuations.
RegistryOwes(m) ==
    \/ m \in 1..3 /\ Registry!CallStep(<<c1, c2, c3>>[m])
    \/ m = 4 /\ Registry!ShutdownStep

\* The timer fires and writes settle; MaxFailures bounds how many fail.
ActivityOwes(m) == (m = 1 /\ Activity!FlushStep) \/ (m = 2 /\ Activity!ShutdownStep)

\* The start goes on and the timer fires; no operation of a teardown need settle.
LifecycleOwes(m) ==
    \/ m = 1 /\ Lifecycle!BootStep
    \/ m = 2 /\ Lifecycle!TeardownStep
    \/ m = 3 /\ Lifecycle!Deadline

\* File operations settle (the two stores).
Owes(m) ==
    \/ part = "sessions" /\ ManagerOwes(m) /\ UNCHANGED ManagerRest
    \/ part = "tabs" /\ m = 1 /\ Store!StoreStep /\ UNCHANGED StoreRest
    \/ part = "registry" /\ RegistryOwes(m) /\ UNCHANGED RegistryRest
    \/ part = "activity" /\ ActivityOwes(m) /\ UNCHANGED ActivityRest
    \/ part = "settings" /\ m = 1 /\ Settings!StoreStep /\ UNCHANGED SettingsRest
    \/ part = "lifecycle" /\ LifecycleOwes(m) /\ UNCHANGED LifecycleRest

FairSpec == Spec /\ \A m \in 1..6 : WF_vars(Owes(m))

-----------------------------------------------------------------------------
\* A bridge whose socket is gone and that is open or still registered
Orphan(r) ==
    \/ bridge[r] = "open" /\ sock[r] = "closed"
    \/ bridge[r] = "closed" /\ \E t \in {t1} : owner[t] = r

\* What is under way in a component, up to four things at a time: calls in the
\* mutex and orphaned bridges; calls in a queue; a shutdown; activity that is not
\* saved while the server runs; a teardown and a start.
UnderWay(m) ==
    \/ /\ part = "sessions"
       /\ \/ m \in 1..2 /\ pc[<<r1, r2>>[m]] \in {"queued"} \cup Manager!LockedSteps
          \/ m \in 3..4 /\ Orphan(<<r1, r2>>[m - 2])
    \/ part = "tabs" /\ m \in 1..2 /\ status[<<c1, c2>>[m]] = "queued"
    \/ part = "settings" /\ m \in 1..2 /\ status[<<c1, r1>>[m]] = "queued"
    \/ /\ part = "registry"
       /\ \/ m \in 1..3 /\ pc[<<c1, c2, c3>>[m]] \in Registry!Waiting
          \/ m = 4 /\ shutdown \in {"draining", "closing"}
    \/ /\ part = "activity"
       /\ \/ /\ m \in 1..2 /\ shutdown = "none"
             /\ saved[<<t1, t2>>[m]] < marks[<<t1, t2>>[m]]
          \/ m = 3 /\ shutdown \notin {"none", "resolved", "rejected"}
    \/ /\ part = "lifecycle"
       /\ \/ m = 1 /\ teardown.st = "running"
          \/ m = 2 /\ boot \notin {"up", "failed", "killed"}

\* Every call settles and releases its lock or its place in the queue, failures
\* included; the bridge of a closed socket is closed and forgotten; activity
\* reaches the store; a shutdown settles, a start ends and a teardown ends,
\* whatever hangs.
CallsSettle == \A m \in 1..4 : UnderWay(m) ~> ~UnderWay(m)

\* ServerLifecycle: when a shutdown ends, or a start is reported to have failed,
\* every resource that was made was told to go, and exit code 0 means that every
\* operation was waited for and succeeded.
EverythingIsReleased ==
    part = "lifecycle" =>
        /\ Lifecycle!TypeOK /\ Lifecycle!EverythingIsReleased
        /\ Lifecycle!FailureIsReported

\* ServerLifecycle: clients are cut off only after the activity was saved and
\* the cleaner has ended, or when time is up.
DurabilityFirst == [][part = "lifecycle" => Lifecycle!DurabilityFirst]_vars

=============================================================================
