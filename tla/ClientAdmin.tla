---------------------------- MODULE ClientAdmin ----------------------------
(***************************************************************************)
(* The administration view of one browser (useAdmin.ts): it polls a        *)
(* snapshot while it is open and the page visible, runs actions on         *)
(* sessions one after the other per session, and one cleanup at a time;    *)
(* each of them ends with a snapshot requested after it.                   *)
(*                                                                         *)
(* The version of the server's state counts the changes made by actions.   *)
(* The server builds one snapshot at a time (AdminService): a request that *)
(* comes meanwhile, from this browser or another, joins the one in flight. *)
(* An epoch of the hook is told from the others by mine: stopOwnership     *)
(* ends it for everything in flight, aborting the requests and so leaving  *)
(* what was only queued without effect.  Error texts are left out.         *)
(***************************************************************************)
EXTENDS Naturals, Sequences, FiniteSets, SequencesExt

CONSTANTS Sessions, Cleanup,  \* sessions with actions, and the cleanup
          Tasks, Loads,       \* actions and snapshot requests in flight
          Null,               \* null
          MaxChanges          \* bound: actions a user asks for

Subjects == Sessions \cup {Cleanup}

MaxChangesAssumption == MaxChanges \in Nat
TasksAssumption == IsFiniteSet(Tasks) /\ Null \notin Loads \cup Subjects /\ Null \notin Nat
CleanupAssumption == Cleanup \notin Sessions

VARIABLES
    open, visible,  \* the view is open; document.visibilityState
    own, lost,      \* activeRef and authLostRef
    pollTimer,      \* timerRef
    request,        \* requestRef: the snapshot request the hook waits for
    load,           \* snapshot requests in flight
    task,           \* actions and cleanups in flight
    queue,          \* queuesRef, and cleanupPromiseRef
    tail,           \* postMutationTailRef: who waits for a snapshot, in order
    busy,           \* busyCountsRef, and cleanupBusy
    snapshot,       \* version of the snapshot that is shown
    version, asked, \* version of the server's state; actions asked for so far
    inFlight        \* inFlightSnapshot: the version at which it began

viewVars == <<open, visible, own, lost, pollTimer, request, load, task, queue, tail, busy,
              snapshot, version, asked, inFlight>>
pageVars == <<open, visible>>
serverVars == <<version, asked, inFlight>>

NoLoad == [st |-> "free", v |-> 0, mine |-> FALSE, joined |-> FALSE]
NoTask == [st |-> "free", subject |-> Null, v |-> 0, mine |-> FALSE, load |-> Null]

ViewInit ==
    /\ open = FALSE /\ visible = TRUE /\ own = FALSE /\ lost = FALSE
    /\ pollTimer = FALSE /\ request = Null
    /\ load = [l \in Loads |-> NoLoad] /\ task = [k \in Tasks |-> NoTask]
    /\ queue = [s \in Subjects |-> <<>>] /\ tail = <<>> /\ busy = [s \in Subjects |-> 0]
    /\ snapshot = 0 /\ version = 0 /\ asked = 0 /\ inFlight = Null

Owned(k) == task[k].mine

-----------------------------------------------------------------------------
(***************************************************************************)
(* Ownership: the view is opened, closed, hidden and shown.                *)
(***************************************************************************)
\* stopOwnership, in the answer of the requests in done or outside of any
StopOwnership(done) ==
    /\ own' = FALSE /\ pollTimer' = FALSE /\ request' = Null
    /\ load' = [l \in Loads |-> IF l \in done THEN NoLoad ELSE [load[l] EXCEPT !.mine = FALSE]]
    /\ task' = [k \in Tasks |-> IF k \notin done /\ task[k].st \in {"calling", "applied"}
                                THEN [task[k] EXCEPT !.mine = FALSE] ELSE NoTask]
    /\ queue' = [s \in Subjects |-> <<>>] /\ tail' = <<>> /\ busy' = [s \in Subjects |-> 0]

\* startRefresh
StartRefresh(l) ==
    /\ load[l] = NoLoad
    /\ load' = [load EXCEPT ![l] = [NoLoad EXCEPT !.st = "sent", !.mine = TRUE]]
    /\ pollTimer' = FALSE /\ request' = l

\* A new epoch begins with a snapshot.
Own(l) == own' = TRUE /\ StartRefresh(l) /\ UNCHANGED <<task, queue, tail, busy>>

OpenView(l) ==
    /\ ~open /\ open' = TRUE /\ visible /\ lost' = FALSE /\ Own(l)
    /\ UNCHANGED <<visible, snapshot, serverVars>>

CloseView ==
    /\ open /\ open' = FALSE /\ StopOwnership({})
    /\ UNCHANGED <<visible, lost, snapshot, serverVars>>

Hide ==
    /\ visible /\ visible' = FALSE /\ StopOwnership({})
    /\ UNCHANGED <<open, lost, snapshot, serverVars>>

\* visibilityChanged: a view that lost its authentication stays as it is.
Show(l) ==
    /\ ~visible /\ visible' = TRUE
    /\ IF open /\ ~lost THEN Own(l)
       ELSE l \in Loads /\ UNCHANGED <<own, pollTimer, request, load, task, queue, tail, busy>>
    /\ UNCHANGED <<open, lost, snapshot, serverVars>>

\* loseAuthentication
LoseAuthentication(done) == lost' = TRUE /\ StopOwnership(done)

-----------------------------------------------------------------------------
(***************************************************************************)
(* The snapshot.                                                           *)
(***************************************************************************)
\* refresh, by the timer or the user; promises that wait are continued first.
Refresh(l) ==
    /\ own /\ request = Null /\ tail = <<>>
    /\ StartRefresh(l)
    /\ UNCHANGED <<pageVars, own, lost, task, queue, tail, busy, snapshot, serverVars>>

\* GET /admin: snapshot
ServeLoad(l) ==
    /\ load[l].st = "sent"
    /\ load' = [load EXCEPT ![l].st = "building", ![l].joined = (inFlight # Null)]
    /\ inFlight' = IF inFlight = Null THEN version ELSE inFlight
    /\ UNCHANGED <<pageVars, own, lost, pollTimer, request, task, queue, tail, busy, snapshot,
                   version, asked>>

\* Another browser asks for a snapshot.
AskedElsewhere ==
    /\ inFlight = Null /\ inFlight' = version
    /\ UNCHANGED <<pageVars, own, lost, pollTimer, request, load, task, queue, tail, busy, snapshot,
                   version, asked>>

\* finishSnapshot: what it shows was read at some time since it began.
Built ==
    /\ inFlight # Null /\ inFlight' = Null
    /\ \E v \in inFlight..version :
           load' = [l \in Loads |-> IF load[l].st = "building"
                                   THEN [load[l] EXCEPT !.st = "served", !.v = v] ELSE load[l]]
    /\ UNCHANGED <<pageVars, own, lost, pollTimer, request, task, queue, tail, busy, snapshot,
                   version, asked>>

Leave(waiting, K) == SelectSeq(waiting, LAMBDA k : k \notin K)

\* ownsEpoch, where an action is subtracted from the count
Counted(K) == {k \in K : Owned(k)}

\* The actions of K end: their queues go on.
Settle(K) ==
    /\ task' = [k \in Tasks |-> IF k \in K THEN NoTask ELSE task[k]]
    /\ queue' = [s \in Subjects |-> Leave(queue[s], K)] /\ tail' = Leave(tail, K)
    /\ busy' = [s \in Subjects |->
           LET gone == Cardinality({k \in Counted(K) : task[k].subject = s})
           IN IF gone > busy[s] THEN 0 ELSE busy[s] - gone]

Waiters(l) == {k \in Tasks : task[k].load = l /\ task[k].st = "loading"}

\* Mutant: an aborted request may still set the snapshot.
MineAlways(l) == TRUE

\* ownsEpoch and the signal is not aborted
Mine(l) == load[l].mine

ClearRequest(l) == request' = IF request = l THEN Null ELSE request

\* schedule, in a visible view that is owned
Schedule == pollTimer' = TRUE

\* The answer to a snapshot request, or its failure; then schedule.
LoadAnswer(l, ok) ==
    /\ IF ok THEN load[l].st = "served" ELSE load[l].st # "free"
    /\ snapshot' = IF ok /\ Mine(l) THEN load[l].v ELSE snapshot
    /\ load' = [load EXCEPT ![l] = NoLoad]
    /\ IF load[l].mine THEN Schedule /\ ClearRequest(l) /\ Settle(Waiters(l))
       ELSE UNCHANGED <<pollTimer, request, task, queue, tail, busy>>
    /\ UNCHANGED <<pageVars, own, lost, serverVars>>

\* 401; an aborted request is not listened to
LoadUnauthorized(l) ==
    /\ load[l].st # "free" /\ load[l].mine
    /\ LoseAuthentication({l})
    /\ UNCHANGED <<pageVars, snapshot, serverVars>>

-----------------------------------------------------------------------------
(***************************************************************************)
(* Actions on sessions, and the cleanup.                                   *)
(***************************************************************************)
\* runSessionAction and runCleanup; a cleanup that runs is joined instead.
RunAction(k, s) ==
    /\ own /\ task[k] = NoTask /\ asked < MaxChanges
    /\ s = Cleanup => queue[s] = <<>>
    /\ asked' = asked + 1
    /\ task' = [task EXCEPT ![k] = [NoTask EXCEPT !.st = "queued", !.subject = s, !.mine = TRUE]]
    /\ queue' = [queue EXCEPT ![s] = Append(@, k)] /\ busy' = [busy EXCEPT ![s] = @ + 1]
    /\ UNCHANGED <<pageVars, own, lost, pollTimer, request, load, tail, snapshot, version, inFlight>>

\* The action before it in its queue has ended.
Call(k) ==
    /\ task[k].st = "queued" /\ Head(queue[task[k].subject]) = k
    /\ task' = [task EXCEPT ![k].st = "calling"]
    /\ UNCHANGED <<pageVars, own, lost, pollTimer, request, load, queue, tail, busy, snapshot,
                   serverVars>>

ServeTask(k) ==
    /\ task[k].st = "calling"
    /\ version' = version + 1
    /\ task' = [task EXCEPT ![k].st = "applied", ![k].v = version + 1]
    /\ UNCHANGED <<pageVars, own, lost, pollTimer, request, load, queue, tail, busy, snapshot,
                   asked, inFlight>>

\* Success or failure: enqueuePostMutationRefresh.  An aborted one just ends.
TaskAnswer(k) ==
    /\ task[k].st \in {"calling", "applied"}
    /\ IF Owned(k)
       THEN /\ task' = [task EXCEPT ![k].st = "waiting"] /\ tail' = Append(tail, k)
            /\ UNCHANGED <<queue, busy>>
       ELSE Settle({k})
    /\ UNCHANGED <<pageVars, own, lost, pollTimer, request, load, snapshot, serverVars>>

TaskUnauthorized(k) ==
    /\ task[k].st \in {"calling", "applied"} /\ Owned(k)
    /\ LoseAuthentication({k})
    /\ UNCHANGED <<pageVars, snapshot, serverVars>>

\* forcePostMutationRefresh: in the order of the tail, after the request in flight
ForceRefresh(k, l) ==
    /\ tail # <<>> /\ Head(tail) = k /\ task[k].st = "waiting"
    /\ request = Null /\ StartRefresh(l)
    /\ task' = [task EXCEPT ![k].st = "loading", ![k].load = l]
    /\ UNCHANGED <<pageVars, own, lost, queue, tail, busy, snapshot, serverVars>>

-----------------------------------------------------------------------------
Answered(l) == \E ok \in BOOLEAN : LoadAnswer(l, ok)

ViewNext ==
    \/ CloseView \/ Hide \/ AskedElsewhere \/ Built
    \/ \E l \in Loads : OpenView(l) \/ Show(l) \/ Refresh(l) \/ ServeLoad(l) \/ Answered(l)
                        \/ LoadUnauthorized(l)
    \/ \E k \in Tasks : Call(k) \/ ServeTask(k) \/ TaskAnswer(k) \/ TaskUnauthorized(k)
    \/ \E k \in Tasks, s \in Subjects : RunAction(k, s)
    \/ \E k \in Tasks, l \in Loads : ForceRefresh(k, l)

ViewSpec == ViewInit /\ [][ViewNext]_viewVars

-----------------------------------------------------------------------------
(***************************************************************************)
(* Properties.                                                             *)
(***************************************************************************)
ViewTypeOK ==
    /\ open \in BOOLEAN /\ visible \in BOOLEAN /\ own \in BOOLEAN /\ lost \in BOOLEAN
    /\ pollTimer \in BOOLEAN /\ request \in Loads \cup {Null}
    /\ load \in [Loads -> [st : {"free", "sent", "building", "served"}, v : 0..MaxChanges,
                           mine : BOOLEAN, joined : BOOLEAN]]
    /\ task \in [Tasks -> [st : {"free", "queued", "calling", "applied", "waiting", "loading"},
                           subject : Subjects \cup {Null}, v : 0..MaxChanges, mine : BOOLEAN,
                           load : Loads \cup {Null}]]
    /\ asked \in 0..MaxChanges /\ version \in 0..MaxChanges /\ snapshot \in 0..version
    /\ inFlight \in 0..version \cup {Null} /\ busy \in [Subjects -> 0..MaxChanges]

\* The view is owned only where it is shown; requestRef names the one request of this
\* epoch, and whatever is not aborted is of this epoch.
RequestIsOwn ==
    /\ own => open /\ visible
    /\ ~own => request = Null
    /\ request # Null => load[request].mine /\ load[request].st # "free"
    /\ \A l \in Loads : load[l].mine => request = l
    /\ \A k \in Tasks : task[k].mine => own
    /\ \A k \in Tasks : task[k].st = "waiting" => task[k].mine
    /\ \A k \in Tasks : task[k].st = "loading" => request # Null /\ task[k].load = request

\* A snapshot is not older than those that ended before it began, and than the
\* action it was begun for.
VersionsFit ==
    /\ \A l \in Loads : load[l].st = "building" => inFlight # Null
    /\ \A l \in Loads : load[l].st = "served" =>
           load[l].v <= version /\ (inFlight # Null => load[l].v <= inFlight)
    /\ inFlight # Null => snapshot <= inFlight
    /\ \A l \in Loads : load[l].mine /\ load[l].st = "served" => snapshot <= load[l].v
    /\ \A k \in Tasks : task[k].v <= version
    /\ \A k \in Tasks : task[k].st = "loading" /\ ~load[task[k].load].joined =>
           /\ load[task[k].load].st = "building" => task[k].v <= inFlight
           /\ load[task[k].load].st = "served" => task[k].v <= load[task[k].load].v

\* What was asked for has changed the server, or may still do so.
Outstanding == {k \in Tasks : task[k].st \in {"queued", "calling"}}
ChangesFit ==
    version + Cardinality(Outstanding) <= asked /\ \A s \in Subjects : busy[s] <= asked

\* A session is shown as busy exactly while an action of this epoch is queued
\* or runs for it: actions that a closed or hidden view left behind neither
\* keep it busy nor make it look idle.
OwnedOf(s) == {k \in Tasks : Owned(k) /\ task[k].subject = s}
BusyIsCounted == \A s \in Subjects : busy[s] = Cardinality(OwnedOf(s))

\* A view that is open has a timer or a request that ends in one.
PollingGoesOn == own => pollTimer \/ request # Null

\* The inductive invariant of the view.
ViewIInv ==
    /\ ViewTypeOK /\ RequestIsOwn /\ VersionsFit /\ ChangesFit /\ BusyIsCounted
    /\ PollingGoesOn

\* The snapshot that is shown never gets older, whatever order answers come in.
SnapshotGrows == snapshot' >= snapshot

\* The snapshot that is shown when an action ends.
EndsWith(k, l) ==
    LoadAnswer(l, TRUE) /\ Owned(k) /\ task[k].st = "loading" /\ task'[k] = NoTask

\* When an action ends with a snapshot the server built for it, that snapshot
\* shows the effect: it was requested after the action, not before.
FreshUnlessJoined ==
    \A k \in Tasks, l \in Loads :
        EndsWith(k, l) /\ ~load[l].joined => snapshot' >= task[k].v

\* useAdmin.ts: in whatever order answers arrive and however often the view is closed
\* or hidden meanwhile, a session is busy exactly while actions of this view are under
\* way, a timer or a request keeps an open view up to date, and the snapshot that is
\* shown never gets older and shows the action it was built for.
ViewIsKept ==
    /\ [](/\ ViewTypeOK /\ RequestIsOwn /\ VersionsFit /\ ChangesFit
          /\ BusyIsCounted /\ PollingGoesOn)
    /\ [][SnapshotGrows /\ FreshUnlessJoined]_viewVars

=============================================================================
