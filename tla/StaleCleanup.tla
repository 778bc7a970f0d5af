---------------------------- MODULE StaleCleanup ----------------------------
(***************************************************************************)
(* The stale-session cleaner (stale-session-cleaner.ts) with the           *)
(* eligibility reader (cleanup-eligibility.ts) and terminateIfStale of the *)
(* session manager, against everything that can make a session wanted      *)
(* again while the cleaner is waiting: sockets, attached bridges, terminal *)
(* activity, lifecycle operations and removal of the tab.                  *)
(*                                                                         *)
(* The tab store, the activity tracker and the authentication index appear *)
(* with what a snapshot shows of them: generations that grow with each     *)
(* change (EqualGenerationMeansNoChange of ActivityTracker and             *)
(* NoRepeatedGeneration of WebSocketIndex).                                *)
(***************************************************************************)
EXTENDS Naturals, Sequences, FiniteSets

CONSTANTS TabOrder,      \* identifiers in the order of the tab document
          MaxSessions,   \* tabs examined by a run
          Settings,      \* values of staleSessionCleanupHours; an hour is 1
          Unavailable,   \* the settings cannot be read
          NoState,       \* capture found no tab, or none was made yet
          StartTime,     \* time at which the server starts, after the last activity
          MaxNow,        \* bound on time
          MaxOpens,      \* bound on the generation of sockets that still open
          MaxMarks,      \* bound on the generation of activity that still comes
          MaxRevision,   \* bound on lifecycle operations
          MaxRuns        \* bound on the runs of the cleaner

MaxSessionsAssumption == MaxSessions \in Nat \ {0}
SettingsAssumption == Settings \subseteq Nat \cup {Unavailable}
UnavailableAssumption == Unavailable \notin Nat
StartAssumption == StartTime \in Nat

Tabs == {TabOrder[i] : i \in DOMAIN TabOrder}
OrderAssumption == TabOrder \in Seq(Tabs)

VARIABLES
    now,        \* the clock
    hours,      \* staleSessionCleanupHours
    revision,   \* structureRevision of the tab document
    tab,        \* desired state of a tab and lastActivityAt
    activity,   \* activity tracker: generation, tabs dirty and being written
    sockets,    \* authentication index: generation and count
    bridged,    \* tabs with a bridge in the registry
    attaching,  \* tabs whose lock is held by a connect
    runtime,    \* tabs with a tmux session
    timer,      \* timer of the cleaner: none, armed, or fired while cancelled
    stopping,   \* shutdown of the cleaner: no, waiting, done
    run,        \* the run in flight: where it waits and what it knows
    runs,       \* number of runs started
    result,     \* counters of the current run
    touched,    \* history: tabs used since the run first looked at them
    used        \* history: time of the last activity of a tab

envVars == <<now, hours>>
tabVars == <<revision, tab, activity, sockets, bridged, attaching, runtime, touched, used>>
runVars == <<timer, stopping, run, runs, result>>
vars == <<envVars, tabVars, runVars>>

NoRun == [at |-> "idle", todo |-> <<>>, cutoff |-> 0, before |-> NoState,
          captured |-> NoState]
NoResult == [examined |-> 0, terminated |-> 0, skipped |-> 0, failed |-> 0]
Current == Head(run.todo)

Init ==
    /\ now = StartTime /\ hours \in Settings
    /\ revision = 0
    /\ tab = [t \in Tabs |-> [desired |-> "active", last |-> 0]]
    /\ activity = [t \in Tabs |-> [gen |-> 0, dirty |-> FALSE, flushing |-> FALSE, at |-> 0]]
    /\ sockets = [t \in Tabs |-> [gen |-> 0, count |-> 0]]
    /\ bridged = {} /\ attaching = {} /\ runtime \in SUBSET Tabs
    /\ timer = "armed" /\ stopping = "no"
    /\ run = NoRun /\ runs = 0 /\ result = NoResult
    /\ touched = {} /\ used = [t \in Tabs |-> 0]

-----------------------------------------------------------------------------
(***************************************************************************)
(* What happens to a tab meanwhile.                                        *)
(***************************************************************************)
Locked(t) == t \in attaching \/ (run.at \in {"recheck", "persist", "kill"} /\ Current = t)

\* ActivityTracker.mark
Mark(a, t) == [a EXCEPT ![t].gen = @ + 1, ![t].dirty = TRUE]

Touch(t) == touched' = touched \cup {t}
Use(t) == Touch(t) /\ used' = [used EXCEPT ![t] = now]

\* An upgrade is authorised and its socket registered.
SocketOpens(t) ==
    /\ tab[t].desired = "active" /\ sockets[t].gen < MaxOpens
    /\ sockets' = [sockets EXCEPT ![t] = [gen |-> @.gen + 1, count |-> @.count + 1]]
    /\ Touch(t)
    /\ UNCHANGED <<envVars, revision, tab, activity, bridged, attaching, runtime, used, runVars>>

\* unregister finds the socket
Registered(t) == sockets[t].count > 0

SocketCloses(t) ==
    /\ Registered(t)
    /\ sockets' = [sockets EXCEPT ![t] = [gen |-> @.gen + 1, count |-> @.count - 1]]
    /\ UNCHANGED <<envVars, revision, tab, activity, bridged, attaching, runtime,
                   touched, used, runVars>>

\* connect gets the lock, and ends with a registered bridge or without one.
AttachBegins(t) ==
    /\ sockets[t].count > 0 /\ t \notin bridged /\ ~Locked(t)
    /\ tab[t].desired = "active" /\ activity[t].gen < MaxMarks
    /\ attaching' = attaching \cup {t}
    /\ runtime' = runtime \cup {t}
    /\ UNCHANGED <<envVars, revision, tab, activity, sockets, bridged, touched, used, runVars>>

AttachEnds(t) ==
    /\ t \in attaching
    /\ attaching' = attaching \ {t}
    /\ \/ /\ bridged' = bridged \cup {t}
          /\ activity' = Mark(activity, t)
          /\ Use(t)
       \/ UNCHANGED <<bridged, activity, touched, used>>
    /\ UNCHANGED <<envVars, revision, tab, sockets, runtime, runVars>>

BridgeEnds(t) ==
    /\ t \in bridged
    /\ bridged' = bridged \ {t}
    /\ UNCHANGED <<envVars, revision, tab, activity, sockets, attaching, runtime,
                   touched, used, runVars>>

TerminalActivity(t) ==
    /\ t \in bridged /\ activity[t].gen < MaxMarks
    /\ activity' = Mark(activity, t)
    /\ Use(t)
    /\ UNCHANGED <<envVars, revision, tab, sockets, bridged, attaching, runtime, runVars>>

\* The tracker writes the activity; it takes the time when the write begins,
\* and a write that fails makes the tab dirty again.
FlushBegins(t) ==
    /\ activity[t].dirty /\ ~activity[t].flushing
    /\ activity' = [activity EXCEPT ![t] = [gen |-> @.gen + 1, dirty |-> FALSE,
                                            flushing |-> TRUE, at |-> now]]
    /\ UNCHANGED <<envVars, revision, tab, sockets, bridged, attaching, runtime,
                   touched, used, runVars>>

FlushEnds(t) ==
    /\ activity[t].flushing
    /\ \/ /\ tab' = [tab EXCEPT ![t].last = activity[t].at]
          /\ activity' = [activity EXCEPT ![t].gen = @ + 1, ![t].flushing = FALSE]
       \/ /\ activity[t].gen < MaxMarks
          /\ activity' = [activity EXCEPT ![t].gen = @ + 1, ![t].flushing = FALSE,
                                          ![t].dirty = TRUE]
          /\ UNCHANGED tab
    /\ UNCHANGED <<envVars, revision, sockets, bridged, attaching, runtime,
                   touched, used, runVars>>

\* terminate, recreate and closeTab under the lock.
Lifecycle(t, desired) ==
    /\ ~Locked(t) /\ revision < MaxRevision
    /\ desired # tab[t].desired /\ tab[t].desired # "absent"
    /\ tab' = [tab EXCEPT ![t].desired = desired]
    /\ revision' = revision + 1
    /\ bridged' = bridged \ {t}
    /\ runtime' = IF desired = "active" THEN runtime \cup {t} ELSE runtime \ {t}
    /\ activity' = IF desired = "absent" THEN activity ELSE Mark(activity, t)
    /\ Use(t)
    /\ UNCHANGED <<envVars, sockets, attaching, runVars>>

ShellExits(t) ==
    /\ t \in runtime
    /\ runtime' = runtime \ {t}
    /\ UNCHANGED <<envVars, revision, tab, activity, sockets, bridged, attaching,
                   touched, used, runVars>>

Tick == now < MaxNow /\ now' = now + 1 /\ UNCHANGED <<hours, tabVars, runVars>>

ChangeSetting(h) ==
    /\ h # hours /\ hours' = h
    /\ UNCHANGED <<now, tabVars, runVars>>

-----------------------------------------------------------------------------
(***************************************************************************)
(* CleanupEligibilityReader.read: two captures around runtime.exists.      *)
(***************************************************************************)
Capture(t) ==
    IF tab[t].desired = "absent" THEN NoState
    ELSE [structure |-> revision, desired |-> tab[t].desired, last |-> tab[t].last,
          activity |-> activity[t].gen,
          pending  |-> activity[t].dirty \/ activity[t].flushing,
          sockets  |-> sockets[t].gen, count |-> sockets[t].count,
          bridged  |-> t \in bridged]

SameState(before, after) == after = before

OldEnough(s, cutoff) == s.last < cutoff

Quiet(s) == s.desired = "active" /\ s.count = 0 /\ ~s.bridged /\ ~s.pending

\* The verdict once runtime.exists has answered.
Eligible(t, before) ==
    LET after == Capture(t) IN
    /\ after # NoState
    /\ SameState(before, after)
    /\ Quiet(after)
    /\ t \in runtime
    /\ OldEnough(after, run.cutoff)

-----------------------------------------------------------------------------
(***************************************************************************)
(* The cleaner.                                                            *)
(***************************************************************************)

\* schedule
Armed == IF stopping = "no" /\ timer = "none" THEN "armed" ELSE timer

\* Places in the document that hold a tab
Present == {i \in DOMAIN TabOrder : tab[TabOrder[i]].desired # "absent"}

\* Places p are in their order, and only a full slice leaves later ones out.
IsSlice(p) ==
    /\ \A j, k \in DOMAIN p : j < k => p[j] < p[k]
    /\ \A i \in Present : \/ \E k \in DOMAIN p : p[k] = i
                          \/ Len(p) = MaxSessions /\ \A k \in DOMAIN p : p[k] < i

\* tabs.snapshot().tabs.slice(0, maxSessions), the only such sequence
Examined ==
    {[k \in DOMAIN p |-> TabOrder[p[k]]] :
        p \in {q \in UNION {[1..n -> Present] : n \in 0..MaxSessions} : IsSlice(q)}}

\* startRun and execute up to the loop.  Settings or tabs that cannot be read
\* end the run with one failure; a threshold of zero ends it with nothing.
StartRun ==
    /\ runs < MaxRuns /\ runs' = runs + 1
    /\ touched' = {}
    /\ \/ /\ hours \in Nat \ {0}
          /\ \E slice \in Examined :
                run' = [NoRun EXCEPT !.at = "loop", !.todo = slice,
                                     !.cutoff = IF hours <= now THEN now - hours ELSE 0]
          /\ result' = NoResult
       \/ /\ hours # 0
          /\ run' = [NoRun EXCEPT !.at = "loop"]
          /\ result' = [NoResult EXCEPT !.failed = 1]
       \/ /\ hours = 0
          /\ run' = [NoRun EXCEPT !.at = "loop"]
          /\ result' = NoResult

\* cancelTimer: clearTimeout may throw, then the timer fires all the same.
CancelTimer(after) == timer' \in {after, timer}

\* runNow by an administrator; a run in flight is shared, a disabled cleaner
\* refuses.
RunNow ==
    /\ stopping = "no" /\ run.at = "idle" /\ hours # 0
    /\ StartRun
    /\ CancelTimer("none")
    /\ UNCHANGED <<envVars, revision, tab, activity, sockets, bridged, attaching,
                   runtime, used, stopping>>

MayFire == stopping = "no"

\* fireTimer
FireTimer ==
    /\ timer = "armed" /\ timer' = "none"
    /\ IF MayFire /\ run.at = "idle"
       THEN StartRun
       ELSE UNCHANGED <<run, runs, result, touched>>
    /\ UNCHANGED <<envVars, revision, tab, activity, sockets, bridged, attaching,
                   runtime, used, stopping>>

Goto(at) == run' = [run EXCEPT !.at = at]

\* One tab is done.
Count(outcome) ==
    /\ result' = [result EXCEPT ![outcome] = @ + 1, !.examined = @ + 1]
    /\ run' = [run EXCEPT !.at = "loop", !.todo = Tail(@), !.before = NoState,
                          !.captured = NoState]

\* eligibility.read: the first capture; a tab that is gone is skipped.
Read ==
    /\ run.at = "loop" /\ run.todo # <<>>
    /\ touched' = touched \ {Current}
    /\ \/ /\ Capture(Current) # NoState
          /\ run' = [run EXCEPT !.at = "probe", !.before = Capture(Current)]
          /\ UNCHANGED result
       \/ Capture(Current) = NoState /\ Count("skipped")
    /\ UNCHANGED <<envVars, revision, tab, activity, sockets, bridged, attaching,
                   runtime, used, timer, stopping, runs>>

\* runtime.exists answers or fails.
Probed ==
    /\ run.at = "probe"
    /\ \/ /\ Eligible(Current, run.before)
          /\ run' = [run EXCEPT !.at = "lock", !.captured = run.before, !.before = NoState]
          /\ UNCHANGED result
       \/ Count("skipped")
    /\ UNCHANGED <<envVars, tabVars, timer, stopping, runs>>

\* terminateIfStale has the lock and reads again.
Recheck ==
    /\ run.at = "lock" /\ ~Locked(Current)
    /\ \/ /\ Capture(Current) # NoState
          /\ run' = [run EXCEPT !.at = "recheck", !.before = Capture(Current)]
          /\ UNCHANGED result
       \/ Capture(Current) = NoState /\ Count("skipped")
    /\ UNCHANGED <<envVars, tabVars, timer, stopping, runs>>

\* Mutant: sockets that came and went are not compared.
SameGenerationNoSockets(captured, fresh) ==
    captured.structure = fresh.structure /\ captured.activity = fresh.activity

\* sameEligibilityGeneration
SameGeneration(captured, fresh) ==
    /\ captured.structure = fresh.structure
    /\ captured.activity = fresh.activity
    /\ captured.sockets = fresh.sockets

\* The second answer of runtime.exists: go on only when nothing has changed.
Rechecked ==
    /\ run.at = "recheck"
    /\ \/ /\ Eligible(Current, run.before)
          /\ SameGeneration(run.captured, run.before)
          /\ Goto("persist")
          /\ UNCHANGED result
       \/ Count("skipped")
    /\ UNCHANGED <<envVars, tabVars, timer, stopping, runs>>

\* terminateLocked: setDesiredState settles, activity is marked.
PersistStop ==
    /\ run.at = "persist"
    /\ \/ /\ tab' = [tab EXCEPT ![Current].desired = "stopped"]
          /\ revision' = revision + 1
          /\ activity' = Mark(activity, Current)
          /\ Goto("kill")
          /\ UNCHANGED result
       \/ Count("failed") /\ UNCHANGED <<tab, revision, activity>>
    /\ UNCHANGED <<envVars, sockets, bridged, attaching, runtime, touched, used,
                   timer, stopping, runs>>

\* stopRuntime
KillRuntime ==
    /\ run.at = "kill"
    /\ bridged' = bridged \ {Current}
    /\ \/ runtime' = runtime \ {Current} /\ Count("terminated")
       \/ UNCHANGED runtime /\ Count("failed")
    /\ UNCHANGED <<envVars, revision, tab, activity, sockets, attaching, touched, used,
                   timer, stopping, runs>>

\* Mutant: the next run is not scheduled.
FinishRunOnly ==
    /\ run.at = "loop" /\ run.todo = <<>>
    /\ run' = NoRun
    /\ UNCHANGED <<envVars, tabVars, runs, result, stopping, timer>>

\* finishRun
FinishRun ==
    /\ run.at = "loop" /\ run.todo = <<>>
    /\ run' = NoRun
    /\ timer' = Armed
    /\ UNCHANGED <<envVars, tabVars, runs, result, stopping>>

\* shutdown waits for the run in flight, which goes on to its end.
BeginShutdown ==
    /\ stopping = "no"
    /\ stopping' = "waiting"
    /\ CancelTimer("none")
    /\ UNCHANGED <<envVars, tabVars, run, runs, result>>

ShutdownDone ==
    /\ stopping = "waiting" /\ run.at = "idle"
    /\ stopping' = "done"
    /\ UNCHANGED <<envVars, tabVars, timer, run, runs, result>>

-----------------------------------------------------------------------------
RunStep ==
    Read \/ Probed \/ Recheck \/ Rechecked \/ PersistStop \/ KillRuntime \/ FinishRun
    \/ ShutdownDone

TabStep(t) ==
    \/ SocketOpens(t) \/ SocketCloses(t) \/ AttachBegins(t) \/ AttachEnds(t)
    \/ BridgeEnds(t) \/ TerminalActivity(t) \/ FlushBegins(t) \/ FlushEnds(t)
    \/ ShellExits(t)
    \/ \E d \in {"active", "stopped", "absent"} : Lifecycle(t, d)

Next ==
    \/ \E t \in Tabs : TabStep(t)
    \/ Tick \/ (\E h \in Settings : ChangeSetting(h))
    \/ RunNow \/ FireTimer \/ RunStep \/ BeginShutdown

Spec == Init /\ [][Next]_vars

-----------------------------------------------------------------------------
State == [structure : Nat, desired : {"active", "stopped"}, last : Nat, activity : Nat,
          pending : BOOLEAN, sockets : Nat, count : Nat, bridged : BOOLEAN]

RunRecord == [at : {"idle", "loop", "probe", "lock", "recheck", "persist", "kill"},
              todo : Seq(Tabs), cutoff : Nat,
              before : State \cup {NoState}, captured : State \cup {NoState}]

ResultRecord == [examined : Nat, terminated : Nat, skipped : Nat, failed : Nat]

TypeOK ==
    /\ now \in Nat /\ hours \in Settings /\ revision \in Nat
    /\ tab \in [Tabs -> [desired : {"active", "stopped", "absent"}, last : Nat]]
    /\ activity \in [Tabs -> [gen : Nat, dirty : BOOLEAN, flushing : BOOLEAN, at : Nat]]
    /\ sockets \in [Tabs -> [gen : Nat, count : Nat]]
    /\ bridged \subseteq Tabs /\ attaching \subseteq Tabs /\ runtime \subseteq Tabs
    /\ timer \in {"none", "armed"} /\ stopping \in {"no", "waiting", "done"}
    /\ run \in RunRecord /\ runs \in Nat /\ result \in ResultRecord
    /\ touched \subseteq Tabs /\ used \in [Tabs -> Nat]

\* A run that has left its loop is about the tab at its head.
RunHasTab == run.at \notin {"idle", "loop"} => run.todo # <<>>

\* Generations only grow, and a tab cannot be used without one of them growing:
\* what a capture s of tab t does not know, its generations give away.
Noticed(s, t) ==
    /\ s.structure <= revision /\ s.activity <= activity[t].gen /\ s.sockets <= sockets[t].gen
    /\ t \in touched =>
          s.structure # revision \/ s.activity # activity[t].gen \/ s.sockets # sockets[t].gen

UseIsNoticed ==
    /\ run.at = "probe" => run.before \in State /\ Noticed(run.before, Current)
    /\ run.at \in {"lock", "recheck"} => run.captured \in State /\ Noticed(run.captured, Current)

\* The tab document knows the last use of a tab, or the tracker still owes it:
\* the tab is dirty, or the write in flight took its time after that use.
UseIsRecorded ==
    \A t \in Tabs :
        /\ used[t] <= now
        /\ tab[t].desired # "absent" /\ ~activity[t].dirty =>
              used[t] <= IF activity[t].flushing THEN activity[t].at ELSE tab[t].last

\* Of the tabs a run may examine, some are counted and the others still to do.
CountsAreKept ==
    /\ result.examined + Len(run.todo) <= MaxSessions
    /\ run.todo # <<>> \/ result.examined > 0 =>
          result.examined = result.terminated + result.skipped + result.failed

\* terminateIfStale decides to stop a session only when nobody has opened a
\* socket, attached, typed, restarted or recreated it since the cleaner first
\* looked at it, and it is not in use at that moment.
StopsOnlyUntouched ==
    run.at = "recheck" /\ run'.at = "persist" =>
      /\ Current \notin touched
      /\ sockets[Current].count = 0 /\ Current \notin bridged

\* The threshold is kept: a session is stopped only when its last activity,
\* written to the tab document or not, lies more than the threshold of the run before
\* the start of the run.
StopsOnlyStale ==
    run.at = "recheck" /\ run'.at = "persist" => used[Current] < run.cutoff

\* The counters of a run add up, and a run examines no more tabs than it may.
ResultAddsUp ==
    /\ result.examined <= MaxSessions
    /\ result.examined > 0 =>
          result.examined = result.terminated + result.skipped + result.failed

\* Once shutdown has resolved no run is in flight, and none begins: a timer
\* that could not be cancelled does nothing.
ShutdownIsFinal == stopping = "done" => run.at = "idle"

\* A cleaner that is neither running nor shut down has its next run scheduled.
NextRunIsScheduled == stopping = "no" /\ run.at = "idle" => timer = "armed"

\* All of it together is inductive.
IInv ==
    /\ TypeOK /\ RunHasTab /\ UseIsNoticed /\ UseIsRecorded
    /\ CountsAreKept /\ ShutdownIsFinal /\ NextRunIsScheduled

\* Every session that the cleaner stops is stale and forgotten, although the
\* cleaner waits for tmux and for the lock after it has looked: a socket, a terminal or
\* an operation that comes meanwhile is noticed.
StopsOnlyForgotten == []IInv /\ [][StopsOnlyUntouched /\ StopsOnlyStale]_vars

\* Whatever failed, the cleaner goes on until its shutdown, which is final, and
\* its counters are right.
CleanerIsScheduled == NextRunIsScheduled /\ ShutdownIsFinal /\ ResultAddsUp

=============================================================================
