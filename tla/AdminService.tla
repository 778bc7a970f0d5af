---------------------------- MODULE AdminService ----------------------------
(***************************************************************************)
(* The administration snapshot of the server (admin-service.ts) and the    *)
(* routes in front of it (admin-routes.ts).  A snapshot asks tmux about    *)
(* every tab, a few at a time, through a gate of Capacity slots; a probe   *)
(* that takes too long is given up, and keeps its slot until it really     *)
(* ends.  Requests that come while a snapshot is being built join it.      *)
(*                                                                         *)
(* A row goes through the probe of the session and, when it runs and the   *)
(* cleanup is enabled, the probe of its eligibility.  Counters of memory,  *)
(* bridges and sockets are left out: they are copied.                      *)
(***************************************************************************)
EXTENDS Naturals, Sequences, FiniteSets, SequencesExt

CONSTANTS Ids,                   \* sessions
          Readers,               \* requests for a snapshot
          Capacity,              \* probeConcurrency
          RowCapacity,           \* maxSessions, of the rows and of the errors
          MaxReads, MaxActions   \* bounds: snapshots built, actions and closed tabs

BoundsAssumption == MaxReads \in Nat /\ MaxActions \in Nat
IdsAssumption == IsFiniteSet(Ids)
RoomAssumption == Capacity \in Nat \ {0} /\ RowCapacity \in Nat \ {0}

VARIABLES
    tabs,              \* tabs of the tab store, in their order
    rows,              \* the tabs of inFlightSnapshot that no worker has taken
    probe,             \* rows that a worker has taken, and their results
    building,          \* inFlightSnapshot
    snapshotReader,    \* who waits for it
    active, waiters,   \* ProbeGate
    hung,              \* probes that were given up and still run
    errors,            \* errors: a map, whose entries know when they were set
    judged,            \* tabs that are to be active, if a cleanup threshold is set
    outcome,           \* history: how the last action on a session ended
    reads, actions     \* snapshots built and actions so far

adminVars == <<tabs, rows, probe, building, snapshotReader, active, waiters, hung, errors,
               judged, outcome, reads, actions>>
gateVars == <<active, waiters, hung>>
rowVars == <<rows, probe, building>>
sourceVars == <<tabs, errors, judged, outcome, reads, actions>>

Failures == {"invalid_session_state", "operation_failed"}
Waiting == {"asking", "judging"}
Running == {"existing", "eligible"}
Done == {"running", "stopped", "unknown", "stale", "unjudged"}

Of(status) == {i \in Ids : probe[i] \in status}

AdminInit ==
    /\ tabs \in SetToSeqs(Ids) /\ rows = <<>> /\ probe = [i \in Ids |-> "none"]
    /\ building = FALSE /\ snapshotReader = [r \in Readers |-> "idle"]
    /\ active = 0 /\ waiters = <<>> /\ hung = 0
    /\ errors = [i \in {} |-> 0] /\ judged \in SUBSET Ids /\ outcome = [i \in Ids |-> "none"]
    /\ reads = 0 /\ actions = 0

-----------------------------------------------------------------------------
(***************************************************************************)
(* The gate.                                                               *)
(***************************************************************************)
\* A probe whose slot was granted starts.
Started(p) == IF p = "asking" THEN "existing" ELSE "eligible"

\* boundedProbe of row i, which becomes p: a slot now, or a place in the queue
Acquire(i, p) ==
    IF active < Capacity /\ waiters = <<>>
    THEN /\ active' = active + 1 /\ probe' = [probe EXCEPT ![i] = Started(p)]
         /\ UNCHANGED waiters
    ELSE /\ waiters' = Append(waiters, i) /\ probe' = [probe EXCEPT ![i] = p]
         /\ UNCHANGED active

\* release, and drain: the longest waiting probe takes the slot.
Release(pr, queue) ==
    IF queue = <<>>
    THEN active' = active - 1 /\ waiters' = queue /\ probe' = pr
    ELSE /\ waiters' = Tail(queue) /\ UNCHANGED active
         /\ probe' = [pr EXCEPT ![Head(queue)] = Started(@)]

\* The slot of a row whose eligibility is asked next goes to the longest waiting
\* probe, the new one of the row included.
ReleaseAndJudge(i) ==
    Release([probe EXCEPT ![i] = "judging"], Append(waiters, i))

-----------------------------------------------------------------------------
(***************************************************************************)
(* The snapshot.                                                           *)
(***************************************************************************)
\* orderedTabs
OrderedTabs == SubSeq(tabs, 1, IF Len(tabs) < RowCapacity THEN Len(tabs) ELSE RowCapacity)

\* retainCurrentErrors
RetainCurrentErrors ==
    errors' = [i \in DOMAIN errors \cap ToSet(OrderedTabs) |-> errors[i]]

\* GET /admin: snapshot joins the one in flight, or starts buildSnapshot.
ReadAdmin(r) ==
    /\ snapshotReader[r] = "idle" /\ snapshotReader' = [snapshotReader EXCEPT ![r] = "waiting"]
    /\ IF building
       THEN UNCHANGED <<rows, probe, building, errors, reads>>
       ELSE /\ reads < MaxReads /\ reads' = reads + 1
            /\ building' = TRUE /\ rows' = OrderedTabs /\ probe' = [i \in Ids |-> "none"]
            /\ RetainCurrentErrors
    /\ UNCHANGED <<gateVars, tabs, judged, outcome, actions>>

\* mapConcurrent: a free worker takes the next row.
Take ==
    /\ building /\ rows # <<>> /\ Cardinality(Of(Waiting \cup Running)) < Capacity
    /\ rows' = Tail(rows) /\ Acquire(Head(rows), "asking")
    /\ UNCHANGED <<building, snapshotReader, hung, sourceVars>>

\* The tmux session exists or not, or tmux failed; readHealth goes on.
Existing(i, answer) ==
    /\ probe[i] = "existing"
    /\ IF answer = "running" /\ i \in judged THEN ReleaseAndJudge(i)
       ELSE Release([probe EXCEPT ![i] = answer], waiters)
    /\ UNCHANGED <<rows, building, snapshotReader, hung, sourceVars>>

\* Eligible for cleanup, not, or unknown
Judged(i, answer) ==
    /\ probe[i] = "eligible"
    /\ Release([probe EXCEPT ![i] = answer], waiters)
    /\ UNCHANGED <<rows, building, snapshotReader, hung, sourceVars>>

GivenUp(p) == IF p \in {"asking", "existing"} THEN "unknown" ELSE "unjudged"

\* Mutant: a probe that is given up frees its slot at once.
ProbeAbandonedFrees(i) ==
    Release([probe EXCEPT ![i] = GivenUp(@)], waiters) /\ hung' = hung + 1

\* The probe keeps its slot until it ends.
ProbeAbandoned(i) ==
    /\ probe' = [probe EXCEPT ![i] = GivenUp(@)] /\ hung' = hung + 1
    /\ UNCHANGED <<active, waiters>>

\* cancel: a probe that waits for a slot leaves the queue.
Cancelled(i) ==
    /\ probe' = [probe EXCEPT ![i] = GivenUp(@)]
    /\ \E n \in DOMAIN waiters : waiters[n] = i /\ waiters' = RemoveAt(waiters, n)
    /\ UNCHANGED <<active, hung>>

\* The timer of boundedProbe
Timeout(i) ==
    /\ \/ probe[i] \in Waiting /\ Cancelled(i)
       \/ probe[i] \in Running /\ ProbeAbandoned(i)
    /\ UNCHANGED <<rows, building, snapshotReader, sourceVars>>

\* A probe that was given up ends.
LateSettlement ==
    /\ hung > 0 /\ hung' = hung - 1 /\ Release(probe, waiters)
    /\ UNCHANGED <<rows, building, snapshotReader, sourceVars>>

\* finishSnapshot: every row has its health.
FinishSnapshot ==
    /\ building /\ rows = <<>> /\ Of(Waiting \cup Running) = {}
    /\ building' = FALSE /\ snapshotReader' = [r \in Readers |-> "idle"]
    /\ UNCHANGED <<rows, probe, gateVars, sourceVars>>

-----------------------------------------------------------------------------
(***************************************************************************)
(* Actions on sessions, and what they leave behind.                        *)
(***************************************************************************)
\* errors with the new entry, which is the youngest also if there was one before
Renewed(i, error) ==
    [j \in DOMAIN errors \cup {i} |->
        IF j = i THEN [error |-> error, at |-> actions + 1] ELSE errors[j]]

\* recordLifecycleError: the oldest entry goes if there are too many.
Recording(i, error) ==
    LET all == Renewed(i, error) IN
    IF Cardinality(DOMAIN all) <= RowCapacity THEN errors' = all
    ELSE \E old \in DOMAIN all :
            /\ \A j \in DOMAIN all : all[old].at <= all[j].at
            /\ errors' = [j \in DOMAIN all \ {old} |-> all[j]]

\* clearLifecycleError
ClearLifecycleError(i) == errors' = [j \in DOMAIN errors \ {i} |-> errors[j]]

\* POST /admin/sessions/:id has ended; an unknown tab is not recorded.
ActionEnds(i, result) ==
    /\ actions < MaxActions /\ actions' = actions + 1
    /\ outcome' = [outcome EXCEPT ![i] = IF result = "tab_not_found" THEN @ ELSE result]
    /\ CASE result = "ok" -> ClearLifecycleError(i)
         [] result \in Failures -> Recording(i, result)
         [] OTHER -> UNCHANGED errors
    /\ UNCHANGED <<tabs, rowVars, snapshotReader, gateVars, judged, reads>>

\* A tab is closed by another route.
Elsewhere ==
    /\ actions < MaxActions /\ actions' = actions + 1
    /\ \E n \in DOMAIN tabs : tabs' = RemoveAt(tabs, n)
    /\ UNCHANGED <<rowVars, snapshotReader, gateVars, errors, judged, outcome, reads>>

-----------------------------------------------------------------------------
Existed(i) == \E answer \in {"running", "stopped", "unknown"} : Existing(i, answer)
Assessed(i) == \E answer \in {"running", "stale", "unjudged"} : Judged(i, answer)

AdminNext ==
    \/ Take \/ FinishSnapshot \/ LateSettlement \/ Elsewhere
    \/ \E r \in Readers : ReadAdmin(r)
    \/ \E i \in Ids : Existed(i) \/ Assessed(i) \/ Timeout(i)
    \/ \E i \in Ids, result \in Failures \cup {"ok", "tab_not_found"} : ActionEnds(i, result)

AdminSpec == AdminInit /\ [][AdminNext]_adminVars

-----------------------------------------------------------------------------
(***************************************************************************)
(* Properties.                                                             *)
(***************************************************************************)
\* Type correctness
AdminTypeOK ==
    /\ probe \in [Ids -> Waiting \cup Running \cup Done \cup {"none"}]
    /\ tabs \in Seq(Ids) /\ rows \in Seq(Ids) /\ waiters \in Seq(Ids)
    /\ active \in Nat /\ hung \in Nat /\ reads \in Nat /\ actions \in Nat
    /\ snapshotReader \in [Readers -> {"idle", "waiting"}] /\ building \in BOOLEAN
    /\ errors \in [DOMAIN errors -> [error : Failures, at : Nat]] /\ DOMAIN errors \subseteq Ids
    /\ outcome \in [Ids -> Failures \cup {"ok", "none"}]

\* Every slot of the gate is held by a probe that runs, given up or not, and
\* never more than Capacity commands of tmux run at once, however many of them
\* hang.
SlotsAddUp == active = hung + Cardinality(Of(Running)) /\ active <= Capacity

\* A probe waits only while every slot is taken, and the queue holds each
\* waiting probe once: a slot that becomes free is never lost.
NobodyWaitsForAFreeSlot ==
    /\ waiters # <<>> => active = Capacity
    /\ ToSet(waiters) = Of(Waiting) /\ IsInjective(waiters)

\* A row is probed once in a snapshot, and none is between snapshots.
RowsAreTakenOnce ==
    /\ IsInjective(tabs) /\ IsInjective(rows)
    /\ \A n \in DOMAIN rows : probe[rows[n]] = "none"
    /\ ~building => rows = <<>> /\ Of(Waiting \cup Running) = {}

\* The error a row shows is the outcome of the last action on that session,
\* also after other sessions failed, tabs were closed and errors evicted, and there
\* are never more errors than sessions.
ErrorsAreOfTheLastAction ==
    /\ \A i \in DOMAIN errors : outcome[i] = errors[i].error
    /\ Cardinality(DOMAIN errors) <= RowCapacity

\* The inductive invariant of the service: every slot is accounted for although
\* probes are given up while they run, nobody waits while one is free, and a row
\* shows the error of its last action.
SlotsAreAccounted ==
    /\ AdminTypeOK /\ SlotsAddUp /\ NobodyWaitsForAFreeSlot /\ RowsAreTakenOnce
    /\ ErrorsAreOfTheLastAction

=============================================================================
