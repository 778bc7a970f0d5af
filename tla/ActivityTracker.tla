-------------------------- MODULE ActivityTracker --------------------------
(***************************************************************************)
(* The activity tracker (activity-tracker.ts): terminal activity marks     *)
(* tabs as dirty, a timer writes the dirty tabs to the tab store, and      *)
(* shutdown writes what is left.  For the stale-session cleaner it also    *)
(* keeps a generation per tab, in a map of bounded size.                   *)
(*                                                                         *)
(* Sets keep their insertion order in JavaScript and the map evicts its    *)
(* oldest key, so dirty, flushing and tracked are sequences without        *)
(* duplicates.                                                             *)
(***************************************************************************)
EXTENDS Naturals, InsertionOrder

CONSTANTS Tabs,
          MaxTracked,   \* MAX_CLEANUP_GENERATIONS
          MaxMarks,     \* bound on the marks of a tab
          MaxFailures   \* bound on the writes that fail

MaxTrackedAssumption == MaxTracked \in Nat \ {0}
MaxMarksAssumption == MaxMarks \in Nat /\ MaxFailures \in Nat

VARIABLES
    dirty,       \* dirtyIds
    flushing,    \* flushingIds
    timer,       \* is the timer set?
    flush,       \* periodic write: none, storing, settling
    shutdown,    \* none, waiting for the write, storing, resolved or rejected
    gens,        \* cleanupGenerations with clock and eviction generation
    marks,       \* history: number of marks a tab has received
    taken,       \* history: marks[t] when the running write took t
    saved,       \* history: marks[t] covered by a successful write
    failures,    \* history: number of writes that failed
    seen         \* cleanupSnapshot a reader has taken of a tab, and whether
                 \* the tab has seen activity or a write since

activityVars == <<dirty, flushing, timer, flush, shutdown, gens, marks, taken, saved, failures, seen>>

Zero == [t \in Tabs |-> 0]

ActivityInit ==
    /\ dirty = <<>> /\ flushing = <<>>
    /\ timer = FALSE
    /\ flush = "none" /\ shutdown = "none"
    /\ gens = [tracked |-> <<>>, value |-> Zero, clock |-> 0, evicted |-> 0]
    /\ marks = Zero /\ taken = Zero /\ saved = Zero /\ failures = 0
    /\ seen \in [tab : Tabs, generation : {0}, pending : {FALSE}, changed : {FALSE}]

-----------------------------------------------------------------------------
Accepting == shutdown = "none"

\* Mutant: an evicted tab falls back to what was valid before.
AdvanceKeepsEviction(g, t) ==
    LET order == Renew(g.tracked, t)
        full  == Len(order) > MaxTracked
    IN [tracked |-> IF full THEN Tail(order) ELSE order,
        value   |-> [g.value EXCEPT ![t] = g.clock + 1],
        clock   |-> g.clock + 1,
        evicted |-> g.evicted]

\* advanceCleanupGeneration: the tab becomes the newest key; when the map is
\* full the oldest key goes, and all tabs without a key change generation.
Advance(g, t) ==
    LET order == Renew(g.tracked, t)
        full  == Len(order) > MaxTracked
    IN [tracked |-> IF full THEN Tail(order) ELSE order,
        value   |-> [g.value EXCEPT ![t] = g.clock + 1],
        clock   |-> g.clock + 1,
        evicted |-> IF full THEN g.clock + 1 ELSE g.evicted]

\* advanceCleanupGeneration for one tab after the other
AdvanceEach(g, ids) ==
    LET upTo[n \in 0 .. Len(ids)] == IF n = 0 THEN g ELSE Advance(upTo[n - 1], ids[n])
    IN upTo[Len(ids)]

\* The tabs in the sequence change state.
Changed(ids) ==
    /\ gens' = AdvanceEach(gens, ids)
    /\ seen' = [seen EXCEPT !.changed = @ \/ Contains(ids, seen.tab)]

\* cleanupSnapshot
Generation(t) == IF Contains(gens.tracked, t) THEN gens.value[t] ELSE gens.evicted
Pending(t) == Contains(dirty, t) \/ Contains(flushing, t)

\* schedule, with the dirty tabs and the write as they are by then.
Scheduled(d, f) == timer \/ (Accepting /\ f = "none" /\ d # <<>>)

-----------------------------------------------------------------------------
Mark(t) ==
    /\ Accepting
    /\ marks[t] < MaxMarks
    /\ dirty' = Add(dirty, t)
    /\ Changed(<<t>>)
    /\ timer' = Scheduled(dirty', flush)
    /\ marks' = [marks EXCEPT ![t] = @ + 1]
    /\ UNCHANGED <<flushing, flush, shutdown, taken, saved, failures>>

\* takeDirtySnapshot; the taken tabs are being flushed from now on.
TakeDirty ==
    /\ dirty' = <<>>
    /\ flushing' = AddAll(flushing, dirty)
    /\ Changed(dirty)
    /\ taken' = [t \in Tabs |-> IF Contains(dirty, t) THEN marks[t] ELSE taken[t]]

\* The timer fires: startFlush.
FireTimer ==
    /\ timer
    /\ timer' = FALSE
    /\ IF flush = "none" /\ dirty # <<>>
       THEN TakeDirty /\ flush' = "storing"
       ELSE UNCHANGED <<dirty, flushing, gens, seen, taken, flush>>
    /\ UNCHANGED <<shutdown, marks, saved, failures>>

\* The write of the tabs in ids succeeds, or it fails and they are dirty again.
Save(ids) ==
    /\ saved' = [t \in Tabs |-> IF Contains(ids, t) THEN taken[t] ELSE saved[t]]
    /\ UNCHANGED <<dirty, failures>>
Fail(ids) ==
    /\ failures < MaxFailures
    /\ failures' = failures + 1
    /\ dirty' = AddAll(dirty, ids)
    /\ UNCHANGED saved

\* store.flushActivity settles.
Stored ==
    /\ flush = "storing"
    /\ Save(flushing) \/ Fail(flushing)
    /\ flush' = "settling"
    /\ UNCHANGED <<flushing, timer, shutdown, gens, marks, taken, seen>>

\* The finally handler runs in a later microtask.
FlushSettled ==
    /\ flush = "settling"
    /\ flushing' = <<>>
    /\ Changed(flushing)
    /\ flush' = "none"
    /\ timer' = Scheduled(dirty, "none")
    /\ UNCHANGED <<dirty, shutdown, marks, taken, saved, failures>>

-----------------------------------------------------------------------------
\* finishShutdown once no periodic write is in flight.
FinishShutdown ==
    \/ /\ dirty = <<>>
       /\ shutdown' = "resolved"
       /\ UNCHANGED <<dirty, flushing, gens, seen, taken>>
    \/ /\ dirty # <<>>
       /\ TakeDirty
       /\ shutdown' = "storing"

BeginShutdown ==
    /\ shutdown = "none"
    /\ timer' = FALSE
    /\ \/ flush = "none" /\ FinishShutdown
       \/ /\ flush # "none" /\ shutdown' = "waiting"
          /\ UNCHANGED <<dirty, flushing, gens, seen, taken>>
    /\ UNCHANGED <<flush, marks, saved, failures>>

ContinueShutdown ==
    /\ shutdown = "waiting" /\ flush = "none"
    /\ FinishShutdown
    /\ UNCHANGED <<timer, flush, marks, saved, failures>>

\* The last write settles, and with it the shutdown.
ShutdownStored ==
    /\ shutdown = "storing"
    /\ \/ Save(flushing) /\ shutdown' = "resolved"
       \/ Fail(flushing) /\ shutdown' = "rejected"
    /\ flushing' = <<>>
    /\ Changed(flushing)
    /\ UNCHANGED <<timer, flush, marks, taken>>

-----------------------------------------------------------------------------
\* The eligibility reader takes a snapshot of a tab at any moment.
Look(t) ==
    /\ seen' = [tab |-> t, generation |-> Generation(t), pending |-> Pending(t),
                changed |-> FALSE]
    /\ UNCHANGED <<dirty, flushing, timer, flush, shutdown, gens, marks, taken, saved, failures>>

FlushStep == FireTimer \/ Stored \/ FlushSettled
ShutdownStep == ContinueShutdown \/ ShutdownStored

ActivityNext ==
    \/ \E t \in Tabs : Mark(t) \/ Look(t)
    \/ FlushStep \/ BeginShutdown \/ ShutdownStep

ActivitySpec == ActivityInit /\ [][ActivityNext]_activityVars

-----------------------------------------------------------------------------
\* Type correctness
ActivityTypeOK ==
    /\ dirty \in Seq(Tabs) /\ IsInjective(dirty)
    /\ flushing \in Seq(Tabs) /\ IsInjective(flushing)
    /\ timer \in BOOLEAN
    /\ flush \in {"none", "storing", "settling"}
    /\ shutdown \in {"none", "waiting", "storing", "resolved", "rejected"}
    /\ gens \in [tracked : Seq(Tabs), value : [Tabs -> Nat], clock : Nat, evicted : Nat]
    /\ IsInjective(gens.tracked) /\ Len(gens.tracked) <= MaxTracked
    /\ marks \in [Tabs -> Nat] /\ taken \in [Tabs -> Nat] /\ saved \in [Tabs -> Nat]
    /\ failures \in Nat
    /\ seen \in [tab : Tabs, generation : Nat, pending : BOOLEAN, changed : BOOLEAN]

\* No generation is ahead of the clock that numbers them.
ClockLeads == gens.evicted <= gens.clock /\ \A t \in Tabs : gens.value[t] <= gens.clock

\* Only one write at a time has taken tabs, and none begins behind the back of a shutdown.
OneWrite ==
    /\ flush = "none" /\ shutdown # "storing" => flushing = <<>>
    /\ shutdown \in {"storing", "resolved", "rejected"} => flush = "none"
    /\ shutdown # "none" => ~timer
    /\ shutdown = "storing" => dirty = <<>>

\* No activity is lost: a mark that no successful write covers is dirty, or in
\* the running write which will make it dirty again should it fail.  A mark
\* that arrives while its tab is being written counts anew.
UnsavedIsTracked ==
    \A t \in Tabs :
        /\ saved[t] <= taken[t] /\ taken[t] <= marks[t]
        /\ saved[t] < marks[t] =>
              \/ Contains(dirty, t)
              \/ flush # "settling" /\ Contains(flushing, t) /\ taken[t] = marks[t]

\* Activity never waits for a timer nobody has set.
DirtyIsScheduled ==
    Accepting /\ dirty # <<>> => timer \/ flush # "none"

\* shutdown resolves only when every accepted mark is in the store.
ShutdownSavesEverything == shutdown = "resolved" => \A t \in Tabs : saved[t] = marks[t]

\* The cleaner compares generations to learn whether a tab has seen activity
\* in between: generations only grow, and one that has not means that nothing
\* happened, also when the map had to evict the tab.
EqualGenerationMeansNoChange ==
    /\ seen.generation <= Generation(seen.tab)
    /\ IF seen.changed THEN seen.generation < Generation(seen.tab)
       ELSE Pending(seen.tab) = seen.pending

\* The inductive invariant of the tracker: activity that is not saved is tracked and
\* scheduled, a shutdown that resolved has saved all of it, and a reader who sees the
\* same generation twice may conclude that the tab was not used, although the map of
\* generations forgets tabs.
ActivityIsKept ==
    /\ ActivityTypeOK /\ ClockLeads /\ OneWrite /\ UnsavedIsTracked /\ DirtyIsScheduled
    /\ ShutdownSavesEverything /\ EqualGenerationMeansNoChange

=============================================================================
