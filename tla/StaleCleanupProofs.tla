------------------------- MODULE StaleCleanupProofs -------------------------
(***************************************************************************)
(* What the cleaner of stale sessions guarantees for any tabs, thresholds  *)
(* and times: it decides to stop a session only if nobody has used it      *)
(* since the cleaner first looked at it and its last use lies beyond the   *)
(* threshold, although it waits for tmux and for the lock in between.      *)
(*                                                                         *)
(* The argument: generations only grow, and every use of a tab makes one   *)
(* of them grow, so that equal generations mean that there was no use      *)
(* (UseIsNoticed).  The time of the last use is in the tab document unless *)
(* the tracker still owes it, and then the tab is pending (UseIsRecorded). *)
(***************************************************************************)
EXTENDS StaleCleanup, SequenceTheorems, TLAPS

ConstantsAreGood ==
    /\ MaxSessionsAssumption /\ SettingsAssumption /\ UnavailableAssumption
    /\ StartAssumption /\ OrderAssumption

-----------------------------------------------------------------------------
(***************************************************************************)
(* Uses are noticed.                                                       *)
(***************************************************************************)
\* No generation of tab t goes back, and one of them grows when t is used.
Grows(t) ==
    /\ revision <= revision' /\ activity[t].gen <= activity'[t].gen
    /\ sockets[t].gen <= sockets'[t].gen
    /\ t \in touched' =>
          \/ t \in touched \/ revision < revision' \/ activity[t].gen < activity'[t].gen
          \/ sockets[t].gen < sockets'[t].gen

\* What a capture knows of its tab stays true as long as generations grow.
LEMMA GrowthIsNoticed ==
    ASSUME NEW s \in State, NEW t \in Tabs, TypeOK, TypeOK', Grows(t), Noticed(s, t)
    PROVE  Noticed(s, t)'
<1>1. /\ s.structure \in Nat /\ s.activity \in Nat /\ s.sockets \in Nat
  BY DEF State
<1>2. /\ revision \in Nat /\ activity[t].gen \in Nat /\ sockets[t].gen \in Nat
  BY DEF TypeOK
<1>3. /\ revision' \in Nat /\ activity'[t].gen \in Nat /\ sockets'[t].gen \in Nat
  BY DEF TypeOK
<1> QED
  BY <1>1, <1>2, <1>3 DEF Grows, Noticed

\* The tab that a run is about is a tab.
LEMMA CurrentIsTab ==
    ASSUME TypeOK, run.todo # <<>>
    PROVE  Current \in Tabs /\ Tail(run.todo) \in Seq(Tabs)
           /\ Len(Tail(run.todo)) = Len(run.todo) - 1 /\ Len(run.todo) \in Nat \ {0}
<1>1. run.todo \in Seq(Tabs)
  BY DEF TypeOK, RunRecord
<1> QED
  BY <1>1 DEF Current

\* While others use the tabs, what the run knows stays noticed.
LEMMA UseStaysNoticed ==
    ASSUME TypeOK, TypeOK', RunHasTab, UseIsNoticed, UNCHANGED run, \A t \in Tabs : Grows(t)
    PROVE  UseIsNoticed'
<1>0. Current' = Current
  BY DEF Current
<1>1. ASSUME run.at = "probe" PROVE run.before \in State /\ Noticed(run.before, Current)'
  <2>1. Current \in Tabs
    BY <1>1, CurrentIsTab DEF RunHasTab
  <2>2. PICK t \in Tabs : t = Current
    BY <2>1
  <2>3. PICK s \in State : s = run.before
    BY <1>1 DEF UseIsNoticed
  <2>4. Noticed(s, t)
    BY <1>1, <2>2, <2>3 DEF UseIsNoticed
  <2>5. Noticed(s, t)'
    BY <2>4, GrowthIsNoticed
  <2> QED
    BY <2>2, <2>3, <2>5, <1>0 DEF Noticed
<1>2. ASSUME run.at \in {"lock", "recheck"}
      PROVE  run.captured \in State /\ Noticed(run.captured, Current)'
  <2>1. Current \in Tabs
    BY <1>2, CurrentIsTab DEF RunHasTab
  <2>2. PICK t \in Tabs : t = Current
    BY <2>1
  <2>3. PICK s \in State : s = run.captured
    BY <1>2 DEF UseIsNoticed
  <2>4. Noticed(s, t)
    BY <1>2, <2>2, <2>3 DEF UseIsNoticed
  <2>5. Noticed(s, t)'
    BY <2>4, GrowthIsNoticed
  <2> QED
    BY <2>2, <2>3, <2>5, <1>0 DEF Noticed
<1> QED
  BY <1>0, <1>1, <1>2 DEF UseIsNoticed

-----------------------------------------------------------------------------
(***************************************************************************)
(* What happens to the tabs.                                               *)
(***************************************************************************)
\* A step of the tabs keeps types, makes generations grow and records uses.
GoodStep == TypeOK' /\ (\A u \in Tabs : Grows(u)) /\ UseIsRecorded'

\* Types of what a tab is made of.
LEMMA TabTypes ==
    ASSUME TypeOK, NEW t \in Tabs
    PROVE  /\ tab[t].last \in Nat /\ tab[t].desired \in {"active", "stopped", "absent"}
           /\ activity[t].gen \in Nat /\ activity[t].at \in Nat
           /\ activity[t].dirty \in BOOLEAN /\ activity[t].flushing \in BOOLEAN
           /\ sockets[t].gen \in Nat /\ sockets[t].count \in Nat
           /\ used[t] \in Nat /\ now \in Nat /\ revision \in Nat
  BY DEF TypeOK

\* A socket that opens or closes moves the generation of its tab.
LEMMA SocketsMove ==
    ASSUME TypeOK, UseIsRecorded, NEW t \in Tabs, SocketOpens(t) \/ SocketCloses(t)
    PROVE  GoodStep
<1>1. PICK n \in Nat : sockets' = [sockets EXCEPT ![t] = [gen |-> sockets[t].gen + 1, count |-> n]]
  <2>1. CASE SocketOpens(t)
    <3>1. sockets[t].count + 1 \in Nat
      BY TabTypes
    <3>2. sockets' = [sockets EXCEPT ![t] = [gen |-> sockets[t].gen + 1,
                                             count |-> sockets[t].count + 1]]
      BY <2>1 DEF SocketOpens
    <3> QED
      BY <3>1, <3>2
  <2>2. CASE SocketCloses(t)
    <3>1. sockets[t].count - 1 \in Nat
      BY <2>2, TabTypes DEF SocketCloses, Registered
    <3>2. sockets' = [sockets EXCEPT ![t] = [gen |-> sockets[t].gen + 1,
                                             count |-> sockets[t].count - 1]]
      BY <2>2 DEF SocketCloses
    <3> QED
      BY <3>1, <3>2
  <2> QED
    BY <2>1, <2>2
<1>2. /\ UNCHANGED <<envVars, revision, tab, activity, bridged, attaching, runtime, used, runVars>>
      /\ touched' \subseteq touched \cup {t}
  BY DEF SocketOpens, SocketCloses, Touch
<1>3. sockets' \in [Tabs -> [gen : Nat, count : Nat]]
  <2>1. [gen |-> sockets[t].gen + 1, count |-> n] \in [gen : Nat, count : Nat]
    BY TabTypes
  <2>2. sockets \in [Tabs -> [gen : Nat, count : Nat]]
    BY DEF TypeOK
  <2> QED
    BY <1>1, <2>1, <2>2
<1>4. TypeOK'
  BY <1>2, <1>3 DEF TypeOK, envVars, runVars
<1>5. ASSUME NEW u \in Tabs PROVE Grows(u)
  <2>1. sockets'[u].gen = IF u = t THEN sockets[u].gen + 1 ELSE sockets[u].gen
    BY <1>1, TabTypes DEF TypeOK
  <2> QED
    BY <2>1, <1>2, TabTypes DEF Grows
<1>6. UseIsRecorded'
  BY <1>2 DEF UseIsRecorded, envVars
<1> QED
  BY <1>4, <1>5, <1>6 DEF GoodStep

\* Two fields of an activity record change.
LEMMA ActivityIsRecord ==
    ASSUME NEW a \in [gen : Nat, dirty : BOOLEAN, flushing : BOOLEAN, at : Nat],
           NEW n \in Nat, NEW b \in BOOLEAN
    PROVE  /\ [a EXCEPT !.gen = n, !.dirty = b] \in
                 [gen : Nat, dirty : BOOLEAN, flushing : BOOLEAN, at : Nat]
           /\ [a EXCEPT !.gen = n, !.dirty = b].gen = n
           /\ [a EXCEPT !.gen = n, !.dirty = b].dirty = b
  OBVIOUS

\* Activity is marked: the tab becomes dirty, and its generation grows.
LEMMA MarkMoves ==
    ASSUME TypeOK, NEW t \in Tabs, NEW u \in Tabs
    PROVE  /\ Mark(activity, t) \in [Tabs -> [gen : Nat, dirty : BOOLEAN, flushing : BOOLEAN, at : Nat]]
           /\ Mark(activity, t)[t].gen = activity[t].gen + 1
           /\ Mark(activity, t)[t].dirty = TRUE
           /\ u # t => Mark(activity, t)[u] = activity[u]
<1> DEFINE A == [gen : Nat, dirty : BOOLEAN, flushing : BOOLEAN, at : Nat]
           r == [activity[t] EXCEPT !.gen = activity[t].gen + 1, !.dirty = TRUE]
<1>1. activity \in [Tabs -> A]
  BY DEF TypeOK
<1>2. activity[t].gen \in Nat
  BY TabTypes
<1>3. r \in A /\ r.gen = activity[t].gen + 1 /\ r.dirty = TRUE
  <2>a. PICK a \in A : a = activity[t]
    BY <1>1
  <2>n. PICK n \in Nat : n = a.gen + 1
    BY <1>2, <2>a
  <2>b. PICK b \in BOOLEAN : b = TRUE
    OBVIOUS
  <2>1. a = activity[t] /\ n = a.gen + 1 /\ b = TRUE
    BY <2>a, <2>n, <2>b
  <2>2. r = [a EXCEPT !.gen = n, !.dirty = b]
    BY <2>1, Zenon
  <2>3. /\ [a EXCEPT !.gen = n, !.dirty = b] \in A
        /\ [a EXCEPT !.gen = n, !.dirty = b].gen = n
        /\ [a EXCEPT !.gen = n, !.dirty = b].dirty = b
    BY ActivityIsRecord
  <2> HIDE DEF r
  <2> QED
    BY <2>1, <2>2, <2>3
<1>4. Mark(activity, t) = [activity EXCEPT ![t] = r]
  BY <1>1 DEF Mark
<1> QED
  BY <1>1, <1>3, <1>4

\* A use that is marked in the tracker is recorded, or owed.
LEMMA MarkedUse ==
    ASSUME TypeOK, UseIsRecorded, NEW t \in Tabs,
           activity' = Mark(activity, t), Use(t), UNCHANGED <<envVars, sockets, runVars>>,
           revision' \in Nat, revision <= revision',
           tab' \in [Tabs -> [desired : {"active", "stopped", "absent"}, last : Nat]],
           \A u \in Tabs \ {t} : tab'[u] = tab[u],
           bridged' \subseteq Tabs, attaching' \subseteq Tabs, runtime' \subseteq Tabs
    PROVE  GoodStep
<1>1. touched' = touched \cup {t} /\ used' = [used EXCEPT ![t] = now]
  BY DEF Use, Touch
<1>2. TypeOK'
  BY <1>1, MarkMoves DEF TypeOK, envVars, runVars
<1>3. ASSUME NEW u \in Tabs PROVE Grows(u)
  <2>1. activity'[t].gen = activity[t].gen + 1 /\ (u # t => activity'[u] = activity[u])
    BY MarkMoves
  <2>2. sockets'[u] = sockets[u]
    OBVIOUS
  <2> QED
    BY <2>1, <2>2, <1>1, TabTypes DEF Grows
<1>4. ASSUME NEW u \in Tabs
      PROVE  /\ used'[u] <= now'
             /\ tab'[u].desired # "absent" /\ ~activity'[u].dirty =>
                  used'[u] <= IF activity'[u].flushing THEN activity'[u].at ELSE tab'[u].last
  <2>1. CASE u = t
    <3>1. used'[u] = now /\ now' = now
      BY <1>1, <2>1 DEF TypeOK, envVars
    <3>2. activity'[u].dirty
      BY <2>1, MarkMoves
    <3> QED
      BY <3>1, <3>2, TabTypes
  <2>2. CASE u # t
    <3>1. used'[u] = used[u] /\ now' = now
      BY <1>1, <2>2 DEF TypeOK, envVars
    <3>2. activity'[u] = activity[u]
      BY <2>2, MarkMoves
    <3>3. tab'[u] = tab[u]
      BY <2>2
    <3> QED
      BY <3>1, <3>2, <3>3 DEF UseIsRecorded
  <2> QED
    BY <2>1, <2>2
<1>5. UseIsRecorded'
  BY <1>4 DEF UseIsRecorded
<1> QED
  BY <1>2, <1>3, <1>5 DEF GoodStep

\* Steps that change only what exists, and use nothing.
LEMMA PlainStep ==
    ASSUME TypeOK, UseIsRecorded,
           UNCHANGED <<envVars, revision, tab, activity, sockets, touched, used, runVars>>,
           bridged' \subseteq Tabs, attaching' \subseteq Tabs, runtime' \subseteq Tabs
    PROVE  GoodStep
<1>1. TypeOK'
  BY DEF TypeOK, envVars, runVars
<1>2. ASSUME NEW u \in Tabs PROVE Grows(u)
  BY TabTypes DEF Grows
<1>3. UseIsRecorded'
  BY DEF UseIsRecorded, envVars
<1> QED
  BY <1>1, <1>2, <1>3 DEF GoodStep

\* connect attaches, a bridge ends, a shell exits.
LEMMA AttachMoves ==
    ASSUME TypeOK, UseIsRecorded, NEW t \in Tabs,
           AttachBegins(t) \/ AttachEnds(t) \/ BridgeEnds(t) \/ ShellExits(t)
    PROVE  GoodStep
<1>1. CASE AttachBegins(t)
  <2>1. /\ UNCHANGED <<envVars, revision, tab, activity, sockets, touched, used, runVars>>
        /\ bridged' \subseteq Tabs /\ attaching' \subseteq Tabs /\ runtime' \subseteq Tabs
    BY <1>1 DEF AttachBegins, TypeOK
  <2> QED
    BY <2>1, PlainStep
<1>2. CASE AttachEnds(t)
  <2>1. CASE activity' = Mark(activity, t) /\ Use(t) /\ bridged' = bridged \cup {t}
    <3>1. /\ UNCHANGED <<envVars, sockets, runVars>> /\ revision' = revision /\ tab' = tab
          /\ bridged' \subseteq Tabs /\ attaching' \subseteq Tabs /\ runtime' \subseteq Tabs
      BY <1>2, <2>1 DEF AttachEnds, TypeOK
    <3>2. /\ revision' \in Nat /\ revision <= revision'
          /\ tab' \in [Tabs -> [desired : {"active", "stopped", "absent"}, last : Nat]]
          /\ \A u \in Tabs \ {t} : tab'[u] = tab[u]
      BY <3>1 DEF TypeOK
    <3> QED
      BY <2>1, <3>1, <3>2, MarkedUse
  <2>2. CASE UNCHANGED <<bridged, activity, touched, used>>
    <3>1. /\ UNCHANGED <<envVars, revision, tab, activity, sockets, touched, used, runVars>>
          /\ bridged' \subseteq Tabs /\ attaching' \subseteq Tabs /\ runtime' \subseteq Tabs
      BY <1>2, <2>2 DEF AttachEnds, TypeOK
    <3> QED
      BY <3>1, PlainStep
  <2> QED
    BY <1>2, <2>1, <2>2 DEF AttachEnds
<1>3. CASE BridgeEnds(t) \/ ShellExits(t)
  <2>1. /\ UNCHANGED <<envVars, revision, tab, activity, sockets, touched, used, runVars>>
        /\ bridged' \subseteq Tabs /\ attaching' \subseteq Tabs /\ runtime' \subseteq Tabs
    BY <1>3 DEF BridgeEnds, ShellExits, TypeOK
  <2> QED
    BY <2>1, PlainStep
<1> QED
  BY <1>1, <1>2, <1>3


\* The terminal is used.
LEMMA ActivityMoves ==
    ASSUME TypeOK, UseIsRecorded, NEW t \in Tabs, TerminalActivity(t)
    PROVE  GoodStep
<1>1. /\ activity' = Mark(activity, t) /\ Use(t) /\ UNCHANGED <<envVars, sockets, runVars>>
      /\ revision' = revision /\ tab' = tab
      /\ bridged' \subseteq Tabs /\ attaching' \subseteq Tabs /\ runtime' \subseteq Tabs
  BY DEF TerminalActivity, TypeOK
<1>2. /\ revision' \in Nat /\ revision <= revision'
      /\ tab' \in [Tabs -> [desired : {"active", "stopped", "absent"}, last : Nat]]
      /\ \A u \in Tabs \ {t} : tab'[u] = tab[u]
  BY <1>1 DEF TypeOK
<1> QED
  BY <1>1, <1>2, MarkedUse

\* The desired state of one tab changes.
LEMMA DesiredMoves ==
    ASSUME TypeOK, NEW t \in Tabs, NEW d \in {"active", "stopped", "absent"},
           tab' = [tab EXCEPT ![t].desired = d]
    PROVE  /\ tab' \in [Tabs -> [desired : {"active", "stopped", "absent"}, last : Nat]]
           /\ tab'[t].desired = d /\ tab'[t].last = tab[t].last
           /\ \A u \in Tabs \ {t} : tab'[u] = tab[u]
<1>1. tab \in [Tabs -> [desired : {"active", "stopped", "absent"}, last : Nat]]
  BY DEF TypeOK
<1> QED
  BY <1>1

\* A lifecycle operation moves the structure revision; only a tab that is closed
\* keeps its activity as it is, and a closed tab has nothing to record.
LEMMA LifecycleMoves ==
    ASSUME TypeOK, UseIsRecorded, NEW t \in Tabs, NEW d \in {"active", "stopped", "absent"},
           Lifecycle(t, d)
    PROVE  GoodStep
<1>1. /\ UNCHANGED <<envVars, sockets, attaching, runVars>> /\ revision' = revision + 1 /\ Use(t)
      /\ tab' = [tab EXCEPT ![t].desired = d]
      /\ bridged' \subseteq Tabs /\ attaching' \subseteq Tabs /\ runtime' \subseteq Tabs
  BY DEF Lifecycle, TypeOK
<1>2. /\ tab' \in [Tabs -> [desired : {"active", "stopped", "absent"}, last : Nat]]
      /\ tab'[t].desired = d /\ \A u \in Tabs \ {t} : tab'[u] = tab[u]
  BY <1>1, DesiredMoves
<1>3. revision' \in Nat /\ revision < revision' /\ revision <= revision'
  BY <1>1 DEF TypeOK
<1>4. CASE d # "absent"
  <2>1. activity' = Mark(activity, t)
    BY <1>4 DEF Lifecycle
  <2> QED
    BY <1>1, <1>2, <1>3, <2>1, MarkedUse
<1>5. CASE d = "absent"
  <2>1. activity' = activity
    BY <1>5 DEF Lifecycle
  <2>2. touched' = touched \cup {t} /\ used' = [used EXCEPT ![t] = now] /\ now' = now
    BY <1>1 DEF Use, Touch, envVars
  <2>3. TypeOK'
    BY <1>1, <1>2, <1>3, <2>1, <2>2 DEF TypeOK, envVars, runVars
  <2>4. ASSUME NEW u \in Tabs PROVE Grows(u)
    BY <1>1, <1>3, <2>1, TabTypes DEF Grows
  <2>5. ASSUME NEW u \in Tabs
        PROVE  /\ used'[u] <= now'
               /\ tab'[u].desired # "absent" /\ ~activity'[u].dirty =>
                    used'[u] <= IF activity'[u].flushing THEN activity'[u].at ELSE tab'[u].last
    <3>1. CASE u = t
      <4>1. used'[u] = now /\ tab'[u].desired = "absent"
        BY <1>2, <1>5, <2>2, <3>1 DEF TypeOK
      <4> QED
        BY <4>1, <2>2, TabTypes
    <3>2. CASE u # t
      <4>1. used'[u] = used[u] /\ activity'[u] = activity[u]
        BY <2>1, <2>2, <3>2 DEF TypeOK
      <4>2. tab'[u] = tab[u]
        BY <1>2, <3>2
      <4> QED
        BY <4>1, <4>2, <2>2 DEF UseIsRecorded
    <3> QED
      BY <3>1, <3>2
  <2>6. UseIsRecorded'
    BY <2>5 DEF UseIsRecorded
  <2> QED
    BY <2>3, <2>4, <2>6 DEF GoodStep
<1> QED
  BY <1>4, <1>5


\* The tracker moves the activity of one tab on, with the tab or without.
LEMMA TrackerMoves ==
    ASSUME TypeOK, UseIsRecorded, NEW t \in Tabs,
           NEW r \in [gen : Nat, dirty : BOOLEAN, flushing : BOOLEAN, at : Nat],
           activity' = [activity EXCEPT ![t] = r], r.gen = activity[t].gen + 1,
           tab' \in [Tabs -> [desired : {"active", "stopped", "absent"}, last : Nat]],
           \A u \in Tabs \ {t} : tab'[u] = tab[u],
           UNCHANGED <<envVars, revision, sockets, bridged, attaching, runtime, touched, used, runVars>>,
           tab'[t].desired # "absent" /\ ~r.dirty =>
              used[t] <= IF r.flushing THEN r.at ELSE tab'[t].last
    PROVE  GoodStep
<1>1. /\ activity' \in [Tabs -> [gen : Nat, dirty : BOOLEAN, flushing : BOOLEAN, at : Nat]]
      /\ activity'[t] = r /\ \A u \in Tabs \ {t} : activity'[u] = activity[u]
  BY DEF TypeOK
<1>2. TypeOK'
  BY <1>1 DEF TypeOK, envVars, runVars
<1>3. ASSUME NEW u \in Tabs PROVE Grows(u)
  <2>1. activity[u].gen <= activity'[u].gen
    <3>1. CASE u = t
      BY <1>1, <3>1, TabTypes
    <3>2. CASE u # t
      BY <1>1, <3>2, TabTypes
    <3> QED
      BY <3>1, <3>2
  <2> QED
    BY <2>1, TabTypes DEF Grows
<1>4. ASSUME NEW u \in Tabs
      PROVE  /\ used'[u] <= now'
             /\ tab'[u].desired # "absent" /\ ~activity'[u].dirty =>
                  used'[u] <= IF activity'[u].flushing THEN activity'[u].at ELSE tab'[u].last
  <2>0. used' = used /\ now' = now
    BY DEF envVars
  <2>1. CASE u = t
    BY <1>1, <2>0, <2>1 DEF UseIsRecorded
  <2>2. CASE u # t
    <3>1. activity'[u] = activity[u] /\ tab'[u] = tab[u]
      BY <1>1, <2>2
    <3> QED
      BY <2>0, <3>1 DEF UseIsRecorded
  <2> QED
    BY <2>1, <2>2
<1>5. UseIsRecorded'
  BY <1>4 DEF UseIsRecorded
<1> QED
  BY <1>2, <1>3, <1>5 DEF GoodStep

\* The record of a tab whose write has ended.
LEMMA WriteEndsRecord ==
    ASSUME NEW a \in [gen : Nat, dirty : BOOLEAN, flushing : BOOLEAN, at : Nat],
           NEW n \in Nat, NEW no \in BOOLEAN, NEW yes \in BOOLEAN
    PROVE  /\ [a EXCEPT !.gen = n, !.flushing = no] =
                 [gen |-> n, dirty |-> a.dirty, flushing |-> no, at |-> a.at]
           /\ [a EXCEPT !.gen = n, !.flushing = no, !.dirty = yes] =
                 [gen |-> n, dirty |-> yes, flushing |-> no, at |-> a.at]
<1> DEFINE A == [gen : Nat, dirty : BOOLEAN, flushing : BOOLEAN, at : Nat]
           x == [a EXCEPT !.gen = n, !.flushing = no]
           z == [a EXCEPT !.gen = n, !.flushing = no, !.dirty = yes]
<1>1. x \in A /\ x.gen = n /\ x.flushing = no /\ x.dirty = a.dirty /\ x.at = a.at
  OBVIOUS
<1>2. z \in A /\ z.gen = n /\ z.flushing = no /\ z.dirty = yes /\ z.at = a.at
  OBVIOUS
<1>3. ASSUME NEW e \in A PROVE e = [gen |-> e.gen, dirty |-> e.dirty, flushing |-> e.flushing, at |-> e.at]
  OBVIOUS
<1> HIDE DEF x, z
<1>4. x = [gen |-> x.gen, dirty |-> x.dirty, flushing |-> x.flushing, at |-> x.at]
  BY <1>1, <1>3
<1>5. z = [gen |-> z.gen, dirty |-> z.dirty, flushing |-> z.flushing, at |-> z.at]
  BY <1>2, <1>3
<1>6. /\ x = [gen |-> n, dirty |-> a.dirty, flushing |-> no, at |-> a.at]
      /\ z = [gen |-> n, dirty |-> yes, flushing |-> no, at |-> a.at]
  BY <1>1, <1>2, <1>4, <1>5
<1> QED
  BY <1>6 DEF x, z

\* A write takes its time when it begins, which is not before the last use; when
\* it ends the document has that time, or the tab is dirty again.
LEMMA FlushMoves ==
    ASSUME TypeOK, UseIsRecorded, NEW t \in Tabs, FlushBegins(t) \/ FlushEnds(t)
    PROVE  GoodStep
<1> DEFINE A == [gen : Nat, dirty : BOOLEAN, flushing : BOOLEAN, at : Nat]
           T == [desired : {"active", "stopped", "absent"}, last : Nat]
<1>1. UNCHANGED <<envVars, revision, sockets, bridged, attaching, runtime, touched, used, runVars>>
  BY DEF FlushBegins, FlushEnds
<1>2. activity \in [Tabs -> A] /\ tab \in [Tabs -> T]
  BY DEF TypeOK
<1>3. /\ used[t] <= now
      /\ tab[t].desired # "absent" /\ ~activity[t].dirty =>
            used[t] <= IF activity[t].flushing THEN activity[t].at ELSE tab[t].last
  BY DEF UseIsRecorded
<1>g. PICK n \in Nat : n = activity[t].gen + 1
  BY TabTypes
<1>a. PICK a \in A : a = activity[t]
  BY <1>2
<1>n. PICK no \in BOOLEAN : no = FALSE
  OBVIOUS
<1>y. PICK yes \in BOOLEAN : yes = TRUE
  OBVIOUS
<1>r. /\ [a EXCEPT !.gen = n, !.flushing = no] =
             [gen |-> n, dirty |-> a.dirty, flushing |-> no, at |-> a.at]
      /\ [a EXCEPT !.gen = n, !.flushing = no, !.dirty = yes] =
             [gen |-> n, dirty |-> yes, flushing |-> no, at |-> a.at]
  BY <1>g, <1>a, <1>n, <1>y, WriteEndsRecord, Zenon
<1>4. CASE FlushBegins(t)
  <2>1. PICK r \in A : r = [gen |-> n, dirty |-> FALSE, flushing |-> TRUE, at |-> now]
    BY TabTypes
  <2>2. activity' = [activity EXCEPT ![t] = r] /\ tab' = tab
    BY <1>4, <1>g, <2>1 DEF FlushBegins
  <2>3. r.gen = n /\ ~r.dirty /\ r.flushing /\ r.at = now
    BY <2>1
  <2>4. /\ r.gen = activity[t].gen + 1 /\ tab' \in [Tabs -> T] /\ \A u \in Tabs \ {t} : tab'[u] = tab[u]
        /\ tab'[t].desired # "absent" /\ ~r.dirty =>
              used[t] <= IF r.flushing THEN r.at ELSE tab'[t].last
    BY <1>g, <1>2, <1>3, <2>2, <2>3
  <2> QED
    BY <1>1, <2>2, <2>4, TrackerMoves
<1>5. ASSUME FlushEnds(t), tab' = [tab EXCEPT ![t].last = activity[t].at],
             activity' = [activity EXCEPT ![t].gen = @ + 1, ![t].flushing = FALSE]
      PROVE  GoodStep
  <2>1. PICK r \in A : r = [gen |-> n, dirty |-> activity[t].dirty, flushing |-> FALSE,
                            at |-> activity[t].at]
    BY TabTypes
  <2>2. /\ r.gen = n /\ r.dirty = activity[t].dirty /\ ~r.flushing /\ activity[t].flushing
    BY <1>5, <2>1 DEF FlushEnds
  <2>3. activity' = [activity EXCEPT ![t] = r]
    <3>1. activity' = [activity EXCEPT ![t] =
              [activity[t] EXCEPT !.gen = n, !.flushing = FALSE]]
      BY <1>5, <1>g, <1>2
    <3>2. [activity[t] EXCEPT !.gen = n, !.flushing = FALSE] = r
      BY <1>a, <1>n, <1>r, <2>1, Zenon
    <3> QED
      BY <3>1, <3>2
  <2>4. /\ tab' \in [Tabs -> T] /\ tab'[t].desired = tab[t].desired /\ tab'[t].last = activity[t].at
        /\ \A u \in Tabs \ {t} : tab'[u] = tab[u]
    BY <1>2, <1>5, TabTypes
  <2>5. /\ r.gen = activity[t].gen + 1
        /\ tab'[t].desired # "absent" /\ ~r.dirty =>
              used[t] <= IF r.flushing THEN r.at ELSE tab'[t].last
    BY <1>g, <1>3, <2>2, <2>4
  <2> QED
    BY <1>1, <2>3, <2>4, <2>5, TrackerMoves
<1>6. ASSUME FlushEnds(t), tab' = tab,
             activity' = [activity EXCEPT ![t].gen = @ + 1, ![t].flushing = FALSE, ![t].dirty = TRUE]
      PROVE  GoodStep
  <2>1. PICK r \in A : r = [gen |-> n, dirty |-> TRUE, flushing |-> FALSE, at |-> activity[t].at]
    BY TabTypes
  <2>2. r.gen = n /\ r.dirty
    BY <2>1
  <2>3. activity' = [activity EXCEPT ![t] = r]
    <3>1. activity' = [activity EXCEPT ![t] =
              [activity[t] EXCEPT !.gen = n, !.flushing = FALSE, !.dirty = TRUE]]
      BY <1>6, <1>g, <1>2
    <3>2. [activity[t] EXCEPT !.gen = n, !.flushing = FALSE, !.dirty = TRUE] = r
      BY <1>a, <1>n, <1>y, <1>r, <2>1, Zenon
    <3> QED
      BY <3>1, <3>2
  <2>4. /\ tab' \in [Tabs -> T] /\ \A u \in Tabs \ {t} : tab'[u] = tab[u]
        /\ r.gen = activity[t].gen + 1
        /\ tab'[t].desired # "absent" /\ ~r.dirty =>
              used[t] <= IF r.flushing THEN r.at ELSE tab'[t].last
    BY <1>g, <1>2, <1>6, <2>2
  <2> QED
    BY <1>1, <2>3, <2>4, TrackerMoves
<1> QED
  BY <1>4, <1>5, <1>6 DEF FlushBegins, FlushEnds


\* What is done to the tabs leaves the run alone, and keeps what it knows.
LEMMA GoodStepIsSafe ==
    ASSUME IInv, GoodStep, UNCHANGED runVars
    PROVE  IInv'
<1>1. TypeOK' /\ UseIsRecorded' /\ \A t \in Tabs : Grows(t)
  BY DEF GoodStep
<1>2. UseIsNoticed'
  BY <1>1, UseStaysNoticed DEF IInv, runVars
<1>3. RunHasTab' /\ CountsAreKept' /\ ShutdownIsFinal' /\ NextRunIsScheduled'
  BY DEF IInv, RunHasTab, CountsAreKept, ShutdownIsFinal, NextRunIsScheduled, runVars
<1> QED
  BY <1>1, <1>2, <1>3 DEF IInv

\* Every step of a tab.
LEMMA TabStepIsSafe ==
    ASSUME IInv, NEW t \in Tabs, TabStep(t)
    PROVE  IInv'
<1>1. TypeOK /\ UseIsRecorded
  BY DEF IInv
<1>2. GoodStep
  <2>1. CASE SocketOpens(t) \/ SocketCloses(t)
    BY <1>1, <2>1, SocketsMove
  <2>2. CASE AttachBegins(t) \/ AttachEnds(t) \/ BridgeEnds(t) \/ ShellExits(t)
    BY <1>1, <2>2, AttachMoves
  <2>3. CASE TerminalActivity(t)
    BY <1>1, <2>3, ActivityMoves
  <2>4. CASE FlushBegins(t) \/ FlushEnds(t)
    BY <1>1, <2>4, FlushMoves
  <2>5. CASE \E d \in {"active", "stopped", "absent"} : Lifecycle(t, d)
    BY <1>1, <2>5, LifecycleMoves
  <2> QED
    BY <2>1, <2>2, <2>3, <2>4, <2>5 DEF TabStep
<1>3. UNCHANGED runVars
  BY DEF TabStep, SocketOpens, SocketCloses, AttachBegins, AttachEnds, BridgeEnds, ShellExits,
         TerminalActivity, FlushBegins, FlushEnds, Lifecycle
<1> QED
  BY <1>2, <1>3, GoodStepIsSafe

\* Time passes, and the setting changes.
LEMMA EnvironmentIsSafe ==
    ASSUME IInv, Tick \/ \E h \in Settings : ChangeSetting(h)
    PROVE  IInv'
<1>1. UNCHANGED <<tabVars, runVars>> /\ now' \in Nat /\ now <= now' /\ hours' \in Settings
  BY DEF IInv, TypeOK, Tick, ChangeSetting, envVars
<1>2. TypeOK'
  BY <1>1 DEF IInv, TypeOK, tabVars, runVars
<1>3. ASSUME NEW u \in Tabs PROVE Grows(u)
  BY <1>1, TabTypes DEF IInv, Grows, tabVars
<1>4. UseIsRecorded'
  <2>1. ASSUME NEW u \in Tabs
        PROVE  /\ used'[u] <= now'
               /\ tab'[u].desired # "absent" /\ ~activity'[u].dirty =>
                    used'[u] <= IF activity'[u].flushing THEN activity'[u].at ELSE tab'[u].last
    <3>1. used[u] \in Nat /\ now \in Nat
      BY TabTypes DEF IInv
    <3> QED
      BY <1>1, <3>1 DEF IInv, UseIsRecorded, tabVars
  <2> QED
    BY <2>1 DEF UseIsRecorded
<1> QED
  BY <1>1, <1>2, <1>3, <1>4, GoodStepIsSafe DEF GoodStep

-----------------------------------------------------------------------------
(***************************************************************************)
(* The cleaner.                                                            *)
(***************************************************************************)
\* One tab is done: it is counted, and the run goes on with the others.
LEMMA CountMoves ==
    ASSUME ConstantsAreGood, TypeOK, CountsAreKept, run.todo # <<>>,
           NEW outcome \in {"terminated", "skipped", "failed"}, Count(outcome)
    PROVE  /\ run' \in RunRecord /\ run'.at = "loop" /\ result' \in ResultRecord /\ CountsAreKept'
<1>1. /\ Tail(run.todo) \in Seq(Tabs) /\ Len(Tail(run.todo)) = Len(run.todo) - 1
      /\ Len(run.todo) \in Nat \ {0}
  BY CurrentIsTab
<1>2. run \in RunRecord /\ result \in ResultRecord
  BY DEF TypeOK
<1>3. run' = [run EXCEPT !.at = "loop", !.todo = Tail(run.todo), !.before = NoState,
                         !.captured = NoState]
  BY DEF Count
<1>4. run' \in RunRecord /\ run'.at = "loop" /\ run'.todo = Tail(run.todo)
  BY <1>1, <1>2, <1>3 DEF RunRecord
<1>5. /\ result.examined \in Nat /\ result.terminated \in Nat /\ result.skipped \in Nat
      /\ result.failed \in Nat /\ MaxSessions \in Nat
  BY <1>2 DEF ResultRecord, ConstantsAreGood, MaxSessionsAssumption
<1>6. /\ result' \in ResultRecord /\ result'.examined = result.examined + 1
      /\ result'.terminated + result'.skipped + result'.failed
           = result.terminated + result.skipped + result.failed + 1
  <2>1. CASE outcome = "terminated"
    <3>1. result' = [result EXCEPT !.terminated = result.terminated + 1,
                                   !.examined = result.examined + 1]
      BY <2>1, <1>2 DEF Count, ResultRecord
    <3>2. PICK n \in Nat, m \in Nat : n = result.terminated + 1 /\ m = result.examined + 1
      <4>1. result.terminated + 1 \in Nat /\ result.examined + 1 \in Nat
        BY <1>5
      <4> QED
        BY <4>1, Zenon
    <3>3. result' = [result EXCEPT !.terminated = n, !.examined = m]
      BY <3>1, <3>2
    <3>4. /\ result' \in ResultRecord /\ result'.examined = m /\ result'.terminated = n
          /\ result'.skipped = result.skipped /\ result'.failed = result.failed
      BY <3>3, <1>2 DEF ResultRecord
    <3> QED
      BY <3>2, <3>4, <1>5
  <2>2. CASE outcome = "skipped"
    <3>1. result' = [result EXCEPT !.skipped = result.skipped + 1,
                                   !.examined = result.examined + 1]
      BY <2>2, <1>2 DEF Count, ResultRecord
    <3>2. PICK n \in Nat, m \in Nat : n = result.skipped + 1 /\ m = result.examined + 1
      <4>1. result.skipped + 1 \in Nat /\ result.examined + 1 \in Nat
        BY <1>5
      <4> QED
        BY <4>1, Zenon
    <3>3. result' = [result EXCEPT !.skipped = n, !.examined = m]
      BY <3>1, <3>2
    <3>4. /\ result' \in ResultRecord /\ result'.examined = m /\ result'.skipped = n
          /\ result'.terminated = result.terminated /\ result'.failed = result.failed
      BY <3>3, <1>2 DEF ResultRecord
    <3> QED
      BY <3>2, <3>4, <1>5
  <2>3. CASE outcome = "failed"
    <3>1. result' = [result EXCEPT !.failed = result.failed + 1,
                                   !.examined = result.examined + 1]
      BY <2>3, <1>2 DEF Count, ResultRecord
    <3>2. PICK n \in Nat, m \in Nat : n = result.failed + 1 /\ m = result.examined + 1
      <4>1. result.failed + 1 \in Nat /\ result.examined + 1 \in Nat
        BY <1>5
      <4> QED
        BY <4>1, Zenon
    <3>3. result' = [result EXCEPT !.failed = n, !.examined = m]
      BY <3>1, <3>2
    <3>4. /\ result' \in ResultRecord /\ result'.examined = m /\ result'.failed = n
          /\ result'.terminated = result.terminated /\ result'.skipped = result.skipped
      BY <3>3, <1>2 DEF ResultRecord
    <3> QED
      BY <3>2, <3>4, <1>5
  <2> QED
    BY <2>1, <2>2, <2>3
<1>7. CountsAreKept'
  BY <1>1, <1>4, <1>5, <1>6 DEF CountsAreKept
<1> QED
  BY <1>4, <1>6, <1>7


\* Types of what does not belong to the cleaner.
TabTypeOK ==
    /\ now \in Nat /\ hours \in Settings /\ revision \in Nat
    /\ tab \in [Tabs -> [desired : {"active", "stopped", "absent"}, last : Nat]]
    /\ activity \in [Tabs -> [gen : Nat, dirty : BOOLEAN, flushing : BOOLEAN, at : Nat]]
    /\ sockets \in [Tabs -> [gen : Nat, count : Nat]]
    /\ bridged \subseteq Tabs /\ attaching \subseteq Tabs /\ runtime \subseteq Tabs
    /\ touched \subseteq Tabs /\ used \in [Tabs -> Nat]

\* The run has dealt with its tab.
LEMMA CountIsSafe ==
    ASSUME ConstantsAreGood, IInv, run.at # "idle", run.todo # <<>>,
           NEW outcome \in {"terminated", "skipped", "failed"}, Count(outcome),
           UNCHANGED <<timer, stopping, runs>>, TabTypeOK', UseIsRecorded'
    PROVE  IInv'
<1>1. /\ run' \in RunRecord /\ run'.at = "loop" /\ result' \in ResultRecord /\ CountsAreKept'
  BY CountMoves DEF IInv
<1>2. TypeOK'
  BY <1>1 DEF IInv, TypeOK, TabTypeOK
<1>3. RunHasTab' /\ UseIsNoticed' /\ ShutdownIsFinal' /\ NextRunIsScheduled'
  BY <1>1 DEF IInv, RunHasTab, UseIsNoticed, ShutdownIsFinal, NextRunIsScheduled
<1> QED
  BY <1>1, <1>2, <1>3 DEF IInv

\* The run goes on with its tab.
LEMMA OnwardIsSafe ==
    ASSUME IInv, run.at # "idle", run.todo # <<>>,
           run' \in RunRecord, run'.todo = run.todo, run'.at # "idle",
           UNCHANGED <<timer, stopping, runs, result>>, TabTypeOK', UseIsRecorded', UseIsNoticed'
    PROVE  IInv'
<1>1. TypeOK'
  BY DEF IInv, TypeOK, TabTypeOK
<1>2. CountsAreKept'
  BY DEF IInv, CountsAreKept
<1>3. RunHasTab' /\ ShutdownIsFinal' /\ NextRunIsScheduled'
  BY DEF IInv, RunHasTab, ShutdownIsFinal, NextRunIsScheduled
<1> QED
  BY <1>1, <1>2, <1>3 DEF IInv

\* What a capture shows of a tab that is there.
LEMMA CaptureMoves ==
    ASSUME TypeOK, NEW t \in Tabs, Capture(t) # NoState
    PROVE  /\ Capture(t) \in State /\ tab[t].desired # "absent"
           /\ Capture(t).structure = revision /\ Capture(t).activity = activity[t].gen
           /\ Capture(t).sockets = sockets[t].gen /\ Capture(t).last = tab[t].last
           /\ Capture(t).desired = tab[t].desired /\ Capture(t).count = sockets[t].count
           /\ Capture(t).bridged = (t \in bridged)
           /\ Capture(t).pending = (activity[t].dirty \/ activity[t].flushing)
<1>1. tab[t].desired # "absent"
  BY DEF Capture
<1>2. tab[t].desired \in {"active", "stopped"}
  BY <1>1, TabTypes
<1>3. PICK p \in BOOLEAN : p = (activity[t].dirty \/ activity[t].flushing)
  OBVIOUS
<1>4. PICK b \in BOOLEAN : b = (t \in bridged)
  <2>1. (t \in bridged) \in BOOLEAN
    OBVIOUS
  <2> QED
    BY <2>1, Zenon
<1>5. Capture(t) = [structure |-> revision, desired |-> tab[t].desired, last |-> tab[t].last,
                    activity |-> activity[t].gen, pending |-> p,
                    sockets  |-> sockets[t].gen, count |-> sockets[t].count, bridged |-> b]
  BY <1>1, <1>3, <1>4, Zenon DEF Capture
<1>6. /\ Capture(t) \in State
      /\ Capture(t).structure = revision /\ Capture(t).activity = activity[t].gen
      /\ Capture(t).sockets = sockets[t].gen /\ Capture(t).last = tab[t].last
      /\ Capture(t).desired = tab[t].desired /\ Capture(t).count = sockets[t].count
      /\ Capture(t).bridged = b /\ Capture(t).pending = p
  BY <1>2, <1>5, TabTypes DEF State
<1> QED
  BY <1>1, <1>3, <1>4, <1>6

\* The types that TypeOK gives of the tabs, for steps that leave the tabs alone.
LEMMA TabTypesStay ==
    ASSUME IInv, UNCHANGED <<envVars, revision, tab, activity, sockets, bridged, attaching,
                             runtime, used>>, touched' \subseteq touched
    PROVE  TabTypeOK' /\ UseIsRecorded'
<1>1. TabTypeOK'
  BY DEF IInv, TypeOK, TabTypeOK, envVars
<1>2. UseIsRecorded'
  BY DEF IInv, UseIsRecorded, envVars
<1> QED
  BY <1>1, <1>2

\* The first capture of a tab forgets its earlier uses.
LEMMA ReadIsSafe ==
    ASSUME ConstantsAreGood, IInv, Read
    PROVE  IInv'
<1>1. TabTypeOK' /\ UseIsRecorded'
  BY TabTypesStay DEF Read
<1>2. run.at = "loop" /\ run.todo # <<>> /\ UNCHANGED <<timer, stopping, runs>>
  BY DEF Read
<1>3. CASE Count("skipped")
  BY <1>1, <1>2, <1>3, CountIsSafe
<1>4. ASSUME Capture(Current) # NoState, UNCHANGED result,
             run' = [run EXCEPT !.at = "probe", !.before = Capture(Current)]
      PROVE  IInv'
  <2>1. Current \in Tabs /\ TypeOK
    BY <1>2, CurrentIsTab DEF IInv
  <2>2. PICK t \in Tabs : t = Current
    BY <2>1
  <2>3. PICK s : s = Capture(Current)
    OBVIOUS
  <2>4. /\ s \in State /\ s.structure = revision /\ s.activity = activity[t].gen
        /\ s.sockets = sockets[t].gen
    BY <1>4, <2>1, <2>2, <2>3, CaptureMoves
  <2>5. run' = [run EXCEPT !.at = "probe", !.before = s]
    BY <1>4, <2>3
  <2>6. /\ run' \in RunRecord /\ run'.at = "probe" /\ run'.before = s /\ run'.todo = run.todo
    BY <2>1, <2>4, <2>5 DEF TypeOK, RunRecord
  <2>7. Current' = t
    BY <2>2, <2>6 DEF Current
  <2>8. t \notin touched' /\ UNCHANGED <<revision, activity, sockets>>
    BY <2>2 DEF Read
  <2>9. Noticed(s, t)'
    BY <2>1, <2>4, <2>8, TabTypes DEF Noticed
  <2>10. UseIsNoticed'
    BY <2>4, <2>6, <2>7, <2>9 DEF UseIsNoticed, Noticed
  <2> QED
    BY <1>1, <1>2, <1>4, <2>6, <2>10, OnwardIsSafe
<1> QED
  BY <1>3, <1>4 DEF Read


\* runtime.exists has answered: the capture goes with the run to the lock.
LEMMA ProbedIsSafe ==
    ASSUME ConstantsAreGood, IInv, Probed
    PROVE  IInv'
<1>1. TabTypeOK' /\ UseIsRecorded'
  BY TabTypesStay DEF Probed, tabVars
<1>2. run.at = "probe" /\ run.todo # <<>> /\ UNCHANGED <<timer, stopping, runs, tabVars>>
  BY DEF Probed, IInv, RunHasTab
<1>3. CASE Count("skipped")
  BY <1>1, <1>2, <1>3, CountIsSafe
<1>4. ASSUME UNCHANGED result,
             run' = [run EXCEPT !.at = "lock", !.captured = run.before, !.before = NoState]
      PROVE  IInv'
  <2>1. Current \in Tabs /\ TypeOK
    BY <1>2, CurrentIsTab DEF IInv
  <2>2. PICK t \in Tabs : t = Current
    BY <2>1
  <2>3. PICK s \in State : s = run.before
    BY <1>2 DEF IInv, UseIsNoticed
  <2>4. Noticed(s, t)
    BY <1>2, <2>2, <2>3 DEF IInv, UseIsNoticed
  <2>5. run' = [run EXCEPT !.at = "lock", !.captured = s, !.before = NoState]
    BY <1>4, <2>3
  <2>6. /\ run' \in RunRecord /\ run'.at = "lock" /\ run'.captured = s /\ run'.todo = run.todo
    BY <2>1, <2>5 DEF TypeOK, RunRecord
  <2>7. Current' = t
    BY <2>2, <2>6 DEF Current
  <2>8. Noticed(s, t)'
    BY <1>2, <2>4 DEF Noticed, tabVars
  <2>9. UseIsNoticed'
    BY <2>6, <2>7, <2>8 DEF UseIsNoticed, Noticed
  <2> QED
    BY <1>1, <1>2, <1>4, <2>6, <2>9, OnwardIsSafe
<1> QED
  BY <1>3, <1>4 DEF Probed

\* The lock is there and the second capture is made: the first one is kept.
LEMMA RecheckIsSafe ==
    ASSUME ConstantsAreGood, IInv, Recheck
    PROVE  IInv'
<1>1. TabTypeOK' /\ UseIsRecorded'
  BY TabTypesStay DEF Recheck, tabVars
<1>2. run.at = "lock" /\ run.todo # <<>> /\ UNCHANGED <<timer, stopping, runs, tabVars>>
  BY DEF Recheck, IInv, RunHasTab
<1>3. CASE Count("skipped")
  BY <1>1, <1>2, <1>3, CountIsSafe
<1>4. ASSUME Capture(Current) # NoState, UNCHANGED result,
             run' = [run EXCEPT !.at = "recheck", !.before = Capture(Current)]
      PROVE  IInv'
  <2>1. Current \in Tabs /\ TypeOK
    BY <1>2, CurrentIsTab DEF IInv
  <2>2. PICK t \in Tabs : t = Current
    BY <2>1
  <2>3. PICK s \in State : s = run.captured
    BY <1>2 DEF IInv, UseIsNoticed
  <2>4. Noticed(s, t)
    BY <1>2, <2>2, <2>3 DEF IInv, UseIsNoticed
  <2>c. PICK c \in State : c = Capture(Current)
    BY <1>4, <2>1, CaptureMoves
  <2>5. run' = [run EXCEPT !.at = "recheck", !.before = c]
    BY <1>4, <2>c
  <2>6. /\ run' \in RunRecord /\ run'.at = "recheck" /\ run'.captured = s /\ run'.todo = run.todo
    BY <2>1, <2>3, <2>5 DEF TypeOK, RunRecord
  <2>7. Current' = t
    BY <2>2, <2>6 DEF Current
  <2>8. Noticed(s, t)'
    BY <1>2, <2>4 DEF Noticed, tabVars
  <2>9. UseIsNoticed'
    BY <2>6, <2>7, <2>8 DEF UseIsNoticed, Noticed
  <2> QED
    BY <1>1, <1>2, <1>4, <2>6, <2>9, OnwardIsSafe
<1> QED
  BY <1>3, <1>4 DEF Recheck

\* The decision to stop the session
LEMMA RecheckedIsSafe ==
    ASSUME ConstantsAreGood, IInv, Rechecked
    PROVE  IInv'
<1>1. TabTypeOK' /\ UseIsRecorded'
  BY TabTypesStay DEF Rechecked, tabVars
<1>2. run.at = "recheck" /\ run.todo # <<>> /\ UNCHANGED <<timer, stopping, runs>>
  BY DEF Rechecked, IInv, RunHasTab
<1>3. CASE Count("skipped")
  BY <1>1, <1>2, <1>3, CountIsSafe
<1>4. ASSUME UNCHANGED result, Goto("persist") PROVE IInv'
  <2>1. /\ run' \in RunRecord /\ run'.at = "persist" /\ run'.todo = run.todo
    BY <1>4 DEF Goto, IInv, TypeOK, RunRecord
  <2>2. UseIsNoticed'
    BY <2>1 DEF UseIsNoticed
  <2> QED
    BY <1>1, <1>2, <1>4, <2>1, <2>2, OnwardIsSafe
<1> QED
  BY <1>3, <1>4 DEF Rechecked

\* The session is marked as stopped in the document, or that fails.
LEMMA PersistStopIsSafe ==
    ASSUME ConstantsAreGood, IInv, PersistStop
    PROVE  IInv'
<1>1. run.at = "persist" /\ run.todo # <<>> /\ UNCHANGED <<timer, stopping, runs>>
  BY DEF PersistStop, IInv, RunHasTab
<1>2. CASE Count("failed") /\ UNCHANGED <<tab, revision, activity>>
  <2>1. TabTypeOK' /\ UseIsRecorded'
    BY <1>2, TabTypesStay DEF PersistStop
  <2> QED
    BY <1>1, <1>2, <2>1, CountIsSafe
<1>3. ASSUME tab' = [tab EXCEPT ![Current].desired = "stopped"], revision' = revision + 1,
             activity' = Mark(activity, Current), Goto("kill"), UNCHANGED result
      PROVE  IInv'
  <2>1. Current \in Tabs /\ TypeOK /\ UseIsRecorded
    BY <1>1, CurrentIsTab DEF IInv
  <2>2. PICK t \in Tabs : t = Current
    BY <2>1
  <2>3. tab' = [tab EXCEPT ![t].desired = "stopped"] /\ activity' = Mark(activity, t)
    BY <1>3, <2>2
  <2>4. /\ tab' \in [Tabs -> [desired : {"active", "stopped", "absent"}, last : Nat]]
        /\ \A u \in Tabs \ {t} : tab'[u] = tab[u]
    BY <2>1, <2>3, DesiredMoves
  <2>5. /\ UNCHANGED <<now, hours, sockets, bridged, attaching, runtime, touched, used>>
    BY DEF PersistStop, envVars
  <2>a. activity' \in [Tabs -> [gen : Nat, dirty : BOOLEAN, flushing : BOOLEAN, at : Nat]]
    BY <2>1, <2>3, MarkMoves
  <2>6. TabTypeOK'
    BY <1>3, <2>1, <2>4, <2>5, <2>a DEF TypeOK, TabTypeOK
  <2>7. UseIsRecorded'
    <3>1. ASSUME NEW u \in Tabs
          PROVE  /\ used'[u] <= now'
                 /\ tab'[u].desired # "absent" /\ ~activity'[u].dirty =>
                      used'[u] <= IF activity'[u].flushing THEN activity'[u].at ELSE tab'[u].last
      <4>1. CASE u = t
        <5>1. activity'[u].dirty
          BY <2>1, <2>3, <4>1, MarkMoves
        <5> QED
          BY <2>1, <2>5, <5>1 DEF UseIsRecorded
      <4>2. CASE u # t
        <5>1. activity'[u] = activity[u] /\ tab'[u] = tab[u]
          BY <2>1, <2>3, <2>4, <4>2, MarkMoves
        <5> QED
          BY <2>1, <2>5, <5>1 DEF UseIsRecorded
      <4> QED
        BY <4>1, <4>2
    <3> QED
      BY <3>1 DEF UseIsRecorded
  <2>8. /\ run' \in RunRecord /\ run'.at = "kill" /\ run'.todo = run.todo
    BY <1>3 DEF Goto, IInv, TypeOK, RunRecord
  <2>9. UseIsNoticed'
    BY <2>8 DEF UseIsNoticed
  <2> QED
    BY <1>1, <1>3, <2>6, <2>7, <2>8, <2>9, OnwardIsSafe
<1> QED
  BY <1>2, <1>3 DEF PersistStop

\* tmux has ended the session, or not.
LEMMA KillRuntimeIsSafe ==
    ASSUME ConstantsAreGood, IInv, KillRuntime
    PROVE  IInv'
<1>1. run.at = "kill" /\ run.todo # <<>> /\ UNCHANGED <<timer, stopping, runs>>
  BY DEF KillRuntime, IInv, RunHasTab
<1>2. TabTypeOK'
  BY DEF KillRuntime, IInv, TypeOK, TabTypeOK, envVars
<1>3. UseIsRecorded'
  BY DEF KillRuntime, IInv, UseIsRecorded, envVars
<1>4. PICK outcome \in {"terminated", "skipped", "failed"} : Count(outcome)
  BY DEF KillRuntime
<1> QED
  BY <1>1, <1>2, <1>3, <1>4, CountIsSafe


\* A slice of the document is a sequence of tabs, no longer than a run may examine.
LEMMA SliceIsBounded ==
    ASSUME ConstantsAreGood, NEW slice \in Examined
    PROVE  slice \in Seq(Tabs) /\ Len(slice) \in Nat /\ Len(slice) <= MaxSessions
<1>p. PICK p \in UNION {[1..n -> Present] : n \in 0..MaxSessions} :
          slice = [k \in DOMAIN p |-> TabOrder[p[k]]]
  BY DEF Examined
<1>1. PICK n \in 0..MaxSessions : p \in [1..n -> Present]
  BY <1>p
<1>2. n \in Nat /\ n <= MaxSessions
  BY <1>1 DEF ConstantsAreGood, MaxSessionsAssumption
<1>3. ASSUME NEW k \in 1..n PROVE TabOrder[p[k]] \in Tabs
  <2>1. p[k] \in DOMAIN TabOrder
    BY <1>1 DEF Present
  <2> QED
    BY <2>1 DEF Tabs
<1>4. slice = [k \in 1..n |-> TabOrder[p[k]]]
  BY <1>p, <1>1
<1>5. slice \in [1..n -> Tabs]
  BY <1>3, <1>4
<1>6. slice \in Seq(Tabs) /\ Len(slice) = n
  BY <1>2, <1>5
<1> QED
  BY <1>2, <1>6

\* A run begins with empty counters and a slice of the document, or with nothing
\* to do.
LEMMA StartRunMoves ==
    ASSUME ConstantsAreGood, IInv, StartRun
    PROVE  /\ run' \in RunRecord /\ run'.at = "loop" /\ result' \in ResultRecord
           /\ CountsAreKept' /\ runs' \in Nat /\ touched' = {}
<1>1. runs' \in Nat /\ touched' = {} /\ MaxSessions \in Nat
  <2>1. runs' = runs + 1 /\ touched' = {}
    BY DEF StartRun
  <2>2. runs \in Nat
    BY DEF IInv, TypeOK
  <2> QED
    BY <2>1, <2>2 DEF ConstantsAreGood, MaxSessionsAssumption
<1>2. ASSUME hours \in Nat \ {0}, result' = NoResult, NEW slice \in Examined,
             run' = [NoRun EXCEPT !.at = "loop", !.todo = slice,
                                  !.cutoff = IF hours <= now THEN now - hours ELSE 0]
      PROVE  /\ run' \in RunRecord /\ run'.at = "loop" /\ result' \in ResultRecord
             /\ CountsAreKept'
  <2>1. slice \in Seq(Tabs) /\ Len(slice) \in Nat /\ Len(slice) <= MaxSessions
    BY SliceIsBounded
  <2>2. PICK c \in Nat : c = IF hours <= now THEN now - hours ELSE 0
    BY <1>2 DEF IInv, TypeOK
  <2>3. run' = [at |-> "loop", todo |-> slice, cutoff |-> c, before |-> NoState, captured |-> NoState]
    BY <1>2, <2>2 DEF NoRun
  <2>4. run' \in RunRecord /\ run'.at = "loop" /\ run'.todo = slice
    BY <2>1, <2>3 DEF RunRecord
  <2>5. /\ result' \in ResultRecord /\ result'.examined = 0 /\ result'.terminated = 0
        /\ result'.skipped = 0 /\ result'.failed = 0
    BY <1>2 DEF NoResult, ResultRecord
  <2>6. CountsAreKept'
    BY <1>1, <2>1, <2>4, <2>5 DEF CountsAreKept
  <2> QED
    BY <2>4, <2>5, <2>6
<1>3. ASSUME run' = [NoRun EXCEPT !.at = "loop"],
             result' = NoResult \/ result' = [NoResult EXCEPT !.failed = 1]
      PROVE  /\ run' \in RunRecord /\ run'.at = "loop" /\ result' \in ResultRecord
             /\ CountsAreKept'
  <2>1. run' = [at |-> "loop", todo |-> <<>>, cutoff |-> 0, before |-> NoState, captured |-> NoState]
    BY <1>3 DEF NoRun
  <2>2. <<>> \in Seq(Tabs) /\ Len(<<>>) = 0
    OBVIOUS
  <2>3. run' \in RunRecord /\ run'.at = "loop" /\ run'.todo = <<>>
    BY <2>1, <2>2 DEF RunRecord
  <2>4. result' \in ResultRecord /\ result'.examined = 0
    BY <1>3 DEF NoResult, ResultRecord
  <2>5. CountsAreKept'
    BY <1>1, <2>2, <2>3, <2>4 DEF CountsAreKept
  <2> QED
    BY <2>3, <2>4, <2>5
<1> QED
  BY <1>1, <1>2, <1>3 DEF StartRun

\* A run is started by an administrator, or the timer fires.
LEMMA StartIsSafe ==
    ASSUME ConstantsAreGood, IInv, RunNow \/ FireTimer
    PROVE  IInv'
<1>1. timer' \in {"none", "armed"} /\ stopping' = stopping
      /\ UNCHANGED <<envVars, revision, tab, activity, sockets, bridged, attaching, runtime, used>>
  BY DEF RunNow, FireTimer, CancelTimer, IInv, TypeOK
<1>2. CASE StartRun /\ stopping = "no"
  <2>1. /\ run' \in RunRecord /\ run'.at = "loop" /\ result' \in ResultRecord
        /\ CountsAreKept' /\ runs' \in Nat /\ touched' = {}
    BY <1>2, StartRunMoves
  <2>2. TabTypeOK' /\ UseIsRecorded'
    BY <1>1, <2>1, TabTypesStay
  <2>3. TypeOK'
    BY <1>1, <2>1, <2>2 DEF IInv, TypeOK, TabTypeOK
  <2>4. RunHasTab' /\ UseIsNoticed' /\ ShutdownIsFinal' /\ NextRunIsScheduled'
    BY <1>1, <1>2, <2>1 DEF RunHasTab, UseIsNoticed, ShutdownIsFinal, NextRunIsScheduled
  <2> QED
    BY <2>1, <2>2, <2>3, <2>4 DEF IInv
<1>3. CASE FireTimer /\ ~(MayFire /\ run.at = "idle")
  <2>1. UNCHANGED <<run, runs, result, touched>>
    BY <1>3 DEF FireTimer
  <2>2. TabTypeOK' /\ UseIsRecorded'
    BY <1>1, <2>1, TabTypesStay
  <2>3. TypeOK'
    BY <1>1, <2>1, <2>2 DEF IInv, TypeOK, TabTypeOK
  <2>4. UseIsNoticed'
    BY <1>1, <2>1 DEF IInv, UseIsNoticed, Noticed, Current
  <2>5. RunHasTab' /\ CountsAreKept' /\ ShutdownIsFinal' /\ NextRunIsScheduled'
    BY <1>1, <1>3, <2>1 DEF IInv, RunHasTab, CountsAreKept, ShutdownIsFinal, NextRunIsScheduled,
                            MayFire
  <2> QED
    BY <2>2, <2>3, <2>4, <2>5 DEF IInv
<1> QED
  BY <1>2, <1>3 DEF RunNow, FireTimer, MayFire

\* A run ends and the next one is scheduled, unless the cleaner is shut down.
LEMMA EndIsSafe ==
    ASSUME ConstantsAreGood, IInv, FinishRun \/ BeginShutdown \/ ShutdownDone
    PROVE  IInv'
<1>1. /\ UNCHANGED <<envVars, tabVars, runs, result>> /\ timer' \in {"none", "armed"}
      /\ stopping' \in {"no", "waiting", "done"}
  BY DEF FinishRun, BeginShutdown, ShutdownDone, CancelTimer, Armed, IInv, TypeOK
<1>2. TabTypeOK' /\ UseIsRecorded'
  BY <1>1, TabTypesStay DEF tabVars
<1>3. CASE FinishRun
  <2>1. run' = [at |-> "idle", todo |-> <<>>, cutoff |-> 0, before |-> NoState, captured |-> NoState]
    BY <1>3 DEF FinishRun, NoRun
  <2>2. <<>> \in Seq(Tabs) /\ Len(<<>>) = 0
    OBVIOUS
  <2>3. run' \in RunRecord /\ run'.at = "idle" /\ run'.todo = <<>>
    BY <2>1, <2>2 DEF RunRecord
  <2>4. TypeOK'
    BY <1>1, <1>2, <2>3 DEF IInv, TypeOK, TabTypeOK
  <2>5. CountsAreKept'
    BY <1>1, <1>3, <2>2, <2>3 DEF IInv, CountsAreKept, FinishRun
  <2>6. RunHasTab' /\ UseIsNoticed' /\ ShutdownIsFinal' /\ NextRunIsScheduled'
    BY <1>3, <2>3 DEF IInv, TypeOK, RunHasTab, UseIsNoticed, ShutdownIsFinal, NextRunIsScheduled,
                      FinishRun, Armed
  <2> QED
    BY <1>2, <2>4, <2>5, <2>6 DEF IInv
<1>4. CASE BeginShutdown \/ ShutdownDone
  <2>1. run' = run
    BY <1>4 DEF BeginShutdown, ShutdownDone
  <2>2. TypeOK'
    BY <1>1, <1>2, <2>1 DEF IInv, TypeOK, TabTypeOK
  <2>3. UseIsNoticed'
    BY <1>1, <2>1 DEF IInv, UseIsNoticed, Noticed, Current, tabVars
  <2>4. RunHasTab' /\ CountsAreKept' /\ ShutdownIsFinal' /\ NextRunIsScheduled'
    BY <1>1, <1>4, <2>1 DEF IInv, RunHasTab, CountsAreKept, ShutdownIsFinal, NextRunIsScheduled,
                            BeginShutdown, ShutdownDone
  <2> QED
    BY <1>2, <2>2, <2>3, <2>4 DEF IInv
<1> QED
  BY <1>3, <1>4


-----------------------------------------------------------------------------
(***************************************************************************)
(* The theorems.                                                           *)
(***************************************************************************)
\* A server starts with no use to record and an idle cleaner.
LEMMA InitIsSafe ==
    ASSUME ConstantsAreGood, Init
    PROVE  IInv
<1>1. <<>> \in Seq(Tabs) /\ Len(<<>>) = 0
  OBVIOUS
<1>2. run \in RunRecord /\ run.at = "idle" /\ run.todo = <<>>
  BY <1>1 DEF Init, NoRun, RunRecord
<1>3. result \in ResultRecord /\ result.examined = 0
  BY DEF Init, NoResult, ResultRecord
<1>4. /\ tab \in [Tabs -> [desired : {"active", "stopped", "absent"}, last : Nat]]
      /\ sockets \in [Tabs -> [gen : Nat, count : Nat]] /\ used \in [Tabs -> Nat]
  BY DEF Init
<1>5. activity \in [Tabs -> [gen : Nat, dirty : BOOLEAN, flushing : BOOLEAN, at : Nat]]
  BY DEF Init
<1>6. TypeOK
  BY <1>2, <1>3, <1>4, <1>5 DEF Init, TypeOK, ConstantsAreGood, StartAssumption
<1>7. RunHasTab /\ UseIsNoticed /\ ShutdownIsFinal /\ NextRunIsScheduled
  BY <1>2 DEF Init, RunHasTab, UseIsNoticed, ShutdownIsFinal, NextRunIsScheduled
<1>8. CountsAreKept
  BY <1>1, <1>2, <1>3 DEF CountsAreKept, ConstantsAreGood, MaxSessionsAssumption
<1>9. UseIsRecorded
  BY DEF Init, UseIsRecorded, ConstantsAreGood, StartAssumption
<1> QED
  BY <1>6, <1>7, <1>8, <1>9 DEF IInv

\* Every step keeps the invariant.
LEMMA StepIsSafe ==
    ASSUME ConstantsAreGood, IInv, [Next]_vars
    PROVE  IInv'
<1>1. CASE \E t \in Tabs : TabStep(t)
  BY <1>1, TabStepIsSafe
<1>2. CASE Tick \/ \E h \in Settings : ChangeSetting(h)
  BY <1>2, EnvironmentIsSafe
<1>3. CASE RunNow \/ FireTimer
  BY <1>3, StartIsSafe
<1>4. CASE Read
  BY <1>4, ReadIsSafe
<1>5. CASE Probed
  BY <1>5, ProbedIsSafe
<1>6. CASE Recheck
  BY <1>6, RecheckIsSafe
<1>7. CASE Rechecked
  BY <1>7, RecheckedIsSafe
<1>8. CASE PersistStop
  BY <1>8, PersistStopIsSafe
<1>9. CASE KillRuntime
  BY <1>9, KillRuntimeIsSafe
<1>10. CASE FinishRun \/ BeginShutdown \/ ShutdownDone
  BY <1>10, EndIsSafe
<1>11. CASE UNCHANGED vars
  <2>1. UNCHANGED <<envVars, tabVars, runVars>>
    BY <1>11 DEF vars
  <2>2. /\ UNCHANGED <<envVars, revision, tab, activity, sockets, touched, used, runVars>>
        /\ bridged' \subseteq Tabs /\ attaching' \subseteq Tabs /\ runtime' \subseteq Tabs
    BY <2>1 DEF IInv, TypeOK, tabVars
  <2> QED
    BY <2>2, PlainStep, GoodStepIsSafe DEF IInv
<1> QED
  BY <1>1, <1>2, <1>3, <1>4, <1>5, <1>6, <1>7, <1>8, <1>9, <1>10, <1>11 DEF Next, RunStep

\* In every state of the cleaner the generations it has captured give every later
\* use of the tab away, and the last use of a tab is recorded or owed.
THEOREM CleanerIsSound ==
    ASSUME ConstantsAreGood
    PROVE  Spec => []IInv
<1>1. Init => IInv
  BY InitIsSafe
<1>2. IInv /\ [Next]_vars => IInv'
  BY StepIsSafe
<1> QED
  BY <1>1, <1>2, PTL DEF Spec

\* A cleaner that neither runs nor was shut down has its next run scheduled, a
\* shutdown that has resolved stays without a run, and the counters of a run add up
\* and stay within maxSessions.
THEOREM CleanerKeepsGoing ==
    ASSUME ConstantsAreGood
    PROVE  Spec => []CleanerIsScheduled
<1>1. IInv => CleanerIsScheduled
  <2>1. SUFFICES ASSUME IInv PROVE ResultAddsUp
    BY DEF IInv, CleanerIsScheduled
  <2>2. /\ result.examined \in Nat /\ run.todo \in Seq(Tabs) /\ MaxSessions \in Nat
    BY <2>1 DEF IInv, TypeOK, RunRecord, ResultRecord, ConstantsAreGood, MaxSessionsAssumption
  <2>3. Len(run.todo) \in Nat
    BY <2>2
  <2> QED
    BY <2>1, <2>2, <2>3 DEF IInv, CountsAreKept, ResultAddsUp
<1> QED
  BY <1>1, CleanerIsSound, PTL

\* What the verdict of eligibility says of the tab.
LEMMA EligibleTab ==
    ASSUME TypeOK, NEW t \in Tabs, NEW s, Eligible(t, s)
    PROVE  /\ s = Capture(t) /\ s # NoState /\ tab[t].desired # "absent"
           /\ ~activity[t].dirty /\ ~activity[t].flushing
           /\ sockets[t].count = 0 /\ t \notin bridged
           /\ tab[t].last < run.cutoff
<1>1. /\ Capture(t) # NoState /\ Capture(t) = s /\ Quiet(Capture(t))
      /\ OldEnough(Capture(t), run.cutoff)
  BY DEF Eligible, SameState
<1>2. /\ tab[t].desired # "absent" /\ Capture(t).last = tab[t].last
      /\ Capture(t).count = sockets[t].count /\ Capture(t).bridged = (t \in bridged)
      /\ Capture(t).pending = (activity[t].dirty \/ activity[t].flushing)
  BY <1>1, CaptureMoves
<1>3. Capture(t).count = 0 /\ ~Capture(t).bridged /\ ~Capture(t).pending
      /\ Capture(t).last < run.cutoff
  BY <1>1 DEF Quiet, OldEnough
<1> QED
  BY <1>1, <1>2, <1>3

\* terminateIfStale decides to stop a session only if nobody has opened a socket,
\* attached, typed or changed its lifecycle since the cleaner first looked at it,
\* and its last use lies before the cutoff of the run.
LEMMA DecisionIsRight ==
    ASSUME ConstantsAreGood, IInv, [Next]_vars
    PROVE  StopsOnlyUntouched /\ StopsOnlyStale
<1> SUFFICES ASSUME run.at = "recheck", run'.at = "persist"
             PROVE  /\ Current \notin touched /\ sockets[Current].count = 0
                    /\ Current \notin bridged /\ used[Current] < run.cutoff
  BY DEF StopsOnlyUntouched, StopsOnlyStale
<1>1. TypeOK /\ run.todo # <<>> /\ Current \in Tabs
  BY CurrentIsTab DEF IInv, RunHasTab
<1>2. Eligible(Current, run.before) /\ SameGeneration(run.captured, run.before)
  <2>1. Rechecked
    <3>1. run' # run
      OBVIOUS
    <3>2. ~(\E t \in Tabs : TabStep(t))
      BY <3>1 DEF TabStep, SocketOpens, SocketCloses, AttachBegins, AttachEnds, BridgeEnds,
                  ShellExits, TerminalActivity, FlushBegins, FlushEnds, Lifecycle, runVars
    <3>3. ~Tick /\ (\A h \in Settings : ~ChangeSetting(h)) /\ ~BeginShutdown /\ ~ShutdownDone
      BY <3>1 DEF Tick, ChangeSetting, BeginShutdown, ShutdownDone, runVars
    <3>4. ~RunNow /\ ~FireTimer
      BY <3>1 DEF RunNow, FireTimer
    <3>5. ~Read /\ ~Probed /\ ~Recheck /\ ~PersistStop /\ ~KillRuntime /\ ~FinishRun
      BY DEF Read, Probed, Recheck, PersistStop, KillRuntime, FinishRun
    <3>6. ~UNCHANGED vars
      BY <3>1 DEF vars, runVars
    <3> QED
      BY <3>2, <3>3, <3>4, <3>5, <3>6 DEF Next, RunStep
  <2>2. ~Count("skipped")
    <3>1. run \in RunRecord
      BY <1>1 DEF TypeOK
    <3> QED
      BY <3>1 DEF Count, RunRecord
  <2> QED
    BY <2>1, <2>2 DEF Rechecked
<1>3. PICK t \in Tabs : t = Current
  BY <1>1
<1>4. PICK s \in State : s = run.captured
  BY DEF IInv, UseIsNoticed
<1>5. Noticed(s, t)
  BY <1>3, <1>4 DEF IInv, UseIsNoticed
<1>6. PICK b : b = run.before
  OBVIOUS
<1>7. /\ b = Capture(t) /\ b # NoState /\ tab[t].desired # "absent"
      /\ ~activity[t].dirty /\ ~activity[t].flushing
      /\ sockets[t].count = 0 /\ t \notin bridged /\ tab[t].last < run.cutoff
  BY <1>1, <1>2, <1>3, <1>6, EligibleTab
<1>8. /\ b.structure = revision /\ b.activity = activity[t].gen /\ b.sockets = sockets[t].gen
  BY <1>1, <1>7, CaptureMoves
<1>9. t \notin touched
  BY <1>2, <1>4, <1>5, <1>6, <1>8 DEF Noticed, SameGeneration
<1>10. used[t] < run.cutoff
  <2>1. used[t] <= tab[t].last
    BY <1>7 DEF IInv, UseIsRecorded
  <2>2. used[t] \in Nat /\ tab[t].last \in Nat /\ run.cutoff \in Nat
    BY <1>1, TabTypes DEF TypeOK, RunRecord
  <2> QED
    BY <1>7, <2>1, <2>2
<1> QED
  BY <1>3, <1>7, <1>9, <1>10

\* The cleaner never stops a session that was used since it first looked at it, or
\* that is in use, or whose last use lies within the threshold.
THEOREM StopsOnlyForgottenSessions ==
    ASSUME ConstantsAreGood
    PROVE  Spec => StopsOnlyForgotten
<1>1. IInv /\ [Next]_vars => StopsOnlyUntouched /\ StopsOnlyStale
  BY DecisionIsRight
<1> QED
  BY <1>1, CleanerIsSound, PTL DEF Spec, StopsOnlyForgotten

=============================================================================
