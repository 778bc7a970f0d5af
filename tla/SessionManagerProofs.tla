------------------------ MODULE SessionManagerProofs ------------------------
(***************************************************************************)
(* Proofs about SessionManager, for any set of tabs and of requests.  IInv *)
(* is inductive; the safety properties are some of its conjuncts or follow *)
(* from them.  TypeOK is not inductive alone: releasing the lock takes the *)
(* tail of a queue, which only LockInv shows not to be empty.              *)
(***************************************************************************)
EXTENDS SessionManager, TLAPS

-----------------------------------------------------------------------------
(***************************************************************************)
(* Building blocks.                                                        *)
(***************************************************************************)

\* The names of steps and kinds used in the actions are declared ones.
LEMMA StepNames ==
  /\ \A s \in LockedSteps : s \in Steps
  /\ "probing" \in LockedSteps /\ "persistingStop" \in LockedSteps
  /\ "closingBridge" \in LockedSteps /\ "killing" \in LockedSteps
  /\ "preparing" \in LockedSteps /\ "persistingActive" \in LockedSteps
  /\ "bumping" \in LockedSteps /\ "undoing" \in LockedSteps
  /\ "removing" \in LockedSteps /\ "forgetting" \in LockedSteps
  /\ "spawning" \in LockedSteps /\ "registering" \in LockedSteps
  /\ "authorized" \in Steps /\ "queued" \in Steps
  /\ "succeeded" \in Steps /\ "failed" \in Steps
  /\ {"authorized", "queued", "succeeded", "failed"} \cap LockedSteps = {}
  /\ "connect" \in Kinds /\ \A k \in LifecycleKinds : k \in Kinds
  BY DEF Steps, LockedSteps, Kinds

\* A call that goes on keeps the types of pc and queue.
LEMMA GotoType ==
  ASSUME TypeOK, NEW r \in Requests, NEW s \in Steps, Goto(r, s)
  PROVE  pc' \in [Requests -> Steps] /\ queue' \in [Tabs -> Seq(Requests)]
  BY DEF TypeOK, Goto

\* A call that ends keeps them because it is the head of its queue.
LEMMA FinishType ==
  ASSUME TypeOK, NEW r \in Requests, NEW s \in Steps, Running(r), Finish(r, s)
  PROVE  pc' \in [Requests -> Steps] /\ queue' \in [Tabs -> Seq(Requests)]
  <1>1. Tail(queue[target[r]]) \in Seq(Requests)
    BY DEF TypeOK, Running
  <1> QED BY <1>1 DEF TypeOK, Finish

\* incrementGeneration keeps the types of the clock and the generations.
LEMMA GenerationType ==
  ASSUME TypeOK, NEW t \in Tabs, IncrementGeneration(t)
  PROVE  clock' \in Nat /\ gen' \in [Tabs -> Nat]
  BY DEF TypeOK, IncrementGeneration

\* Joining a queue does not change who is at its head.
LEMMA AppendHead ==
  ASSUME NEW q \in Seq(Requests), NEW r \in Requests, q # <<>>
  PROVE  Append(q, r) # <<>> /\ Head(Append(q, r)) = Head(q)
  OBVIOUS

\* Two operations of one tab are never both past their first step.
LEMMA Exclusive ==
  ASSUME LockInv, NEW r \in Requests, NEW q \in Requests,
         Running(r), pc[q] \in LockedSteps, target[q] = target[r]
  PROVE  q = r
  BY DEF LockInv, Running

-----------------------------------------------------------------------------
(***************************************************************************)
(* One lemma per conjunct: it is kept by every step.                       *)
(***************************************************************************)

\* Every step keeps the types of the state; Tail is applied only by the
\* operation at the head of its queue.
LEMMA TypeStep == ASSUME TypeOK, LockInv, [Next]_vars PROVE TypeOK'
  <1> USE NoRequestAssumption, StepNames
  <1>1. ASSUME NEW t \in Tabs, CreateTab(t) PROVE TypeOK'
    BY <1>1
       DEF TypeOK, CreateTab, genVars, requestVars, socketVars, bridgeVars
  <1>2. ASSUME NEW t \in Tabs, ShellExits(t) PROVE TypeOK'
    BY <1>2
       DEF TypeOK, ShellExits, genVars, requestVars, socketVars, bridgeVars
  <1>3. ASSUME NEW r \in Requests, NEW t \in Tabs, Upgrade(r, t) PROVE TypeOK'
    BY <1>3, GotoType, GenerationType
       DEF TypeOK, Upgrade, storeVars, genVars, bridgeVars
  <1>4. ASSUME NEW r \in Requests, NEW t \in Tabs, NEW k \in LifecycleKinds, Request(r, t, k) PROVE TypeOK'
    <2>1. queue' \in [Tabs -> Seq(Requests)] /\ pc' \in [Requests -> Steps]
      BY <1>4 DEF TypeOK, Request
    <2> QED BY <1>4, <2>1 DEF TypeOK, Request, storeVars, genVars, socketVars, bridgeVars
  <1>5. ASSUME NEW r \in Requests, Connect(r) PROVE TypeOK'
    BY <1>5
       DEF TypeOK, Connect, storeVars, genVars, requestVars, socketVars, bridgeVars
  <1>6. ASSUME NEW r \in Requests, BeginConnect(r) PROVE TypeOK'
    BY <1>6, FinishType, GotoType
       DEF TypeOK, BeginConnect, Starts, TokenIsCurrent, storeVars, genVars, requestVars, socketVars, bridgeVars, LockInv
  <1>7. ASSUME NEW r \in Requests, Refuse(r) PROVE TypeOK'
    BY <1>7, FinishType
       DEF TypeOK, Refuse, Starts, Exists, storeVars, genVars, requestVars, socketVars, bridgeVars, LockInv
  <1>8. ASSUME NEW r \in Requests, BeginTerminate(r) PROVE TypeOK'
    BY <1>8, GotoType, GenerationType
       DEF TypeOK, BeginTerminate, Starts, Exists, storeVars, genVars, requestVars, socketVars, bridgeVars
  <1>9. ASSUME NEW r \in Requests, BeginRecreate(r) PROVE TypeOK'
    BY <1>9, GotoType
       DEF TypeOK, BeginRecreate, Starts, storeVars, genVars, requestVars, socketVars, bridgeVars
  <1>10. ASSUME NEW r \in Requests, BeginStop(r) PROVE TypeOK'
    BY <1>10, GotoType, GenerationType
       DEF TypeOK, BeginStop, Starts, Exists, storeVars, requestVars, socketVars, bridgeVars
  <1>11. ASSUME NEW r \in Requests, BeginRestartBridge(r) PROVE TypeOK'
    BY <1>11, GotoType
       DEF TypeOK, BeginRestartBridge, Starts, Exists, storeVars, genVars, requestVars, socketVars, bridgeVars
  <1>12. ASSUME NEW r \in Requests, ProbeTerminate(r) PROVE TypeOK'
    BY <1>12, FinishType, GotoType, GenerationType
       DEF TypeOK, ProbeTerminate, storeVars, genVars, requestVars, socketVars, bridgeVars, LockInv
  <1>13. ASSUME NEW r \in Requests, ProbeRecreate(r) PROVE TypeOK'
    BY <1>13, FinishType, GotoType, GenerationType
       DEF TypeOK, ProbeRecreate, storeVars, genVars, requestVars, socketVars, bridgeVars, LockInv
  <1>14. ASSUME NEW r \in Requests, PersistStop(r) PROVE TypeOK'
    <2>1. target[r] \in Tabs /\ life[target[r]] + 1 \in Nat
      BY DEF TypeOK
    <2>2. life' = life \/ life' = [life EXCEPT ![target[r]] = life[target[r]] + 1]
      BY <1>14 DEF PersistStop
    <2>3. life' \in [Tabs -> Nat]
      BY <2>1, <2>2 DEF TypeOK
    <2>4. tabState' \in [Tabs -> {"absent", "active", "stopped", "removed"}]
      BY <1>14 DEF TypeOK, PersistStop
    <2> QED BY <1>14, <2>3, <2>4, FinishType, GotoType
            DEF TypeOK, PersistStop, genVars, requestVars, socketVars, bridgeVars, LockInv
  <1>15. ASSUME NEW r \in Requests, CloseBridge(r) PROVE TypeOK'
    BY <1>15, FinishType, GotoType
       DEF TypeOK, CloseBridge, Shutdown, storeVars, genVars, requestVars, LockInv
  <1>16. ASSUME NEW r \in Requests, KillRuntime(r) PROVE TypeOK'
    <2>1. tmux' \in [Tabs -> BOOLEAN]
      BY <1>16 DEF TypeOK, KillRuntime
    <2> QED BY <1>16, <2>1, FinishType, GotoType
            DEF TypeOK, KillRuntime, AfterKill, genVars, requestVars, socketVars, bridgeVars, LockInv
  <1>17. ASSUME NEW r \in Requests, Prepare(r) PROVE TypeOK'
    <2>1. tmux' \in [Tabs -> BOOLEAN]
      BY <1>17 DEF TypeOK, Prepare
    <2> QED BY <1>17, <2>1, FinishType, GotoType
            DEF TypeOK, Prepare, genVars, requestVars, socketVars, bridgeVars, LockInv
  <1>18. ASSUME NEW r \in Requests, PersistActive(r) PROVE TypeOK'
    BY <1>18, GotoType
       DEF TypeOK, PersistActive, genVars, requestVars, socketVars, bridgeVars
  <1>19. ASSUME NEW r \in Requests, BumpGeneration(r) PROVE TypeOK'
    BY <1>19, FinishType, GenerationType
       DEF TypeOK, BumpGeneration, storeVars, requestVars, socketVars, bridgeVars, LockInv
  <1>20. ASSUME NEW r \in Requests, Undo(r) PROVE TypeOK'
    <2>1. tmux' \in [Tabs -> BOOLEAN]
      BY <1>20 DEF TypeOK, Undo
    <2> QED BY <1>20, <2>1, FinishType
            DEF TypeOK, Undo, genVars, requestVars, socketVars, bridgeVars, LockInv
  <1>21. ASSUME NEW r \in Requests, RemoveTab(r) PROVE TypeOK'
    BY <1>21, FinishType, GotoType
       DEF TypeOK, RemoveTab, genVars, requestVars, socketVars, bridgeVars, LockInv
  <1>22. ASSUME NEW r \in Requests, ForgetGeneration(r) PROVE TypeOK'
    BY <1>22, FinishType
       DEF TypeOK, ForgetGeneration, storeVars, requestVars, socketVars, bridgeVars, LockInv
  <1>23. ASSUME NEW r \in Requests, SpawnBridge(r) PROVE TypeOK'
    BY <1>23, FinishType, GotoType
       DEF TypeOK, SpawnBridge, CloseSocket, storeVars, genVars, requestVars, LockInv
  <1>24. ASSUME NEW r \in Requests, RegisterBridge(r) PROVE TypeOK'
    BY <1>24, FinishType
       DEF TypeOK, RegisterBridge, Shutdown, storeVars, genVars, requestVars, LockInv
  <1>25. ASSUME NEW r \in Requests, ConnectionResolved(r) PROVE TypeOK'
    BY <1>25
       DEF TypeOK, ConnectionResolved, CloseSocket, storeVars, genVars, requestVars
  <1>26. ASSUME NEW r \in Requests, ConnectionRejected(r) PROVE TypeOK'
    BY <1>26
       DEF TypeOK, ConnectionRejected, CloseSocket, storeVars, genVars, requestVars, bridgeVars
  <1>27. ASSUME NEW r \in Requests, RegistryRemove(r) PROVE TypeOK'
    BY <1>27
       DEF TypeOK, RegistryRemove, storeVars, genVars, requestVars
  <1>28. ASSUME NEW r \in Requests, SocketClosed(r) PROVE TypeOK'
    BY <1>28
       DEF TypeOK, SocketClosed, SocketEnded, storeVars, genVars, requestVars
  <1>29. ASSUME NEW r \in Requests, SocketError(r) PROVE TypeOK'
    BY <1>29
       DEF TypeOK, SocketError, SocketEnded, storeVars, genVars, requestVars
  <1>30. ASSUME NEW r \in Requests, BridgeEnds(r) PROVE TypeOK'
    BY <1>30
       DEF TypeOK, BridgeEnds, Shutdown, storeVars, genVars, requestVars
  <1>31. ASSUME NEW r \in Requests, SessionExpires(r) PROVE TypeOK'
    BY <1>31
       DEF TypeOK, SessionExpires, storeVars, genVars, requestVars, bridgeVars
  <1>32. ASSUME NEW r \in Requests, RevokeSocket(r) PROVE TypeOK'
    BY <1>32
       DEF TypeOK, RevokeSocket, CloseSocket, storeVars, genVars, requestVars, bridgeVars
  <1>33. ASSUME UNCHANGED vars PROVE TypeOK'
    BY <1>33
       DEF TypeOK, vars
  <1> QED
    BY <1>1, <1>2, <1>3, <1>4, <1>5, <1>6, <1>7, <1>8, <1>9, <1>10, <1>11, <1>12, <1>13, <1>14, <1>15, <1>16, <1>17, <1>18, <1>19, <1>20, <1>21, <1>22, <1>23, <1>24, <1>25, <1>26, <1>27, <1>28, <1>29, <1>30, <1>31, <1>32, <1>33 DEF Next, Step, Begin, HandlerStep, SocketStep

\* What the connection handlers and the sockets leave alone.
LEMMA SocketFrame ==
  ASSUME NEW r \in Requests, HandlerStep(r) \/ SocketStep(r)
  PROVE  UNCHANGED <<tabState, tmux, life, gen, clock, queue, pc, kind, target, token, tokenLife>>
  BY DEF HandlerStep, SocketStep, ConnectionResolved, ConnectionRejected, RegistryRemove,
         SocketClosed, SocketError, BridgeEnds, SessionExpires, RevokeSocket,
         storeVars, genVars, requestVars

\* A step of a call: it belongs to the head of the queue (except for Connect,
\* which enters it), moves only its own pc, and keeps or gives up its place.
LEMMA CallFrame ==
  ASSUME TypeOK, LockInv, NEW r \in Requests, Step(r)
  PROVE  /\ UNCHANGED <<kind, target, token, tokenLife, authority, handler>>
         /\ \/ Connect(r)
            \/ /\ Running(r)
               /\ \/ \E s \in LockedSteps : Goto(r, s)
                  \/ Finish(r, "succeeded")
                  \/ Finish(r, "failed")
  <1> USE StepNames DEF LockInv, requestVars, socketVars
  <1>1. CASE Connect(r)
    BY <1>1 DEF Connect
  <1>2. CASE Begin(r)
    BY <1>2 DEF Begin, Starts, BeginConnect, Refuse, BeginTerminate, BeginRecreate, BeginStop,
             BeginRestartBridge
  <1>3. CASE ProbeTerminate(r) \/ ProbeRecreate(r) \/ PersistStop(r) \/ CloseBridge(r)
    BY <1>3 DEF ProbeTerminate, ProbeRecreate, PersistStop, CloseBridge
  <1>4. CASE KillRuntime(r) \/ Prepare(r) \/ PersistActive(r) \/ BumpGeneration(r) \/ Undo(r)
    BY <1>4 DEF KillRuntime, AfterKill, Prepare, PersistActive, BumpGeneration, Undo
  <1>5. CASE RemoveTab(r) \/ ForgetGeneration(r) \/ SpawnBridge(r) \/ RegisterBridge(r)
    BY <1>5 DEF RemoveTab, ForgetGeneration, SpawnBridge, RegisterBridge
  <1> QED BY <1>1, <1>2, <1>3, <1>4, <1>5 DEF Step

\* Every step keeps the mutual exclusion of the keyed mutex.
LEMMA LockStep == ASSUME TypeOK, LockInv, [Next]_vars PROVE LockInv'
  <1>1. ASSUME NEW r \in Requests, Running(r), NEW s \in LockedSteps, Goto(r, s), target' = target
        PROVE  LockInv'
    BY <1>1 DEF TypeOK, LockInv, Goto, Running
  <1>2. ASSUME NEW r \in Requests, Running(r), Finish(r, "succeeded") \/ Finish(r, "failed"), target' = target
        PROVE  LockInv'
    <2>1. \A q \in Requests : pc'[q] \in LockedSteps => pc[q] \in LockedSteps /\ q # r
      BY <1>2, StepNames DEF TypeOK, Finish
    <2>2. \A q \in Requests : pc'[q] \in LockedSteps => target[q] # target[r]
      BY <1>2, <2>1, Exclusive
    <2>3. \A q \in Requests : target[q] # target[r] => queue'[target[q]] = queue[target[q]]
      BY <1>2 DEF TypeOK, Finish
    <2> QED BY <1>2, <2>1, <2>2, <2>3 DEF LockInv, Running
  <1>3. ASSUME NEW r \in Requests, Connect(r) PROVE LockInv'
    <2>1. \A q \in Requests : pc'[q] \in LockedSteps => pc[q] \in LockedSteps
      BY <1>3 DEF TypeOK, Connect, LockedSteps
    <2>2. \A t \in Tabs : queue'[t] = queue[t] \/ queue'[t] = Append(queue[t], r)
      BY <1>3 DEF TypeOK, Connect
    <2>3. \A q \in Requests : pc'[q] \in LockedSteps => target'[q] = target[q] /\ target[q] \in Tabs
      BY <1>3, <2>1 DEF TypeOK, Connect, requestVars
    <2>4. \A t \in Tabs : queue[t] \in Seq(Requests)
      BY DEF TypeOK
    <2> QED BY <2>1, <2>2, <2>3, <2>4, AppendHead DEF LockInv, Running
  <1>4. ASSUME NEW r \in Requests, NEW u \in Tabs, NEW k \in LifecycleKinds, Request(r, u, k)
        PROVE  LockInv'
    <2>1. \A q \in Requests : pc'[q] \in LockedSteps => pc[q] \in LockedSteps /\ q # r
      BY <1>4 DEF TypeOK, Request, LockedSteps
    <2>2. \A t \in Tabs : queue'[t] = queue[t] \/ queue'[t] = Append(queue[t], r)
      BY <1>4 DEF TypeOK, Request
    <2>3. \A q \in Requests : pc'[q] \in LockedSteps => target'[q] = target[q] /\ target[q] \in Tabs
      BY <1>4, <2>1 DEF TypeOK, Request
    <2>4. \A t \in Tabs : queue[t] \in Seq(Requests)
      BY DEF TypeOK
    <2> QED BY <2>1, <2>2, <2>3, <2>4, AppendHead DEF LockInv, Running
  <1>5. ASSUME NEW r \in Requests, NEW t \in Tabs, Upgrade(r, t) PROVE LockInv'
    <2>1. \A q \in Requests : pc'[q] \in LockedSteps => pc[q] \in LockedSteps /\ q # r
      BY <1>5 DEF TypeOK, Upgrade, Goto, LockedSteps
    <2> QED BY <1>5, <2>1 DEF TypeOK, LockInv, Upgrade, Goto, Running
  <1>6. ASSUME UNCHANGED <<pc, queue, target>> PROVE LockInv'
    BY <1>6 DEF LockInv, Running
  <1>7. ASSUME NEW t \in Tabs, CreateTab(t) \/ ShellExits(t) PROVE UNCHANGED <<pc, queue, target>>
    BY <1>7 DEF CreateTab, ShellExits, requestVars
  <1> QED BY <1>1, <1>2, <1>3, <1>4, <1>5, <1>6, <1>7, CallFrame, SocketFrame DEF Next, vars

\* Environment steps on a tab touch no request.
LEMMA TabFrame ==
  ASSUME NEW t \in Tabs, CreateTab(t) \/ ShellExits(t)
  PROVE  UNCHANGED <<life, gen, clock, queue, pc, kind, target, token, tokenLife, sock,
                     authority, handler, bridge, owner>>
  BY DEF CreateTab, ShellExits, genVars, requestVars, socketVars, bridgeVars

\* An operation only reaches the steps that its code contains.
LEMMA KindStep == ASSUME TypeOK, LockInv, KindInv, [Next]_vars PROVE KindInv'
  <1>0. pc \in [Requests -> Steps] /\ kind \in [Requests -> Kinds]
    BY DEF TypeOK
  <1> USE <1>0 DEF KindInv
  <1>1. ASSUME NEW r \in Requests, NEW t \in Tabs, Upgrade(r, t) PROVE KindInv'
    BY <1>1 DEF Upgrade, Goto
  <1>2. ASSUME NEW r \in Requests, NEW t \in Tabs, NEW k \in LifecycleKinds, Request(r, t, k)
        PROVE  KindInv'
    BY <1>2 DEF Request
  <1>3. ASSUME NEW r \in Requests, Step(r) PROVE KindInv'
    <2>0. UNCHANGED kind
      BY <1>3, CallFrame
    <2> USE <2>0 DEF Goto, Finish, Starts, StopKinds
    <2>1. CASE Connect(r)
      BY <2>1 DEF Connect
    <2>2. CASE BeginConnect(r) \/ Refuse(r) \/ BeginTerminate(r)
      BY <2>2 DEF BeginConnect, Refuse, BeginTerminate
    <2>6. CASE BeginRecreate(r) \/ BeginStop(r) \/ BeginRestartBridge(r)
      BY <2>6 DEF BeginRecreate, BeginStop, BeginRestartBridge
    <2>3. CASE ProbeTerminate(r) \/ ProbeRecreate(r) \/ PersistStop(r) \/ CloseBridge(r)
      BY <2>3 DEF ProbeTerminate, ProbeRecreate, PersistStop, CloseBridge
    <2>4. CASE KillRuntime(r) \/ Undo(r)
      BY <2>4 DEF KillRuntime, AfterKill, Undo
    <2>7. CASE Prepare(r) \/ PersistActive(r) \/ BumpGeneration(r)
      BY <2>7 DEF Prepare, PersistActive, BumpGeneration
    <2>5. CASE RemoveTab(r) \/ ForgetGeneration(r) \/ SpawnBridge(r) \/ RegisterBridge(r)
      BY <2>5 DEF RemoveTab, ForgetGeneration, SpawnBridge, RegisterBridge
    <2> QED BY <1>3, <2>1, <2>2, <2>3, <2>4, <2>5, <2>6, <2>7 DEF Step, Begin
  <1>4. ASSUME UNCHANGED <<pc, kind>> PROVE KindInv'
    BY <1>4
  <1> QED BY <1>1, <1>2, <1>3, <1>4, TabFrame, SocketFrame DEF Next, vars


\* While a call takes a step, no other call of the tab is past its first step.
LEMMA CallExclusive ==
  ASSUME TypeOK, LockInv, NEW r \in Requests, Step(r), ~Connect(r)
  PROVE  \A q \in Requests : q # r /\ target[q] = target[r] => pc[q] \notin LockedSteps
  BY CallFrame, Exclusive

\* It changes no pc and no desired state but its own, and brings back no tab.
LEMMA CallLocal ==
  ASSUME TypeOK, LockInv, NEW r \in Requests, Step(r)
  PROVE  /\ \A q \in Requests : q # r => pc'[q] = pc[q]
         /\ \A t \in Tabs : \/ tabState'[t] = tabState[t]
                            \/ t = target[r] /\ tabState'[t] # "absent" /\ ~Connect(r)
  <1>1. \A q \in Requests : q # r => pc'[q] = pc[q]
    <2>1. \E s \in Steps : pc' = [pc EXCEPT ![r] = s]
      BY CallFrame, StepNames DEF Goto, Finish, Connect
    <2> QED BY <2>1 DEF TypeOK
  <1>2. \/ UNCHANGED tabState
        \/ /\ \E s \in {"active", "stopped", "removed"} :
                tabState' = [tabState EXCEPT ![target[r]] = s]
           /\ ~Connect(r)
    BY DEF Step, Begin, Connect, BeginConnect, Refuse, BeginTerminate, BeginRecreate, BeginStop,
           BeginRestartBridge, ProbeTerminate, ProbeRecreate, PersistStop, CloseBridge,
           KillRuntime, Prepare, PersistActive, BumpGeneration, Undo, RemoveTab,
           ForgetGeneration, SpawnBridge, RegisterBridge, storeVars
  <1> QED BY <1>1, <1>2 DEF TypeOK

\* No other callback changes the desired state an operation relies on.
LEMMA StateStep ==
  ASSUME TypeOK, LockInv, KindInv, StateInv, [Next]_vars PROVE StateInv'
  <1>0. /\ pc \in [Requests -> Steps] /\ target \in [Requests -> Tabs]
        /\ kind \in [Requests -> Kinds] /\ tabState \in [Tabs -> {"absent", "active", "stopped", "removed"}]
    BY DEF TypeOK
  <1> USE <1>0
  <1>1. ASSUME NEW r \in Requests, NEW t \in Tabs, Upgrade(r, t), NEW q \in Requests PROVE StateOK(q)'
    BY <1>1 DEF StateInv, StateOK, Exists, Upgrade, Goto, storeVars
  <1>2. ASSUME NEW r \in Requests, NEW t \in Tabs, NEW k \in LifecycleKinds, Request(r, t, k), NEW q \in Requests
        PROVE  StateOK(q)'
    BY <1>2 DEF StateInv, StateOK, Exists, Request, storeVars, LifecycleKinds, StopKinds
  <1>3. ASSUME NEW r \in Requests, Step(r) PROVE StateInv'
    <2>1. UNCHANGED <<kind, target>>
      BY <1>3, CallFrame
    <2>2. ASSUME NEW q \in Requests, q # r PROVE StateOK(q)'
      <3>1. \/ tabState'[target[q]] = tabState[target[q]]
            \/ target[q] = target[r] /\ tabState'[target[q]] # "absent" /\ ~Connect(r)
        BY <1>3, CallLocal
      <3>2. \/ tabState'[target[q]] = tabState[target[q]]
            \/ pc[q] \notin LockedSteps /\ tabState'[target[q]] # "absent"
        BY <1>3, <2>2, <3>1, CallExclusive
      <3> QED BY <1>3, <2>1, <2>2, <3>2, CallLocal, StepNames DEF StateInv, StateOK, Exists
    <2>3. StateOK(r)'
      <3> USE <2>1 DEF StateInv, StateOK, Exists, Goto, Finish, Starts, storeVars
      <3>1. CASE Connect(r)
        BY <3>1 DEF Connect
      <3>2. CASE BeginConnect(r)
        BY <3>2 DEF BeginConnect, TokenIsCurrent
      <3>3. CASE Refuse(r)
        BY <3>3 DEF Refuse
      <3>4. CASE BeginTerminate(r) \/ BeginRecreate(r)
        BY <3>4 DEF BeginTerminate, BeginRecreate
      <3>5. CASE BeginStop(r) \/ BeginRestartBridge(r)
        BY <3>5 DEF BeginStop, BeginRestartBridge, StopKinds
      <3>6. CASE ProbeTerminate(r) \/ ProbeRecreate(r)
        BY <3>6 DEF ProbeTerminate, ProbeRecreate
      <3>7. CASE PersistStop(r)
        BY <3>7 DEF PersistStop, KindInv, StopKinds
      <3>8. CASE CloseBridge(r)
        BY <3>8 DEF CloseBridge, StopKinds
      <3>9. CASE KillRuntime(r)
        BY <3>9 DEF KillRuntime, AfterKill
      <3>10. CASE Prepare(r)
        BY <3>10 DEF Prepare, StopKinds
      <3>11. CASE PersistActive(r) \/ RemoveTab(r)
        BY <3>11 DEF PersistActive, RemoveTab, KindInv
      <3>12. CASE BumpGeneration(r) \/ Undo(r) \/ ForgetGeneration(r)
        BY <3>12 DEF BumpGeneration, Undo, ForgetGeneration
      <3>13. CASE SpawnBridge(r) \/ RegisterBridge(r)
        BY <3>13 DEF SpawnBridge, RegisterBridge
      <3> QED BY <1>3, <3>1, <3>2, <3>3, <3>4, <3>5, <3>6, <3>7, <3>8, <3>9, <3>10, <3>11, <3>12,
                 <3>13 DEF Step, Begin
    <2> QED BY <2>2, <2>3 DEF StateInv
  <1>4. ASSUME NEW t \in Tabs, CreateTab(t) \/ ShellExits(t), NEW q \in Requests PROVE StateOK(q)'
    BY <1>4, TabFrame DEF StateInv, StateOK, Exists, CreateTab, ShellExits
  <1>5. ASSUME UNCHANGED <<pc, kind, target, tabState>> PROVE StateInv'
    BY <1>5 DEF StateInv, StateOK, Exists
  <1> QED BY <1>1, <1>2, <1>3, <1>4, <1>5, SocketFrame DEF Next, vars, StateInv

\* Steps of a call that neither open, close nor register a bridge.
LEMMA PlainStep ==
  ASSUME TypeOK, LockInv, NEW r \in Requests, Step(r)
  PROVE  \/ CloseBridge(r) \/ SpawnBridge(r) \/ RegisterBridge(r)
         \/ /\ UNCHANGED <<bridge, owner, sock>>
            /\ pc[r] \notin {"unused", "registering", "succeeded", "failed"}
            /\ pc'[r] \notin {"unused", "authorized", "spawning", "registering"}
  <1> USE DEF Goto, Finish, Starts, bridgeVars, socketVars
  <1>0. pc \in [Requests -> Steps]
    BY DEF TypeOK
  <1>1. CASE Connect(r) \/ BeginConnect(r) \/ Refuse(r) \/ BeginTerminate(r)
    BY <1>0, <1>1 DEF Connect, BeginConnect, Refuse, BeginTerminate
  <1>2. CASE BeginRecreate(r) \/ BeginStop(r) \/ BeginRestartBridge(r)
    BY <1>0, <1>2 DEF BeginRecreate, BeginStop, BeginRestartBridge
  <1>3. CASE ProbeTerminate(r) \/ ProbeRecreate(r) \/ PersistStop(r)
    BY <1>0, <1>3 DEF ProbeTerminate, ProbeRecreate, PersistStop
  <1>4. CASE KillRuntime(r) \/ Prepare(r) \/ PersistActive(r)
    BY <1>0, <1>4 DEF KillRuntime, AfterKill, Prepare, PersistActive
  <1>5. CASE BumpGeneration(r) \/ Undo(r) \/ RemoveTab(r) \/ ForgetGeneration(r)
    BY <1>0, <1>5 DEF BumpGeneration, Undo, RemoveTab, ForgetGeneration
  <1> QED BY <1>1, <1>2, <1>3, <1>4, <1>5 DEF Step, Begin

\* What the handler and socket steps do to bridges: they only ever close the
\* bridge of their own connection, and RegistryRemove drops only it.
LEMMA SocketEffect ==
  ASSUME TypeOK, NEW r \in Requests, HandlerStep(r) \/ SocketStep(r)
  PROVE  /\ \A q \in Requests : q # r => bridge'[q] = bridge[q] /\ handler'[q] = handler[q] /\ sock'[q] = sock[q]
         /\ bridge'[r] = bridge[r] \/ bridge'[r] = "closed"
         /\ bridge'[r] # bridge[r] =>
               bridge[r] = "open" \/ (handler[r] = "pending" /\ pc[r] = "succeeded")
         /\ UNCHANGED owner \/ RegistryRemove(r)
  <1>0. /\ sock \in [Requests -> {"none", "open", "closing", "closed"}]
        /\ handler \in [Requests -> {"none", "pending", "ready", "removing", "settled"}]
        /\ bridge \in [Requests -> {"none", "open", "closed"}]
    BY DEF TypeOK
  <1> USE <1>0
  <1>1. CASE ConnectionResolved(r)
    BY <1>1 DEF ConnectionResolved, CloseSocket
  <1>2. CASE ConnectionRejected(r)
    BY <1>2 DEF ConnectionRejected, CloseSocket, bridgeVars
  <1>3. CASE RegistryRemove(r)
    BY <1>3 DEF RegistryRemove
  <1>4. CASE SocketClosed(r) \/ SocketError(r)
    BY <1>4 DEF SocketClosed, SocketError, SocketEnded, storeVars, genVars, requestVars
  <1>5. CASE BridgeEnds(r)
    BY <1>5 DEF BridgeEnds, Shutdown, storeVars, genVars, requestVars
  <1>6. CASE SessionExpires(r) \/ RevokeSocket(r)
    BY <1>6 DEF SessionExpires, RevokeSocket, CloseSocket, bridgeVars
  <1> QED BY <1>1, <1>2, <1>3, <1>4, <1>5, <1>6 DEF HandlerStep, SocketStep

\* Registered owners and live bridges stay in step through connects, closes
\* and late removals.
LEMMA BridgeStep ==
  ASSUME TypeOK, LockInv, KindInv, HandlerInv, BridgeInv, [Next]_vars PROVE BridgeInv'
  <1>0. /\ pc \in [Requests -> Steps] /\ target \in [Requests -> Tabs]
        /\ kind \in [Requests -> Kinds] /\ owner \in [Tabs -> Requests \cup {NoRequest}]
        /\ bridge \in [Requests -> {"none", "open", "closed"}]
    BY DEF TypeOK
  <1> USE <1>0, NoRequestAssumption
  <1>1. ASSUME NEW r \in Requests, NEW t \in Tabs, Upgrade(r, t) PROVE BridgeInv'
    BY <1>1 DEF BridgeInv, Upgrade, Goto, bridgeVars
  <1>2. ASSUME NEW r \in Requests, NEW t \in Tabs, NEW k \in LifecycleKinds, Request(r, t, k)
        PROVE  BridgeInv'
    BY <1>2 DEF BridgeInv, Request, bridgeVars
  <1>3. ASSUME NEW r \in Requests, Step(r) PROVE BridgeInv'
    <2>1. UNCHANGED <<kind, target>> /\ \A q \in Requests : q # r => pc'[q] = pc[q]
      BY <1>3, CallFrame, CallLocal
    <2>2. CASE CloseBridge(r)
      BY <2>1, <2>2 DEF BridgeInv, CloseBridge, Shutdown, Goto, Finish
    <2>3. CASE SpawnBridge(r)
      BY <2>1, <2>3 DEF BridgeInv, KindInv, SpawnBridge, Goto, Finish
    <2>4. CASE RegisterBridge(r)
      <3>1. \A q \in Requests : q # r /\ target[q] = target[r] => pc[q] \notin {"spawning", "registering"}
        BY <1>3, <2>4, CallExclusive, StepNames DEF RegisterBridge, Connect
      <3>2. UNCHANGED bridge
        BY <2>4 DEF BridgeInv, RegisterBridge, Shutdown
      <3> QED BY <2>1, <2>4, <3>1, <3>2 DEF BridgeInv, RegisterBridge, Finish
    <2>5. CASE /\ UNCHANGED <<bridge, owner, sock>>
               /\ pc[r] \notin {"unused", "registering", "succeeded", "failed"}
               /\ pc'[r] \notin {"unused", "authorized", "spawning", "registering"}
      BY <2>1, <2>5 DEF BridgeInv
    <2> QED BY <1>3, <2>2, <2>3, <2>4, <2>5, PlainStep
  <1>4. ASSUME NEW r \in Requests, HandlerStep(r) \/ SocketStep(r) PROVE BridgeInv'
    <2>1. CASE UNCHANGED owner
      BY <1>4, <2>1, SocketEffect, SocketFrame DEF BridgeInv, HandlerInv
    <2>2. CASE RegistryRemove(r)
      BY <1>4, <2>2, SocketFrame DEF BridgeInv, HandlerInv, RegistryRemove
    <2> QED BY <1>4, <2>1, <2>2, SocketEffect
  <1>5. ASSUME UNCHANGED <<pc, kind, target, bridge, owner>> PROVE BridgeInv'
    BY <1>5 DEF BridgeInv
  <1> QED BY <1>1, <1>2, <1>3, <1>4, <1>5, TabFrame DEF Next, vars

\* The connection handler waits for its connect and removes only what is closed.
LEMMA HandlerInvStep ==
  ASSUME TypeOK, LockInv, KindInv, HandlerInv, BridgeInv, [Next]_vars PROVE HandlerInv'
  <1>0. /\ pc \in [Requests -> Steps] /\ kind \in [Requests -> Kinds]
        /\ handler \in [Requests -> {"none", "pending", "ready", "removing", "settled"}]
        /\ bridge \in [Requests -> {"none", "open", "closed"}]
    BY DEF TypeOK
  <1> USE <1>0
  <1>1. ASSUME NEW r \in Requests, NEW t \in Tabs, Upgrade(r, t) PROVE HandlerInv'
    BY <1>1 DEF HandlerInv, Upgrade, Goto, bridgeVars
  <1>2. ASSUME NEW r \in Requests, NEW t \in Tabs, NEW k \in LifecycleKinds, Request(r, t, k)
        PROVE  HandlerInv'
    BY <1>2 DEF HandlerInv, KindInv, Request, LifecycleKinds, StopKinds, bridgeVars, socketVars
  <1>3. ASSUME NEW r \in Requests, Step(r) PROVE HandlerInv'
    <2>1. UNCHANGED <<kind, handler>> /\ \A q \in Requests : q # r => pc'[q] = pc[q]
      BY <1>3, CallFrame, CallLocal
    <2>2. CASE CloseBridge(r)
      BY <2>1, <2>2 DEF HandlerInv, CloseBridge, Shutdown
    <2>3. CASE SpawnBridge(r)
      BY <2>1, <2>3 DEF HandlerInv, KindInv, SpawnBridge
    <2>4. CASE RegisterBridge(r)
      BY <2>1, <2>4 DEF HandlerInv, RegisterBridge, Shutdown
    <2>5. CASE /\ UNCHANGED <<bridge, owner, sock>>
               /\ pc[r] \notin {"unused", "registering", "succeeded", "failed"}
      BY <2>1, <2>5 DEF HandlerInv
    <2> QED BY <1>3, <2>2, <2>3, <2>4, <2>5, PlainStep
  <1>4. ASSUME NEW r \in Requests, HandlerStep(r) \/ SocketStep(r) PROVE HandlerInv'
    <2>1. UNCHANGED <<pc, kind>>
      BY <1>4, SocketFrame
    <2>2. handler[r] # "none" => kind[r] = "connect"
      BY DEF HandlerInv
    <2>3. /\ handler'[r] # "none" => handler[r] # "none"
          /\ handler'[r] = "removing" => bridge'[r] # "open"
          /\ handler[r] = "pending" /\ pc[r] \notin {"succeeded", "failed"} => handler'[r] = "pending"
      <3> USE DEF HandlerInv, SocketEnded, CloseSocket, Shutdown, socketVars, bridgeVars
      <3>1. CASE ConnectionResolved(r) \/ ConnectionRejected(r) \/ RegistryRemove(r)
        BY <3>1 DEF ConnectionResolved, ConnectionRejected, RegistryRemove
      <3>2. CASE SocketClosed(r) \/ SocketError(r)
        BY <3>2 DEF SocketClosed, SocketError
      <3>3. CASE BridgeEnds(r) \/ SessionExpires(r) \/ RevokeSocket(r)
        BY <3>3 DEF BridgeEnds, SessionExpires, RevokeSocket
      <3> QED BY <1>4, <3>1, <3>2, <3>3 DEF HandlerStep, SocketStep
    <2> QED BY <1>4, <2>1, <2>2, <2>3, SocketEffect DEF HandlerInv
  <1>5. ASSUME UNCHANGED <<pc, kind, handler, bridge>> PROVE HandlerInv'
    BY <1>5 DEF HandlerInv
  <1> QED BY <1>1, <1>2, <1>3, <1>4, <1>5, TabFrame DEF Next, vars

\* Which steps of a call change the record of the tab.
LEMMA CallRecord ==
  ASSUME NEW r \in Requests, Step(r)
  PROVE  UNCHANGED <<tabState, life>> \/ PersistStop(r) \/ PersistActive(r) \/ RemoveTab(r)
  BY DEF Step, Begin, Connect, BeginConnect, Refuse, BeginTerminate, BeginRecreate, BeginStop,
         BeginRestartBridge, ProbeTerminate, ProbeRecreate, CloseBridge, KillRuntime, Prepare,
         BumpGeneration, Undo, ForgetGeneration, SpawnBridge, RegisterBridge, storeVars

\* A call opens no bridge but its own, and that in SpawnBridge.
LEMMA CallOpens ==
  ASSUME TypeOK, LockInv, NEW r \in Requests, Step(r), NEW q \in Requests, bridge'[q] = "open"
  PROVE  bridge[q] = "open" \/ (q = r /\ SpawnBridge(r))
  <1>0. bridge \in [Requests -> {"none", "open", "closed"}]
    BY DEF TypeOK
  <1>1. CASE CloseBridge(r) \/ RegisterBridge(r)
    BY <1>0, <1>1 DEF CloseBridge, RegisterBridge, Shutdown
  <1>2. CASE SpawnBridge(r)
    BY <1>0, <1>2 DEF SpawnBridge
  <1> QED BY <1>1, <1>2, PlainStep

\* As long as a bridge survives, an operation about to close it stays there.
LEMMA HolderKept ==
  ASSUME TypeOK, LockInv, BridgeInv, NEW r \in Requests, Step(r), NEW q \in Requests,
         bridge[q] = "open", bridge'[q] = "open", LockHolderAt(target[q], "closingBridge")
  PROVE  LockHolderAt(target[q], "closingBridge")'
  <1>1. PICK h \in Requests : target[h] = target[q] /\ pc[h] = "closingBridge"
    BY DEF LockHolderAt
  <1>2. UNCHANGED target /\ \A p \in Requests : p # r => pc'[p] = pc[p]
    BY CallFrame, CallLocal
  <1>3. CASE h # r
    BY <1>1, <1>2, <1>3 DEF LockHolderAt
  <1>4. CASE h = r
    <2>1. pc[r] = "closingBridge" => CloseBridge(r)
      BY DEF Step, Begin, Connect, Starts, BeginConnect, Refuse, BeginTerminate, BeginRecreate,
             BeginStop, BeginRestartBridge, ProbeTerminate, ProbeRecreate, PersistStop,
             KillRuntime, Prepare, PersistActive, BumpGeneration, Undo, RemoveTab,
             ForgetGeneration, SpawnBridge, RegisterBridge
    <2>2. CloseBridge(r)
      BY <1>1, <1>4, <2>1
    <2>3. pc[q] # "registering"
      BY <1>1, <1>4, <2>2, CallExclusive, StepNames DEF Connect
    <2>4. owner[target[r]] = q
      BY <1>1, <1>4, <2>3 DEF BridgeInv
    <2> QED BY <2>2, <2>4 DEF CloseBridge, Shutdown
  <1> QED BY <1>3, <1>4

\* No step attaches a bridge to a tab whose stop is carried out.
LEMMA StoppedStep ==
  ASSUME TypeOK, LockInv, KindInv, StateInv, BridgeInv, StoppedTabHasNoBridge, [Next]_vars
  PROVE  StoppedTabHasNoBridge'
  <1>0. /\ pc \in [Requests -> Steps] /\ target \in [Requests -> Tabs]
        /\ tabState \in [Tabs -> {"absent", "active", "stopped", "removed"}]
        /\ bridge \in [Requests -> {"none", "open", "closed"}]
    BY DEF TypeOK
  <1> USE <1>0
  <1>1. ASSUME NEW r \in Requests, NEW t \in Tabs,
               Upgrade(r, t) \/ \E k \in LifecycleKinds : Request(r, t, k)
        PROVE  StoppedTabHasNoBridge'
    BY <1>1 DEF StoppedTabHasNoBridge, LockHolderAt, BridgeInv, Upgrade, Request, Goto, storeVars, bridgeVars
  <1>2. ASSUME NEW r \in Requests, Step(r), NEW q \in Requests,
               bridge'[q] = "open", tabState'[target'[q]] = "stopped"
        PROVE  LockHolderAt(target[q], "closingBridge")'
    <2>1. UNCHANGED target
      BY <1>2, CallFrame
    <2>2. CASE PersistStop(r)
      <3>1. CASE tabState[target[q]] = "stopped"
        BY <1>2, <2>2, <3>1, HolderKept, CallOpens DEF StoppedTabHasNoBridge, PersistStop, SpawnBridge
      <3>2. CASE tabState[target[q]] # "stopped"
        BY <1>2, <2>1, <2>2, <3>2 DEF PersistStop, LockHolderAt, Goto
      <3> QED BY <3>1, <3>2
    <2>3. CASE ~PersistStop(r)
      <3>1. tabState[target[q]] = "stopped"
        BY <1>2, <2>1, <2>3, CallRecord DEF PersistActive, RemoveTab
      <3>2. ~SpawnBridge(r) \/ q # r
        BY <3>1 DEF StateInv, StateOK, SpawnBridge
      <3> QED BY <1>2, <3>1, <3>2, HolderKept, CallOpens DEF StoppedTabHasNoBridge
    <2> QED BY <2>2, <2>3
  <1>3. ASSUME NEW r \in Requests, HandlerStep(r) \/ SocketStep(r) PROVE StoppedTabHasNoBridge'
    <2>1. \A q \in Requests : bridge'[q] = "open" => bridge[q] = "open"
      BY <1>3, SocketEffect
    <2> QED BY <1>3, <2>1, SocketFrame DEF StoppedTabHasNoBridge, LockHolderAt
  <1>4. ASSUME NEW t \in Tabs, CreateTab(t) \/ ShellExits(t) PROVE StoppedTabHasNoBridge'
    BY <1>4, TabFrame DEF StoppedTabHasNoBridge, LockHolderAt, CreateTab, ShellExits
  <1>5. ASSUME UNCHANGED vars PROVE StoppedTabHasNoBridge'
    BY <1>5 DEF StoppedTabHasNoBridge, LockHolderAt, vars
  <1>6. ASSUME NEW r \in Requests, Step(r) PROVE StoppedTabHasNoBridge'
    <2>1. UNCHANGED target
      BY <1>6, CallFrame
    <2> QED BY <1>2, <1>6, <2>1 DEF StoppedTabHasNoBridge, LockHolderAt
  <1> QED BY <1>1, <1>3, <1>4, <1>5, <1>6 DEF Next

\* No step attaches a bridge with a token of an earlier life of the tab.
LEMMA AttachStep ==
  ASSUME TypeOK, LockInv, KindInv, BridgeInv, TokenInv, AttachWithinLife, [Next]_vars
  PROVE  AttachWithinLife'
  <1>0. /\ pc \in [Requests -> Steps] /\ target \in [Requests -> Tabs]
        /\ life \in [Tabs -> Nat] /\ tokenLife \in [Requests -> Nat]
        /\ bridge \in [Requests -> {"none", "open", "closed"}]
    BY DEF TypeOK
  <1> USE <1>0
  <1>1. ASSUME NEW r \in Requests, NEW t \in Tabs,
               Upgrade(r, t) \/ \E k \in LifecycleKinds : Request(r, t, k)
        PROVE  AttachWithinLife'
    <2>1. /\ pc[r] = "unused" /\ bridge[r] = "none" /\ UNCHANGED <<bridge, life>>
          /\ \A q \in Requests : q # r => /\ target'[q] = target[q] /\ pc'[q] = pc[q]
                                         /\ tokenLife'[q] = tokenLife[q]
      BY <1>1 DEF BridgeInv, Upgrade, Request, Goto, storeVars, bridgeVars
    <2> QED BY <2>1 DEF AttachWithinLife, LockHolderAt
  <1>2. ASSUME NEW r \in Requests, Step(r), NEW q \in Requests,
               bridge'[q] = "open", tokenLife[q] # life'[target[q]]
        PROVE  LockHolderAt(target[q], "closingBridge")'
    <2>1. UNCHANGED target
      BY <1>2, CallFrame
    <2>2. CASE life'[target[q]] # life[target[q]]
      <3>1. PersistStop(r)
        BY <1>2, <2>2, CallRecord DEF PersistActive, RemoveTab
      <3> QED BY <2>1, <2>2, <3>1 DEF PersistStop, LockHolderAt, Goto
    <2>3. CASE life'[target[q]] = life[target[q]]
      <3>1. ~SpawnBridge(r) \/ q # r
        BY <1>2, <2>3 DEF TokenInv, TokenOK, KindInv, SpawnBridge
      <3> QED BY <1>2, <2>3, <3>1, HolderKept, CallOpens DEF AttachWithinLife
    <2> QED BY <2>2, <2>3
  <1>3. ASSUME NEW r \in Requests, HandlerStep(r) \/ SocketStep(r) PROVE AttachWithinLife'
    <2>1. \A q \in Requests : bridge'[q] = "open" => bridge[q] = "open"
      BY <1>3, SocketEffect
    <2> QED BY <1>3, <2>1, SocketFrame DEF AttachWithinLife, LockHolderAt
  <1>4. ASSUME UNCHANGED <<life, tokenLife, target, pc, bridge>> PROVE AttachWithinLife'
    BY <1>4 DEF AttachWithinLife, LockHolderAt
  <1>5. ASSUME NEW r \in Requests, Step(r) PROVE AttachWithinLife'
    <2>1. UNCHANGED <<target, tokenLife>>
      BY <1>5, CallFrame
    <2> QED BY <1>2, <1>5, <2>1 DEF AttachWithinLife, LockHolderAt
  <1> QED BY <1>1, <1>3, <1>4, <1>5, TabFrame DEF Next, vars

\* Which steps of a call change a session: those of its own tab only.
LEMMA CallSession ==
  ASSUME TypeOK, LockInv, NEW r \in Requests, Step(r)
  PROVE  \/ UNCHANGED tmux
         \/ /\ KillRuntime(r) \/ Prepare(r) \/ Undo(r)
            /\ \A t \in Tabs : t # target[r] => tmux'[t] = tmux[t]
  <1>0. tmux \in [Tabs -> BOOLEAN] /\ target \in [Requests -> Tabs]
    BY DEF TypeOK
  <1>1. CASE KillRuntime(r) \/ Prepare(r) \/ Undo(r)
    BY <1>0, <1>1 DEF KillRuntime, Prepare, Undo
  <1> QED
    BY <1>1 DEF Step, Begin, Connect, BeginConnect, Refuse, BeginTerminate, BeginRecreate,
         BeginStop, BeginRestartBridge, ProbeTerminate, ProbeRecreate, PersistStop, CloseBridge,
         PersistActive, BumpGeneration, RemoveTab, ForgetGeneration, SpawnBridge, RegisterBridge,
         storeVars

\* No step brings back a session that closeTab has killed.
LEMMA RemovalStep == ASSUME TypeOK, LockInv, RemovalInv, [Next]_vars PROVE RemovalInv'
  <1>0. /\ pc \in [Requests -> Steps] /\ target \in [Requests -> Tabs]
        /\ tmux \in [Tabs -> BOOLEAN]
    BY DEF TypeOK
  <1> USE <1>0
  <1>1. ASSUME NEW r \in Requests, NEW t \in Tabs,
               Upgrade(r, t) \/ \E k \in LifecycleKinds : Request(r, t, k)
        PROVE  RemovalInv'
    BY <1>1 DEF RemovalInv, Upgrade, Request, Goto, storeVars
  <1>2. ASSUME NEW r \in Requests, Step(r) PROVE RemovalInv'
    <2>1. UNCHANGED target /\ \A q \in Requests : q # r => pc'[q] = pc[q]
      BY <1>2, CallFrame, CallLocal
    <2>2. ASSUME NEW q \in Requests, q # r, pc'[q] = "removing" PROVE ~tmux'[target[q]]
      <3>1. pc[q] = "removing" /\ ~tmux[target[q]]
        BY <2>1, <2>2 DEF RemovalInv
      <3>2. target[q] # target[r] \/ Connect(r)
        BY <1>2, <2>2, <3>1, CallExclusive, StepNames
      <3>3. ~Connect(r) \/ UNCHANGED tmux
        BY DEF Connect, storeVars
      <3> QED BY <1>2, <3>1, <3>2, <3>3, CallSession
    <2>3. ASSUME pc'[r] = "removing" PROVE ~tmux'[target[r]]
      <3>1. KillRuntime(r)
        BY <1>2, <2>3 DEF Step, Begin, Connect, BeginConnect, Refuse, BeginTerminate,
             BeginRecreate, BeginStop, BeginRestartBridge, ProbeTerminate, ProbeRecreate,
             PersistStop, CloseBridge, Prepare, PersistActive, BumpGeneration, Undo, RemoveTab,
             ForgetGeneration, SpawnBridge, RegisterBridge, Goto, Finish
      <3> QED BY <2>3, <3>1 DEF KillRuntime, AfterKill, Goto, Finish
    <2> QED BY <2>1, <2>2, <2>3 DEF RemovalInv
  <1>3. ASSUME NEW t \in Tabs, CreateTab(t) \/ ShellExits(t) PROVE RemovalInv'
    BY <1>3, TabFrame DEF RemovalInv, CreateTab, ShellExits
  <1>4. ASSUME UNCHANGED <<pc, target, tmux>> PROVE RemovalInv'
    BY <1>4 DEF RemovalInv
  <1> QED BY <1>1, <1>2, <1>3, <1>4, SocketFrame DEF Next, vars

\* No step leaves a session or a live bridge behind a missing record.
LEMMA RemovedStep ==
  ASSUME TypeOK, LockInv, KindInv, StateInv, BridgeInv, RemovalInv, StoppedTabHasNoBridge,
         RemovedTabLeavesNothing, [Next]_vars
  PROVE  RemovedTabLeavesNothing'
  <1>0. /\ pc \in [Requests -> Steps] /\ target \in [Requests -> Tabs]
        /\ tmux \in [Tabs -> BOOLEAN]
        /\ tabState \in [Tabs -> {"absent", "active", "stopped", "removed"}]
        /\ bridge \in [Requests -> {"none", "open", "closed"}]
    BY DEF TypeOK
  <1> USE <1>0
  <1>1. ASSUME NEW r \in Requests, NEW t \in Tabs,
               Upgrade(r, t) \/ \E k \in LifecycleKinds : Request(r, t, k)
        PROVE  RemovedTabLeavesNothing'
    BY <1>1 DEF RemovedTabLeavesNothing, BridgeInv, Upgrade, Request, Goto, storeVars, bridgeVars
  <1>2. ASSUME NEW r \in Requests, Step(r), NEW t \in Tabs, tabState'[t] \in {"absent", "removed"}
        PROVE  ~tmux'[t] /\ \A q \in Requests : target'[q] = t => bridge'[q] # "open"
    <2>1. UNCHANGED target
      BY <1>2, CallFrame
    <2>2. CASE RemoveTab(r) /\ t = target[r]
      <3>1. tabState[t] = "stopped" /\ ~tmux[t] /\ pc[r] = "removing"
        BY <2>2 DEF RemoveTab, StateInv, StateOK, RemovalInv
      <3>2. \A q \in Requests : target[q] = t => bridge[q] # "open"
        BY <1>2, <2>2, <3>1, CallExclusive, StepNames
           DEF StoppedTabHasNoBridge, LockHolderAt, Connect
      <3> QED BY <2>1, <2>2, <3>1, <3>2 DEF RemoveTab, bridgeVars
    <2>3. CASE ~(RemoveTab(r) /\ t = target[r])
      <3>1. tabState[t] \in {"absent", "removed"}
        BY <1>2, <2>3, CallRecord DEF PersistStop, PersistActive, RemoveTab
      <3>2. ~tmux[t] /\ \A q \in Requests : target[q] = t => bridge[q] # "open"
        BY <3>1 DEF RemovedTabLeavesNothing
      <3>3. ~(Prepare(r) /\ t = target[r]) /\ ~(SpawnBridge(r) /\ t = target[r])
        BY <3>1 DEF StateInv, StateOK, Prepare, SpawnBridge
      <3>4. ~tmux'[t]
        BY <1>2, <3>2, <3>3, CallSession DEF KillRuntime, Undo
      <3> QED BY <1>2, <2>1, <3>2, <3>3, <3>4, CallOpens
    <2> QED BY <2>2, <2>3
  <1>3. ASSUME NEW r \in Requests, HandlerStep(r) \/ SocketStep(r) PROVE RemovedTabLeavesNothing'
    <2>1. \A q \in Requests : bridge'[q] = "open" => bridge[q] = "open"
      BY <1>3, SocketEffect
    <2> QED BY <1>3, <2>1, SocketFrame DEF RemovedTabLeavesNothing
  <1>4. ASSUME NEW t \in Tabs, CreateTab(t) \/ ShellExits(t) PROVE RemovedTabLeavesNothing'
    BY <1>4, TabFrame DEF RemovedTabLeavesNothing, CreateTab, ShellExits
  <1>5. ASSUME UNCHANGED vars PROVE RemovedTabLeavesNothing'
    BY <1>5 DEF RemovedTabLeavesNothing, vars
  <1>6. ASSUME NEW r \in Requests, Step(r) PROVE RemovedTabLeavesNothing'
    BY <1>2, <1>6 DEF RemovedTabLeavesNothing
  <1> QED BY <1>1, <1>3, <1>4, <1>5, <1>6 DEF Next

\* A pty loses its socket without being closed only during its connect.
LEMMA LivePtyStep ==
  ASSUME TypeOK, LockInv, KindInv, BridgeInv, HandlerInv, LivePtyHasSocket, [Next]_vars
  PROVE  LivePtyHasSocket'
  <1>0. /\ bridge \in [Requests -> {"none", "open", "closed"}]
        /\ sock \in [Requests -> {"none", "open", "closing", "closed"}]
        /\ handler \in [Requests -> {"none", "pending", "ready", "removing", "settled"}]
    BY DEF TypeOK
  <1> USE <1>0 DEF LivePtyHasSocket
  <1>1. ASSUME NEW r \in Requests, NEW t \in Tabs,
               Upgrade(r, t) \/ \E k \in LifecycleKinds : Request(r, t, k)
        PROVE  LivePtyHasSocket'
    BY <1>1 DEF Upgrade, Request, bridgeVars, socketVars
  <1>2. ASSUME NEW r \in Requests, Step(r), NEW q \in Requests, bridge'[q] = "open", sock'[q] = "closed"
        PROVE  handler[q] = "pending"
    <2>1. sock[q] = "closed"
      <3>1. CASE CloseBridge(r) \/ RegisterBridge(r)
        BY <1>2, <3>1 DEF CloseBridge, RegisterBridge, Shutdown
      <3>2. CASE SpawnBridge(r)
        BY <1>2, <3>2 DEF SpawnBridge, CloseSocket
      <3> QED BY <1>2, <3>1, <3>2, PlainStep
    <2>2. CASE bridge[q] = "open"
      BY <2>1, <2>2
    <2>3. CASE q = r /\ SpawnBridge(r)
      BY <2>3 DEF SpawnBridge, KindInv, HandlerInv
    <2> QED BY <1>2, <2>2, <2>3, CallOpens
  <1>3. ASSUME NEW r \in Requests, HandlerStep(r) \/ SocketStep(r) PROVE LivePtyHasSocket'
    <2>1. bridge'[r] = "open" /\ sock'[r] = "closed" => handler'[r] = "pending"
      <3> USE DEF SocketEnded, CloseSocket, Shutdown, socketVars, bridgeVars
      <3>1. CASE ConnectionResolved(r)
        BY <3>1 DEF ConnectionResolved
      <3>2. CASE ConnectionRejected(r)
        BY <3>2 DEF ConnectionRejected, BridgeInv
      <3>3. CASE RegistryRemove(r)
        BY <3>3 DEF RegistryRemove
      <3>4. CASE SocketClosed(r) \/ SocketError(r)
        BY <3>4 DEF SocketClosed, SocketError
      <3>5. CASE BridgeEnds(r)
        BY <3>5 DEF BridgeEnds
      <3>6. CASE SessionExpires(r) \/ RevokeSocket(r)
        BY <3>6 DEF SessionExpires, RevokeSocket
      <3> QED BY <1>3, <3>1, <3>2, <3>3, <3>4, <3>5, <3>6 DEF HandlerStep, SocketStep
    <2> QED BY <1>3, <2>1, SocketEffect
  <1>4. ASSUME NEW r \in Requests, Step(r) PROVE LivePtyHasSocket'
    BY <1>2, <1>4, CallFrame
  <1>5. ASSUME UNCHANGED <<bridge, sock, handler>> PROVE LivePtyHasSocket'
    BY <1>5
  <1> QED BY <1>1, <1>3, <1>4, <1>5, TabFrame DEF Next, vars

\* What a step of a call does to the generations.
LEMMA CallGeneration ==
  ASSUME NEW r \in Requests, Step(r)
  PROVE  \/ UNCHANGED <<gen, clock>> /\ ~BumpGeneration(r)
         \/ IncrementGeneration(target[r])
         \/ gen' = [gen EXCEPT ![target[r]] = 0] /\ UNCHANGED clock /\ ~BumpGeneration(r)
  BY DEF Step, Begin, Connect, BeginConnect, Refuse, BeginTerminate, BeginRecreate, BeginStop,
         BeginRestartBridge, ProbeTerminate, ProbeRecreate, PersistStop, CloseBridge, KillRuntime,
         Prepare, PersistActive, BumpGeneration, Undo, RemoveTab, ForgetGeneration, SpawnBridge,
         RegisterBridge, Starts, genVars

\* A connect reaches its steps under the lock one after the other.
LEMMA ConnectPath ==
  ASSUME TypeOK, LockInv, KindInv, NEW r \in Requests, Step(r), kind[r] = "connect",
         pc'[r] \in {"preparing", "closingBridge", "spawning", "registering"}
  PROVE  \/ TokenIsCurrent(r) /\ Running(r) /\ pc[r] = "queued"
         \/ pc[r] \in {"preparing", "closingBridge", "spawning"}
  <1>0. pc \in [Requests -> Steps]
    BY DEF TypeOK
  <1> USE <1>0 DEF KindInv, Goto, Finish, Starts, StopKinds
  <1>1. CASE Connect(r) \/ BeginConnect(r) \/ Refuse(r) \/ BeginTerminate(r)
    BY <1>1 DEF Connect, BeginConnect, Refuse, BeginTerminate
  <1>2. CASE BeginRecreate(r) \/ BeginStop(r) \/ BeginRestartBridge(r)
    BY <1>2 DEF BeginRecreate, BeginStop, BeginRestartBridge
  <1>3. CASE ProbeTerminate(r) \/ ProbeRecreate(r) \/ PersistStop(r)
    BY <1>3 DEF ProbeTerminate, ProbeRecreate, PersistStop
  <1>4. CASE CloseBridge(r) \/ KillRuntime(r) \/ Prepare(r) \/ PersistActive(r)
    BY <1>4 DEF CloseBridge, KillRuntime, AfterKill, Prepare, PersistActive
  <1>5. CASE BumpGeneration(r) \/ Undo(r) \/ RemoveTab(r) \/ ForgetGeneration(r)
    BY <1>5 DEF BumpGeneration, Undo, RemoveTab, ForgetGeneration
  <1>6. CASE SpawnBridge(r) \/ RegisterBridge(r)
    BY <1>6 DEF SpawnBridge, RegisterBridge
  <1> QED BY <1>1, <1>2, <1>3, <1>4, <1>5, <1>6 DEF Step, Begin

\* A token that is current under the lock was issued in the current life.
LEMMA TokenStep ==
  ASSUME TypeOK, LockInv, KindInv, StateInv, TokenInv, [Next]_vars PROVE TokenInv'
  <1>0. /\ pc \in [Requests -> Steps] /\ target \in [Requests -> Tabs]
        /\ kind \in [Requests -> Kinds] /\ token \in [Requests -> Nat]
        /\ life \in [Tabs -> Nat] /\ tokenLife \in [Requests -> Nat]
        /\ gen \in [Tabs -> Nat] /\ clock \in Nat
        /\ tabState \in [Tabs -> {"absent", "active", "stopped", "removed"}]
    BY DEF TypeOK
  <1> USE <1>0
  <1>1. ASSUME NEW r \in Requests, NEW t \in Tabs, Upgrade(r, t) PROVE TokenInv'
    <2>1. /\ UNCHANGED <<tabState, life>> /\ pc[r] = "unused" /\ pc'[r] = "authorized"
          /\ \A q \in Requests : q # r => /\ target'[q] = target[q] /\ pc'[q] = pc[q]
                /\ tokenLife'[q] = tokenLife[q] /\ token'[q] = token[q] /\ kind'[q] = kind[q]
          /\ target'[r] = t /\ tokenLife'[r] = life[t] /\ token'[r] = gen'[t]
      BY <1>1 DEF Upgrade, Goto, storeVars
    <2>2. /\ clock' \in Nat /\ clock <= clock' /\ gen' \in [Tabs -> Nat]
          /\ \A u \in Tabs : gen'[u] = gen[u] \/ gen'[u] = clock + 1
          /\ \A u \in Tabs : gen'[u] <= clock'
          /\ 0 < gen'[t]
      BY <1>1 DEF Upgrade, IncrementGeneration, genVars, TokenInv
    <2>3. ASSUME NEW q \in Requests, q # r, kind'[q] = "connect" PROVE TokenOK(q)'
      <3>1. TokenOK(q)
        BY <2>1, <2>3 DEF TokenInv
      <3>2. TokenIsCurrent(q)' => TokenIsCurrent(q)
        BY <2>1, <2>2, <2>3, <3>1 DEF TokenIsCurrent, TokenOK
      <3>3. LockHolderAt(target[q], "bumping") => LockHolderAt(target[q], "bumping")'
        BY <2>1, <2>3 DEF LockHolderAt
      <3> QED BY <2>1, <2>2, <2>3, <3>1, <3>2, <3>3 DEF TokenOK, LockHolderAt
    <2>4. TokenOK(r)'
      BY <2>1, <2>2 DEF TokenOK
    <2> QED BY <2>2, <2>3, <2>4 DEF TokenInv
  <1>2. ASSUME NEW r \in Requests, NEW t \in Tabs, NEW k \in LifecycleKinds, Request(r, t, k)
        PROVE  TokenInv'
    <2>1. /\ UNCHANGED <<tabState, life, gen, clock, token, tokenLife>> /\ pc[r] = "unused"
          /\ \A q \in Requests : q # r => target'[q] = target[q] /\ pc'[q] = pc[q] /\ kind'[q] = kind[q]
          /\ kind'[r] # "connect"
      BY <1>2 DEF Request, storeVars, genVars, LifecycleKinds, StopKinds
    <2>2. ASSUME NEW q \in Requests, q # r, kind'[q] = "connect" PROVE TokenOK(q)'
      BY <2>1, <2>2 DEF TokenInv, TokenOK, TokenIsCurrent, LockHolderAt
    <2> QED BY <2>1, <2>2 DEF TokenInv
  <1>3. ASSUME NEW r \in Requests, Step(r) PROVE TokenInv'
    <2>1. /\ UNCHANGED <<kind, target, token, tokenLife>>
          /\ \A q \in Requests : q # r => pc'[q] = pc[q]
      BY <1>3, CallFrame, CallLocal
    <2>2. /\ clock' \in Nat /\ clock <= clock' /\ gen' \in [Tabs -> Nat]
          /\ \A u \in Tabs : gen'[u] = gen[u] \/ gen'[u] = clock + 1 \/ gen'[u] = 0
          /\ \A u \in Tabs : gen'[u] <= clock'
      BY <1>3, CallGeneration DEF IncrementGeneration, TokenInv
    <2>3. BumpGeneration(r) => gen'[target[r]] = clock + 1
      BY DEF BumpGeneration, IncrementGeneration
    <2>4. ASSUME NEW q \in Requests, kind[q] = "connect" PROVE TokenOK(q)'
      <3>1. TokenOK(q)
        BY <2>4 DEF TokenInv
      <3>2. 0 < token'[q] /\ token'[q] <= clock'
        BY <2>1, <2>2, <3>1 DEF TokenOK
      <3>3. ASSUME TokenIsCurrent(q)', ~LockHolderAt(target[q], "bumping")'
            PROVE  tokenLife[q] = life'[target[q]]
        <4>1. gen'[target[q]] = gen[target[q]] /\ token[q] = gen[target[q]]
          BY <2>1, <2>2, <3>1, <3>3 DEF TokenIsCurrent, TokenOK
        <4>2. tabState[target[q]] = "active" /\ life'[target[q]] = life[target[q]]
          <5>1. CASE UNCHANGED <<tabState, life>>
            BY <2>1, <3>3, <5>1 DEF TokenIsCurrent
          <5>2. CASE PersistStop(r)
            BY <2>1, <3>3, <5>2 DEF TokenIsCurrent, PersistStop
          <5>3. CASE PersistActive(r)
            BY <2>1, <3>3, <5>3 DEF TokenIsCurrent, PersistActive, LockHolderAt, Goto
          <5>4. CASE RemoveTab(r)
            BY <2>1, <3>3, <5>4 DEF TokenIsCurrent, RemoveTab
          <5> QED BY <1>3, <5>1, <5>2, <5>3, <5>4, CallRecord
        <4>3. ~LockHolderAt(target[q], "bumping")
          <5>1. SUFFICES ASSUME NEW h \in Requests, target[h] = target[q], pc[h] = "bumping"
                         PROVE  FALSE
            BY DEF LockHolderAt
          <5>2. h = r
            BY <2>1, <3>3, <5>1 DEF LockHolderAt
          <5>3. BumpGeneration(r)
            BY <1>3, <5>1, <5>2 DEF Step, Begin, Connect, Starts, BeginConnect, Refuse,
                 BeginTerminate, BeginRecreate, BeginStop, BeginRestartBridge, ProbeTerminate,
                 ProbeRecreate, PersistStop, CloseBridge, KillRuntime, Prepare, PersistActive,
                 Undo, RemoveTab, ForgetGeneration, SpawnBridge, RegisterBridge
          <5> QED BY <2>3, <3>1, <4>1, <5>1, <5>2, <5>3 DEF TokenOK
        <4> QED BY <3>1, <4>1, <4>2, <4>3 DEF TokenOK, TokenIsCurrent
      <3>4. ASSUME pc'[q] \in {"preparing", "closingBridge", "spawning", "registering"}
            PROVE  tokenLife[q] = life'[target[q]]
        <4>1. CASE q # r
          <5>1. tokenLife[q] = life[target[q]] /\ pc[q] \in LockedSteps
            BY <2>1, <3>1, <3>4, <4>1, StepNames DEF TokenOK
          <5>2. ~(PersistStop(r) /\ target[q] = target[r])
            BY <1>3, <4>1, <5>1, CallExclusive DEF PersistStop, Connect
          <5> QED BY <1>3, <5>1, <5>2, CallRecord DEF PersistStop, PersistActive, RemoveTab
        <4>2. CASE q = r
          <5>1. tokenLife[r] = life[target[r]]
            <6>1. CASE TokenIsCurrent(r) /\ Running(r) /\ pc[r] = "queued"
              <7>1. ~LockHolderAt(target[r], "bumping")
                BY <6>1, Exclusive, StepNames DEF LockHolderAt
              <7> QED BY <3>1, <4>2, <6>1, <7>1 DEF TokenOK
            <6>2. CASE pc[r] \in {"preparing", "closingBridge", "spawning"}
              BY <3>1, <4>2, <6>2 DEF TokenOK
            <6> QED BY <1>3, <2>4, <3>4, <4>2, <6>1, <6>2, ConnectPath
          <5>2. ~PersistStop(r)
            BY <2>4, <4>2 DEF PersistStop, KindInv, StopKinds
          <5> QED BY <1>3, <4>2, <5>1, <5>2, CallRecord DEF PersistActive, RemoveTab
        <4> QED BY <4>1, <4>2
      <3> QED BY <2>1, <3>2, <3>3, <3>4 DEF TokenOK, LockHolderAt
    <2> QED BY <2>1, <2>2, <2>4 DEF TokenInv
  <1>4. ASSUME NEW t \in Tabs, CreateTab(t) \/ ShellExits(t) PROVE TokenInv'
    <2>1. \A q \in Requests : kind[q] = "connect" =>
             tabState'[target[q]] = tabState[target[q]]
      BY <1>4 DEF CreateTab, ShellExits, StateInv, StateOK
    <2>2. UNCHANGED <<life, gen, clock, pc, kind, target, token, tokenLife>>
      BY <1>4, TabFrame
    <2>3. ASSUME NEW q \in Requests, kind[q] = "connect" PROVE TokenOK(q)'
      BY <2>1, <2>2, <2>3 DEF TokenInv, TokenOK, TokenIsCurrent, LockHolderAt
    <2> QED BY <2>2, <2>3 DEF TokenInv
  <1>5. ASSUME UNCHANGED <<tabState, life, gen, clock, pc, kind, target, token, tokenLife>>
        PROVE  TokenInv'
    BY <1>5 DEF TokenInv, TokenOK, TokenIsCurrent, LockHolderAt
  <1> QED BY <1>1, <1>2, <1>3, <1>4, <1>5, SocketFrame DEF Next, vars

-----------------------------------------------------------------------------
(***************************************************************************)
(* The theorems.                                                           *)
(***************************************************************************)

\* The state after a start of the server satisfies the invariant.
LEMMA InitIInv == ASSUME Init PROVE IInv
  <1>1. TypeOK
    <2>1. (CHOOSE t \in Tabs : TRUE) \in Tabs
      BY TabsAssumption
    <2>2. "unused" \in Steps /\ "none" \in Kinds
      BY DEF Steps, Kinds
    <2>3. /\ tabState \in [Tabs -> {"absent", "active", "stopped", "removed"}]
          /\ tmux \in [Tabs -> BOOLEAN] /\ gen \in [Tabs -> Nat] /\ clock \in Nat
          /\ queue \in [Tabs -> Seq(Requests)]
      BY DEF Init
    <2>4. /\ kind \in [Requests -> Kinds] /\ target \in [Requests -> Tabs] /\ pc \in [Requests -> Steps]
          /\ token \in [Requests -> Nat] /\ tokenLife \in [Requests -> Nat] /\ life \in [Tabs -> Nat]
      BY <2>1, <2>2 DEF Init
    <2> QED BY <2>3, <2>4 DEF Init, TypeOK
  <1>2. LockInv /\ KindInv /\ StateInv /\ RemovalInv
    BY DEF Init, LockInv, LockedSteps, KindInv, StateInv, StateOK, RemovalInv
  <1>3. BridgeInv /\ HandlerInv
    BY DEF Init, BridgeInv, HandlerInv
  <1>5. TokenInv
    BY DEF Init, TokenInv
  <1>4. StoppedTabHasNoBridge /\ AttachWithinLife /\ RemovedTabLeavesNothing /\ LivePtyHasSocket
    BY DEF Init, StoppedTabHasNoBridge, AttachWithinLife, RemovedTabLeavesNothing, LivePtyHasSocket
  <1> QED BY <1>1, <1>2, <1>3, <1>4, <1>5 DEF IInv

\* Every step preserves the inductive invariant.
LEMMA NextIInv == ASSUME IInv, [Next]_vars PROVE IInv'
  <1> USE DEF IInv
  <1>1. TypeOK' /\ LockInv' /\ KindInv'
    BY TypeStep, LockStep, KindStep
  <1>2. StateInv' /\ BridgeInv' /\ HandlerInv'
    BY StateStep, BridgeStep, HandlerInvStep
  <1>3. TokenInv' /\ RemovalInv'
    BY TokenStep, RemovalStep
  <1>4. StoppedTabHasNoBridge' /\ AttachWithinLife'
    BY StoppedStep, AttachStep
  <1>5. RemovedTabLeavesNothing' /\ LivePtyHasSocket'
    BY RemovedStep, LivePtyStep
  <1> QED BY <1>1, <1>2, <1>3, <1>4, <1>5

\* IInv is an invariant: every interleaving of calls, handlers and sockets
\* keeps the assumptions each suspended operation relies on.
THEOREM Invariance == Spec => []IInv
  <1>1. Init => IInv
    BY InitIInv
  <1>2. IInv /\ [Next]_vars => IInv'
    BY NextIInv
  <1> QED BY <1>1, <1>2, PTL DEF Spec

\* The state of the manager is always well-formed; in particular the lock of a
\* tab is only released by the operation that holds it.
THEOREM TypeCorrect == Spec => []TypeOK
  <1>1. IInv => TypeOK
    BY DEF IInv
  <1> QED BY <1>1, Invariance, PTL

\* For any number of tabs, sockets and operations a tab never has two live
\* bridges: attach closes the registered one before it spawns a pty.
THEOREM AtMostOneBridge == Spec => []OneBridgePerTab
  <1>1. IInv => OneBridgePerTab
    <2>1. SUFFICES ASSUME IInv, NEW r \in Requests, NEW s \in Requests,
                          bridge[r] = "open", bridge[s] = "open", target[r] = target[s]
                   PROVE  r = s
      BY DEF OneBridgePerTab
    <2>2. CASE pc[r] = "registering" /\ pc[s] = "registering"
      BY <2>1, <2>2, Exclusive, StepNames DEF IInv, LockInv
    <2>3. CASE pc[r] = "succeeded" \/ pc[s] = "succeeded"
      BY <2>1, <2>3, NoRequestAssumption DEF IInv, BridgeInv
    <2> QED BY <2>1, <2>2, <2>3 DEF IInv, BridgeInv
  <1> QED BY <1>1, Invariance, PTL

\* A live bridge can always be reached through the registry, so that stopping
\* its tab closes it.
THEOREM BridgesAreRegistered == Spec => []LiveBridgeIsRegistered
  <1>1. IInv => LiveBridgeIsRegistered
    BY DEF IInv, BridgeInv, LiveBridgeIsRegistered
  <1> QED BY <1>1, Invariance, PTL

\* No connect attaches to a tab whose stop has been committed and carried out.
THEOREM StoppedStaysDetached == Spec => []StoppedTabHasNoBridge
  <1>1. IInv => StoppedTabHasNoBridge
    BY DEF IInv
  <1> QED BY <1>1, Invariance, PTL

\* No connect authorized before a stop attaches after the tab is active again.
THEOREM TokensDieWithTheirLife == Spec => []AttachWithinLife
  <1>1. IInv => AttachWithinLife
    BY DEF IInv
  <1> QED BY <1>1, Invariance, PTL

\* A removed tab has neither a tmux session nor a live bridge.
THEOREM RemovalIsComplete == Spec => []RemovedTabLeavesNothing
  <1>1. IInv => RemovedTabLeavesNothing
    BY DEF IInv
  <1> QED BY <1>1, Invariance, PTL

\* A pty without a socket exists only while its connection handler still has
\* to look at the result of connect.
THEOREM NoForgottenPty == Spec => []LivePtyHasSocket
  <1>1. IInv => LivePtyHasSocket
    BY DEF IInv
  <1> QED BY <1>1, Invariance, PTL

\* No step of the manager kills the session of a tab recorded as active.
THEOREM ActiveShellSurvives == Spec => ActiveShellNeverKilled
  <1>1. ASSUME IInv, [Next]_vars
        PROVE  [\A t \in Tabs : tabState[t] = "active" /\ tmux[t] /\ ~tmux'[t] => ShellExits(t)]_vars
    <2>0. /\ tmux \in [Tabs -> BOOLEAN] /\ target \in [Requests -> Tabs]
          /\ tabState \in [Tabs -> {"absent", "active", "stopped", "removed"}]
      BY <1>1 DEF IInv, TypeOK
    <2>1. SUFFICES ASSUME Next, NEW t \in Tabs, tabState[t] = "active", tmux[t], ~tmux'[t]
                   PROVE  ShellExits(t)
      BY <1>1
    <2>2. ASSUME NEW r \in Requests, Step(r) PROVE FALSE
      <3>1. (KillRuntime(r) \/ Prepare(r) \/ Undo(r)) /\ t = target[r]
        BY <1>1, <2>1, <2>2, CallSession DEF IInv
      <3>2. Prepare(r)
        BY <1>1, <2>1, <3>1 DEF IInv, StateInv, StateOK, KillRuntime, Undo
      <3> QED BY <2>0, <2>1, <3>1, <3>2 DEF Prepare
    <2>3. ASSUME NEW r \in Requests, HandlerStep(r) \/ SocketStep(r) PROVE FALSE
      BY <2>1, <2>3, SocketFrame
    <2>4. ASSUME NEW u \in Tabs, CreateTab(u) \/ ShellExits(u) PROVE u = t /\ ShellExits(u)
      BY <2>0, <2>1, <2>4 DEF CreateTab, ShellExits
    <2>5. ASSUME NEW r \in Requests, NEW u \in Tabs,
                 Upgrade(r, u) \/ \E k \in LifecycleKinds : Request(r, u, k)
          PROVE  FALSE
      BY <2>1, <2>5 DEF Upgrade, Request, storeVars
    <2> QED BY <2>1, <2>2, <2>3, <2>4, <2>5 DEF Next
  <1> QED BY <1>1, Invariance, PTL DEF Spec, ActiveShellNeverKilled

\* terminate never reports success for a tab that is not fully stopped.
THEOREM TerminateIsHonest == Spec => TerminateSucceedsWhenStopped
  <1>1. ASSUME IInv, Next, NEW r \in Requests, kind[r] = "terminate",
               pc[r] # "succeeded", pc'[r] = "succeeded"
        PROVE  /\ tabState'[target[r]] = "stopped"
               /\ ~tmux'[target[r]]
               /\ \A s \in Requests : target[s] = target[r] => bridge'[s] # "open"
    <2>0. /\ pc \in [Requests -> Steps] /\ tmux \in [Tabs -> BOOLEAN] /\ target \in [Requests -> Tabs]
          /\ bridge \in [Requests -> {"none", "open", "closed"}]
      BY <1>1 DEF IInv, TypeOK
    <2>1. Step(r)
      <3>1. ASSUME NEW q \in Requests, Step(q) PROVE q = r
        BY <1>1, <3>1, CallLocal DEF IInv
      <3>2. ASSUME NEW q \in Requests, NEW t \in Tabs,
                   Upgrade(q, t) \/ \E k \in LifecycleKinds : Request(q, t, k)
            PROVE  FALSE
        BY <1>1, <2>0, <3>2 DEF Upgrade, Request, Goto
      <3> QED BY <1>1, <3>1, <3>2, TabFrame, SocketFrame DEF Next
    <2>2. ProbeTerminate(r) \/ KillRuntime(r)
      <3> USE <1>1, <2>0 DEF IInv, KindInv, Goto, Finish, Starts
      <3>1. ~Connect(r) /\ ~Begin(r)
        BY DEF Connect, Begin, BeginConnect, Refuse, BeginTerminate, BeginRecreate, BeginStop, BeginRestartBridge
      <3>2. ~ProbeRecreate(r) /\ ~PersistStop(r) /\ ~CloseBridge(r) /\ ~Prepare(r) /\ ~PersistActive(r)
        BY DEF ProbeRecreate, PersistStop, CloseBridge, StopKinds, Prepare, PersistActive
      <3>3. ~BumpGeneration(r) /\ ~Undo(r) /\ ~RemoveTab(r) /\ ~ForgetGeneration(r)
        BY DEF BumpGeneration, Undo, RemoveTab, ForgetGeneration
      <3>4. ~SpawnBridge(r) /\ ~RegisterBridge(r)
        BY DEF SpawnBridge, RegisterBridge
      <3> QED BY <2>1, <3>1, <3>2, <3>3, <3>4 DEF Step
    <2>3. /\ UNCHANGED <<tabState, bridge>> /\ ~tmux'[target[r]]
          /\ pc[r] \in {"probing", "killing"} /\ tabState[target[r]] = "stopped"
      <3>1. UNCHANGED <<tabState, bridge>> /\ pc[r] \in {"probing", "killing"}
        BY <2>2 DEF ProbeTerminate, KillRuntime, storeVars, bridgeVars
      <3>2. tabState[target[r]] = "stopped"
        BY <1>1, <3>1 DEF IInv, StateInv, StateOK
      <3>3. ~tmux'[target[r]]
        BY <1>1, <2>0, <2>2 DEF ProbeTerminate, KillRuntime, Goto, Finish, storeVars
      <3> QED BY <3>1, <3>2, <3>3
    <2>4. \A s \in Requests : target[s] = target[r] => bridge[s] # "open"
      <3>1. ~LockHolderAt(target[r], "closingBridge")
        BY <1>1, <2>1, <2>3, CallExclusive, StepNames DEF IInv, LockHolderAt, Connect
      <3> QED BY <1>1, <2>3, <3>1 DEF IInv, StoppedTabHasNoBridge
    <2> QED BY <2>3, <2>4
  <1>2. IInv /\ [Next]_vars =>
          [\A r \in Requests :
             kind[r] = "terminate" /\ pc[r] # "succeeded" /\ pc'[r] = "succeeded" =>
                /\ tabState'[target[r]] = "stopped"
                /\ ~tmux'[target[r]]
                /\ \A s \in Requests : target[s] = target[r] => bridge'[s] # "open"]_vars
    BY <1>1
  <1> QED BY <1>2, Invariance, PTL DEF Spec, TerminateSucceedsWhenStopped

=============================================================================
