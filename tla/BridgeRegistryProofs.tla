------------------------ MODULE BridgeRegistryProofs ------------------------
(***************************************************************************)
(* Proofs about the bridge registry (bridge-registry.ts), for any sessions,*)
(* owners and calls.  OwnersAreKept is inductive: the four properties a    *)
(* caller relies on follow from the serial queues, from the owner an       *)
(* operation read before its await still being registered after it, and    *)
(* from closeAll waiting for the last operation of every queue.            *)
(***************************************************************************)
EXTENDS BridgeRegistry, TLAPS

Began  == {"closingPrior", "closingOwner"}
Active == {"queued", "closingPrior", "closingOwner", "closingRejected"}

\* What the fields of a request are, for each operation of the registry.
LEMMA RequestFields ==
    ASSUME NEW r \in Request
    PROVE  /\ r.session \in Sessions
           /\ r.op \in {"replace", "remove", "close"}
           /\ r.op # "close" => r.owner \in Owners
BY DEF Request

\* How the end of an operation changes the queues: the head of its session's
\* queue is dropped when it is the call, and nothing else moves.
LEMMA FinishShift ==
    ASSUME TypeOK, NEW c \in Calls, Session(c) \in Sessions,
           NEW x, Finish(c, x), NEW s \in Sessions
    PROVE  /\ queue'[s] \in Seq(Calls)
           /\ \/ queue'[s] = queue[s]
              \/ /\ s = Session(c) /\ Len(queue[s]) > 0 /\ queue[s][1] = c
                 /\ queue'[s] = Tail(queue[s])
                 /\ Len(queue'[s]) = Len(queue[s]) - 1
                 /\ \A i \in 1..Len(queue'[s]) : queue'[s][i] = queue[s][i+1]
           /\ s = Session(c) /\ queue[s] # <<>> /\ queue[s][1] = c => queue'[s] = Tail(queue[s])
<1>1. queue[s] \in Seq(Calls) /\ queue \in [Sessions -> Seq(Calls)]  BY DEF TypeOK
<1>2. CASE queue[Session(c)] # <<>> /\ Head(queue[Session(c)]) = c
  <2>1. queue'[s] = IF s = Session(c) THEN Tail(queue[s]) ELSE queue[s]
    BY <1>1, <1>2 DEF Finish
  <2>2. queue[s] # <<>> => Head(queue[s]) = queue[s][1] /\ Len(queue[s]) > 0
    BY <1>1
  <2>3. QED  BY <1>1, <1>2, <2>1, <2>2
<1>3. CASE ~(queue[Session(c)] # <<>> /\ Head(queue[Session(c)]) = c)
  BY <1>1, <1>3 DEF Finish
<1>4. QED  BY <1>2, <1>3

\* A call that waits in a queue, or has begun, has a request with a session,
\* and the owner it read is one of the owners.
LEMMA CallFacts ==
    ASSUME OwnersAreKept, NEW c \in Calls, pc[c] # "unused"
    PROVE  /\ request[c] \in Request
           /\ Session(c) \in Sessions
           /\ request[c].op # "close" => Owner(c) \in Owners
           /\ request[c].op \in {"replace", "remove", "close"}
           /\ pc[c] \in Began => prior[c] \in Owners /\ owners[Session(c)] = prior[c]
<1>1. request[c] \in Request  BY DEF OwnersAreKept, CallsMatchRequests
<1>2. pc[c] \in Began => prior[c] \in Owners /\ owners[Session(c)] = prior[c]
  BY DEF OwnersAreKept, PriorStaysRegistered, TypeOK, Began
<1>3. QED  BY <1>1, <1>2, RequestFields DEF Session, Owner

\* A call that runs is the head of its session's queue, and the shutdown has
\* not passed its barrier.
LEMMA RunnerIsHead ==
    ASSUME OwnersAreKept, NEW c \in Calls,
           \/ pc[c] = "queued" /\ Head(queue[Session(c)]) = c
           \/ pc[c] \in Began
    PROVE  /\ Session(c) \in Sessions
           /\ queue[Session(c)] # <<>>
           /\ queue[Session(c)][1] = c
           /\ shutdown \in {"none", "draining"}
<1>1. Session(c) \in Sessions /\ queue[Session(c)] \in Seq(Calls)
  BY CallFacts DEF OwnersAreKept, TypeOK, Began
<1>2. PICK i \in 1..Len(queue[Session(c)]) : queue[Session(c)][i] = c
  BY DEF OwnersAreKept, QueuesAreSerial, Began
<1>3. queue[Session(c)] # <<>> /\ Head(queue[Session(c)]) = queue[Session(c)][1]
  BY <1>1, <1>2
<1>4. pc[c] \in Began => i = 1
  BY <1>1, <1>2 DEF OwnersAreKept, QueuesAreSerial, Began
<1>5. shutdown \in {"none", "draining"}
  BY <1>1, <1>3 DEF OwnersAreKept, ShutdownCoversAll, TypeOK
<1>6. QED  BY <1>1, <1>2, <1>3, <1>4, <1>5

\* No step takes a request back.
LEMMA RequestsStay ==
    ASSUME OwnersAreKept, [Next]_vars, NEW c \in Calls, pc[c] # "unused"
    PROVE  request'[c] = request[c] /\ pc'[c] # "unused"
<1> USE DEF Finish, Goto, callVars, shutdownVars
<1>0. pc \in [Calls -> {"unused"} \cup Waiting \cup Settled] /\ request \in [Calls -> Request \cup {None}]
  BY DEF OwnersAreKept, TypeOK
<1>1. ASSUME NEW d \in Calls, NEW r \in Request, Invoke(d, r) PROVE request'[c] = request[c] /\ pc'[c] # "unused"
  BY <1>0, <1>1 DEF Invoke
<1>2. ASSUME NEW d \in Calls, CallStep(d) PROVE request'[c] = request[c] /\ pc'[c] # "unused"
  BY <1>0, <1>2 DEF CallStep, BeginReplace, PriorSettles, RejectedOwnerSettles, Remove, BeginClose,
       OwnerSettles, PassBarrier
<1>3. CASE CloseAll \/ ShutdownStep \/ UNCHANGED vars
  BY <1>0, <1>3 DEF CloseAll, ShutdownStep, Drained, ShutdownOwnerSettles, ShutdownEnds, vars
<1>4. QED  BY <1>1, <1>2, <1>3 DEF Next

\* An owner whose close has settled stays settled, and a closing owner never
\* becomes live again.
LEMMA LifeOnlyEnds ==
    ASSUME OwnersAreKept, [Next]_vars, NEW o \in Owners
    PROVE  /\ life[o] \in {"closed", "failed"} => life'[o] \in {"closed", "failed"}
           /\ life'[o] = "live" => life[o] = "live"
           /\ life' \in [Owners -> {"live", "closing", "closed", "failed"}]
<1> DEFINE Goal == /\ life[o] \in {"closed", "failed"} => life'[o] \in {"closed", "failed"}
                   /\ life'[o] = "live" => life[o] = "live"
                   /\ life' \in [Owners -> {"live", "closing", "closed", "failed"}]
<1>0. life \in [Owners -> {"live", "closing", "closed", "failed"}]
  BY DEF OwnersAreKept, TypeOK
<1>a. ASSUME NEW O, StartClose(O) PROVE Goal  BY <1>0, <1>a DEF StartClose
<1>b. ASSUME NEW p \in Owners, Closes(p) \/ Rejects(p) PROVE Goal  BY <1>0, <1>b DEF Closes, Rejects
<1>c. ASSUME UNCHANGED life PROVE Goal  BY <1>0, <1>c
<1> HIDE DEF Goal
<1>1. ASSUME NEW d \in Calls, NEW r \in Request, Invoke(d, r) PROVE Goal
  BY <1>c, <1>1 DEF Invoke
<1>2. ASSUME NEW d \in Calls, CallStep(d) PROVE Goal
  <2>1. CASE BeginReplace(d)  BY <2>1, <1>a, <1>c DEF BeginReplace
  <2>2. CASE PriorSettles(d)
    <3>1. pc[d] = "closingPrior" /\ prior[d] \in Owners /\ Owner(d) \in Owners
      BY <2>2, CallFacts DEF PriorSettles, Began, OwnersAreKept, CallsMatchRequests
    <3>2. CASE Closes(prior[d])  BY <3>1, <3>2, <1>b
    <3>3. CASE life' = [life EXCEPT ![prior[d]] = "failed",
                                    ![Owner(d)] = IF @ = "live" THEN "closing" ELSE @]
      BY <3>1, <3>3, <1>0 DEF Goal
    <3>4. QED  BY <2>2, <3>2, <3>3 DEF PriorSettles
  <2>3. CASE RejectedOwnerSettles(d)
    <3>1. Owner(d) \in Owners
      BY <2>3, CallFacts DEF RejectedOwnerSettles, OwnersAreKept, CallsMatchRequests
    <3>2. QED  BY <3>1, <2>3, <1>b DEF RejectedOwnerSettles
  <2>4. CASE Remove(d)  BY <2>4, <1>c DEF Remove
  <2>5. CASE BeginClose(d)  BY <2>5, <1>a, <1>c DEF BeginClose
  <2>6. CASE OwnerSettles(d)
    <3>1. prior[d] \in Owners  BY <2>6, CallFacts DEF OwnerSettles, Began
    <3>2. QED  BY <3>1, <2>6, <1>b DEF OwnerSettles
  <2>7. CASE PassBarrier(d)  BY <2>7, <1>a, <1>c DEF PassBarrier
  <2>8. QED  BY <1>2, <2>1, <2>2, <2>3, <2>4, <2>5, <2>6, <2>7 DEF CallStep
<1>3. ASSUME CloseAll \/ ShutdownEnds \/ UNCHANGED vars PROVE Goal
  BY <1>3, <1>c DEF CloseAll, ShutdownEnds, vars
<1>4. ASSUME Drained PROVE Goal  BY <1>4, <1>a DEF Drained
<1>5. ASSUME NEW s \in Sessions, ShutdownOwnerSettles(s) PROVE Goal
  <2>1. owners[s] \in Owners
    BY <1>5 DEF ShutdownOwnerSettles, OwnersAreKept, ShutdownCoversAll, TypeOK
  <2>2. QED  BY <2>1, <1>5, <1>b DEF ShutdownOwnerSettles
<1>6. QED  BY <1>1, <1>2, <1>3, <1>4, <1>5 DEF Next, ShutdownStep, Goal

\* The end of an operation leaves the queues well typed.
LEMMA FinishType ==
    ASSUME TypeOK, NEW c \in Calls, Session(c) \in Sessions, NEW x, Finish(c, x)
    PROVE  queue' \in [Sessions -> Seq(Calls)]
<1>1. queue \in [Sessions -> Seq(Calls)]  BY DEF TypeOK
<1>2. queue' = queue \/ queue' = [queue EXCEPT ![Session(c)] = Tail(@)]  BY DEF Finish
<1>3. \A s \in Sessions : queue'[s] \in Seq(Calls)  BY FinishShift
<1>4. QED  BY <1>1, <1>2, <1>3

\* Every step keeps the type invariant.
LEMMA TypeStep ==
    ASSUME OwnersAreKept, [Next]_vars
    PROVE  TypeOK'
<1> USE DEF callVars, shutdownVars
<1>0. TypeOK  BY DEF OwnersAreKept
<1>l. life' \in [Owners -> {"live", "closing", "closed", "failed"}]
  <2>1. CASE Owners # {}  BY <2>1, LifeOnlyEnds
  <2>2. CASE Owners = {}
    BY <2>2, <1>0 DEF TypeOK, Next, vars, Invoke, CallStep, BeginReplace, PriorSettles,
       RejectedOwnerSettles, Remove, BeginClose, OwnerSettles, PassBarrier, CloseAll, ShutdownStep,
       Drained, ShutdownOwnerSettles, ShutdownEnds, StartClose, Closes, Rejects
  <2>3. QED  BY <2>1, <2>2
<1>1. ASSUME NEW c \in Calls, NEW r \in Request, Invoke(c, r) PROVE TypeOK'
  <2>1. r.session \in Sessions  BY RequestFields
  <2>2. queue' \in [Sessions -> Seq(Calls)]
    <3>1. queue \in [Sessions -> Seq(Calls)]  BY <1>0 DEF TypeOK
    <3>2. Append(queue[r.session], c) \in Seq(Calls)  BY <3>1, <2>1
    <3>3. UNCHANGED queue \/ queue' = [queue EXCEPT ![r.session] = Append(queue[r.session], c)]
      BY <1>1 DEF Invoke, Goto
    <3>4. QED  BY <3>1, <3>2, <3>3
  <2>3. QED  BY <1>0, <1>1, <1>l, <2>2 DEF Invoke, TypeOK, Goto, Waiting
<1>2. ASSUME NEW c \in Calls, CallStep(c) PROVE TypeOK'
  <2>1. pc[c] # "unused"
    BY <1>2 DEF CallStep, BeginReplace, PriorSettles, RejectedOwnerSettles, Remove, BeginClose,
       OwnerSettles, PassBarrier, Runs
  <2>2. Session(c) \in Sessions /\ (request[c].op # "close" => Owner(c) \in Owners)
    BY <2>1, CallFacts
  <2>3. queue' \in [Sessions -> Seq(Calls)]
    <3>1. CASE UNCHANGED queue  BY <3>1, <1>0 DEF TypeOK
    <3>2. CASE Finish(c, "resolved") \/ Finish(c, "rejected")  BY <3>2, <1>0, <2>2, FinishType
    <3>3. QED
      BY <3>1, <3>2, <1>2 DEF CallStep, BeginReplace, PriorSettles, RejectedOwnerSettles, Remove,
         BeginClose, OwnerSettles, PassBarrier, Goto
  <2>4. pc' \in [Calls -> {"unused"} \cup Waiting \cup Settled]
    BY <1>0, <1>2 DEF TypeOK, CallStep, BeginReplace, PriorSettles, RejectedOwnerSettles, Remove,
       BeginClose, OwnerSettles, PassBarrier, Goto, Finish, Waiting, Settled
  <2>5. prior' \in [Calls -> Owners \cup {None}]
    BY <1>0, <1>2, <2>2 DEF TypeOK, CallStep, BeginReplace, PriorSettles, RejectedOwnerSettles,
       Remove, BeginClose, OwnerSettles, PassBarrier
  <2>6. owners' \in [Sessions -> Owners \cup {None}]
    <3>1. pc[c] = "closingPrior" => request[c].op = "replace"
      BY DEF OwnersAreKept, CallsMatchRequests
    <3>2. QED
      BY <1>0, <1>2, <2>2, <3>1 DEF TypeOK, CallStep, BeginReplace, PriorSettles,
         RejectedOwnerSettles, Remove, BeginClose, OwnerSettles, PassBarrier, SetOwner, Runs
  <2>7. UNCHANGED <<request, shutdown, inFlight, closing, failure>>
    BY <1>2 DEF CallStep, BeginReplace, PriorSettles, RejectedOwnerSettles, Remove, BeginClose,
       OwnerSettles, PassBarrier
  <2>8. QED  BY <1>0, <1>l, <2>3, <2>4, <2>5, <2>6, <2>7 DEF TypeOK
<1>3. ASSUME CloseAll PROVE TypeOK'
  <2>1. \A s \in Sessions : queue[s] # <<>> => queue[s][Len(queue[s])] \in Calls
    BY <1>0 DEF TypeOK
  <2>2. QED  BY <1>0, <1>3, <2>1 DEF CloseAll, TypeOK
<1>4. ASSUME Drained PROVE TypeOK'
  BY <1>0, <1>4, <1>l DEF Drained, TypeOK
<1>5. ASSUME NEW s \in Sessions, ShutdownOwnerSettles(s) PROVE TypeOK'
  BY <1>0, <1>5, <1>l DEF ShutdownOwnerSettles, SetOwner, TypeOK
<1>6. ASSUME ShutdownEnds PROVE TypeOK'
  BY <1>0, <1>6 DEF ShutdownEnds, TypeOK
<1>7. ASSUME UNCHANGED vars PROVE TypeOK'
  BY <1>0, <1>7 DEF vars, TypeOK
<1>8. QED  BY <1>1, <1>2, <1>3, <1>4, <1>5, <1>6, <1>7 DEF Next, ShutdownStep

\* Every step keeps calls and requests together.
LEMMA CallsMatchStep ==
    ASSUME OwnersAreKept, [Next]_vars
    PROVE  CallsMatchRequests'
<1> USE DEF callVars, shutdownVars
<1>0. TypeOK /\ CallsMatchRequests  BY DEF OwnersAreKept
<1>1. ASSUME NEW c \in Calls, NEW r \in Request, Invoke(c, r) PROVE CallsMatchRequests'
  BY <1>0, <1>1 DEF Invoke, TypeOK, Goto, CallsMatchRequests
<1>2. ASSUME NEW c \in Calls, CallStep(c) PROVE CallsMatchRequests'
  <2>1. request' = request
    BY <1>2 DEF CallStep, BeginReplace, PriorSettles, RejectedOwnerSettles, Remove, BeginClose,
       OwnerSettles, PassBarrier
  <2>2. PICK x : /\ pc' = [pc EXCEPT ![c] = x]
                 /\ x \in {"closingPrior", "closingRejected"} => request[c].op = "replace"
                 /\ x = "closingOwner" => request[c].op = "close"
    BY <1>0, <1>2 DEF CallStep, BeginReplace, PriorSettles, RejectedOwnerSettles, Remove, BeginClose,
       OwnerSettles, PassBarrier, Goto, Finish, Runs, CallsMatchRequests
  <2>3. pc[c] # "unused"
    BY <1>2 DEF CallStep, BeginReplace, PriorSettles, RejectedOwnerSettles, Remove, BeginClose,
       OwnerSettles, PassBarrier, Runs
  <2>4. QED  BY <1>0, <2>1, <2>2, <2>3 DEF TypeOK, CallsMatchRequests
<1>3. ASSUME CloseAll \/ ShutdownStep \/ UNCHANGED vars PROVE CallsMatchRequests'
  BY <1>0, <1>3 DEF CloseAll, ShutdownStep, Drained, ShutdownOwnerSettles, ShutdownEnds, vars,
     CallsMatchRequests
<1>4. QED  BY <1>1, <1>2, <1>3 DEF Next

\* A new operation joins the end of its session's queue.
LEMMA InvokeShift ==
    ASSUME OwnersAreKept, NEW c \in Calls, NEW r \in Request, Invoke(c, r), shutdown = "none",
           NEW s \in Sessions
    PROVE  IF s = r.session
           THEN /\ Len(queue'[s]) = Len(queue[s]) + 1
                /\ \A i \in 1..Len(queue[s]) : queue'[s][i] = queue[s][i]
                /\ queue'[s][Len(queue[s]) + 1] = c
           ELSE queue'[s] = queue[s]
<1>1. queue \in [Sessions -> Seq(Calls)] /\ r.session \in Sessions
  BY RequestFields DEF OwnersAreKept, TypeOK
<1>2. queue'[s] = IF s = r.session THEN Append(queue[s], c) ELSE queue[s]
  BY <1>1 DEF Invoke
<1>3. QED  BY <1>1, <1>2

\* Every step keeps the queues serial.
LEMMA QueuesStep ==
    ASSUME OwnersAreKept, [Next]_vars
    PROVE  QueuesAreSerial'
<1> USE DEF callVars, shutdownVars
<1>0. TypeOK /\ QueuesAreSerial  BY DEF OwnersAreKept
<1>t. /\ queue \in [Sessions -> Seq(Calls)]
      /\ pc \in [Calls -> {"unused"} \cup Waiting \cup Settled]
      /\ \A s \in Sessions : Len(queue[s]) \in Nat
      /\ \A s \in Sessions : \A i \in 1..Len(queue[s]) : queue[s][i] \in Calls
  BY <1>0 DEF TypeOK
<1>1. ASSUME NEW c \in Calls, NEW r \in Request, Invoke(c, r), shutdown = "none" PROVE QueuesAreSerial'
  <2>1. r.session \in Sessions  BY RequestFields
  <2>2. /\ pc[c] = "unused" /\ pc' = [pc EXCEPT ![c] = "queued"]
        /\ request' = [request EXCEPT ![c] = r]
    BY <1>1 DEF Invoke
  <2>3. request \in [Calls -> Request \cup {None}]  BY <1>0 DEF TypeOK
  <2>4. /\ \A s \in Sessions : \A i \in 1..Len(queue[s]) : queue[s][i] # c
        /\ \A d \in Calls : d # c => pc'[d] = pc[d] /\ request'[d] = request[d]
        /\ pc'[c] = "queued" /\ request'[c].session = r.session
    BY <1>0, <1>t, <2>2, <2>3 DEF QueuesAreSerial
  <2>5. ASSUME NEW s \in Sessions, NEW i \in 1..Len(queue'[s])
        PROVE  /\ pc'[queue'[s][i]] \in Active
               /\ request'[queue'[s][i]].session = s
               /\ i > 1 => pc'[queue'[s][i]] = "queued"
               /\ \A j \in 1..Len(queue'[s]) : queue'[s][j] = queue'[s][i] => j = i
    <3>1. CASE s = r.session
      <4>0. /\ Len(queue'[s]) = Len(queue[s]) + 1 /\ Len(queue[s]) \in Nat
            /\ \A k \in 1..Len(queue[s]) :
                  /\ queue'[s][k] = queue[s][k] /\ queue[s][k] # c /\ queue[s][k] \in Calls
                  /\ pc'[queue[s][k]] = pc[queue[s][k]] /\ request'[queue[s][k]] = request[queue[s][k]]
            /\ queue'[s][Len(queue[s]) + 1] = c
        BY <3>1, <2>4, <1>1, <1>t, InvokeShift
      <4>1. CASE i = Len(queue[s]) + 1
        <5>1. pc'[queue'[s][i]] = "queued" /\ request'[queue'[s][i]].session = s
          BY <3>1, <4>0, <4>1, <2>4
        <5>2. \A j \in 1..Len(queue'[s]) : queue'[s][j] = queue'[s][i] => j = i
          BY <4>0, <4>1
        <5>3. QED  BY <5>1, <5>2 DEF Active
      <4>2. CASE i \in 1..Len(queue[s])
        <5>1. \A j \in 1..Len(queue[s]) : queue[s][j] = queue[s][i] => j = i
          BY <4>2, <1>0 DEF QueuesAreSerial
        <5>2. \A j \in 1..Len(queue'[s]) : queue'[s][j] = queue'[s][i] => j = i
          <6> TAKE j \in 1..Len(queue'[s])
          <6>1. queue'[s][i] = queue[s][i] /\ queue[s][i] # c
            BY <4>0, <4>2
          <6>2. j \in 1..Len(queue[s]) \/ j = Len(queue[s]) + 1
            BY <4>0
          <6>3. CASE j \in 1..Len(queue[s])
            BY <4>0, <5>1, <6>1, <6>3
          <6>4. CASE j = Len(queue[s]) + 1
            BY <4>0, <6>1, <6>4
          <6> QED
            BY <6>2, <6>3, <6>4
        <5>3. /\ pc[queue[s][i]] \in Active /\ request[queue[s][i]].session = s
              /\ i > 1 => pc[queue[s][i]] = "queued"
          BY <4>2, <1>0 DEF QueuesAreSerial, Active
        <5>4. QED  BY <4>0, <4>2, <5>2, <5>3
      <4>3. i \in 1..Len(queue[s]) \/ i = Len(queue[s]) + 1  BY <4>0
      <4>4. QED  BY <4>1, <4>2, <4>3
    <3>2. CASE s # r.session
      BY <3>2, <2>4, <1>0, <1>1, <1>t, InvokeShift DEF Active, QueuesAreSerial
    <3>3. QED  BY <3>1, <3>2
  <2>6. ASSUME NEW d \in Calls, pc'[d] \in {"queued", "closingPrior", "closingOwner"}
        PROVE  \E i \in 1..Len(queue'[Session(d)']) : queue'[Session(d)'][i] = d
    <3>1. CASE d = c
      <4>1. Session(d)' = r.session  BY <3>1, <2>4 DEF Session
      <4>2. Len(queue'[r.session]) = Len(queue[r.session]) + 1
            /\ queue'[r.session][Len(queue[r.session]) + 1] = c
        BY <2>1, <1>1, InvokeShift
      <4>3. QED  BY <3>1, <4>1, <4>2, <2>1, <1>t
    <3>2. CASE d # c
      <4>1. /\ pc'[d] = pc[d] /\ Session(d)' = Session(d)  BY <3>2, <2>4 DEF Session
      <4>2. pc[d] \in {"queued", "closingPrior", "closingOwner"}  BY <2>6, <4>1
      <4>3. PICK i \in 1..Len(queue[Session(d)]) : queue[Session(d)][i] = d
        BY <1>0, <4>2 DEF QueuesAreSerial
      <4>4. Session(d) \in Sessions  BY <4>2, CallFacts
      <4>5. i \in 1..Len(queue'[Session(d)]) /\ queue'[Session(d)][i] = d
        BY <4>3, <4>4, <1>1, <1>t, InvokeShift
      <4>6. QED  BY <4>1, <4>5
    <3>3. QED  BY <3>1, <3>2
  <2>7. QED  BY <2>5, <2>6 DEF QueuesAreSerial, Active
<1>2. ASSUME NEW c \in Calls, NEW r \in Request, Invoke(c, r), shutdown # "none" PROVE QueuesAreSerial'
  <2>1. /\ pc[c] = "unused" /\ pc' = [pc EXCEPT ![c] = "barred"] /\ queue' = queue
        /\ request' = [request EXCEPT ![c] = r]
    BY <1>2 DEF Invoke, Goto
  <2>2. request \in [Calls -> Request \cup {None}]  BY <1>0 DEF TypeOK
  <2>3. /\ \A s \in Sessions : \A i \in 1..Len(queue[s]) : queue[s][i] # c
        /\ \A d \in Calls : d # c => pc'[d] = pc[d] /\ request'[d] = request[d]
        /\ pc'[c] = "barred"
    BY <1>0, <1>t, <2>1, <2>2 DEF QueuesAreSerial
  <2>4. ASSUME NEW s \in Sessions, NEW i \in 1..Len(queue[s])
        PROVE  pc'[queue[s][i]] = pc[queue[s][i]] /\ request'[queue[s][i]] = request[queue[s][i]]
    BY <1>t, <2>3
  <2>5. ASSUME NEW d \in Calls, pc'[d] \in {"queued", "closingPrior", "closingOwner"}
        PROVE  \E i \in 1..Len(queue[Session(d)']) : queue[Session(d)'][i] = d
    <3>1. d # c /\ pc[d] = pc'[d] /\ Session(d)' = Session(d)  BY <2>3, <2>5 DEF Session
    <3>2. QED  BY <3>1, <2>5, <1>0 DEF QueuesAreSerial
  <2>6. QED  BY <1>0, <2>1, <2>4, <2>5 DEF QueuesAreSerial
<1>3. ASSUME NEW c \in Calls, request' = request, NEW x, NEW y, pc[c] = y,
             pc' = [pc EXCEPT ![c] = x], queue' = queue,
             \/ y = "barred" /\ x = "closingRejected"
             \/ y = "queued" /\ x \in Began /\ Head(queue[Session(c)]) = c
             \/ y = "closingPrior" /\ x = "closingRejected"
      PROVE  QueuesAreSerial'
  <2>1. \A d \in Calls : pc'[d] = IF d = c THEN x ELSE pc[d]  BY <1>3, <1>t
  <2>2. CASE y = "barred"
    BY <1>0, <1>t, <1>3, <2>1, <2>2 DEF QueuesAreSerial, Session
  <2>3. CASE y # "barred"
    <3>1. /\ Session(c) \in Sessions /\ queue[Session(c)] # <<>> /\ queue[Session(c)][1] = c
      BY <1>3, <2>3, RunnerIsHead DEF Began
    <3>2. \A s \in Sessions : \A i \in 1..Len(queue[s]) : queue[s][i] = c => i = 1
      BY <3>1, <1>0, <1>t DEF QueuesAreSerial, Session
    <3>3. QED  BY <3>2, <1>0, <1>t, <1>3, <2>1, <2>3 DEF QueuesAreSerial, Session, Began
  <2>4. QED  BY <2>2, <2>3
<1>4. ASSUME NEW c \in Calls, request' = request, NEW x \in Settled, Finish(c, x),
             \/ pc[c] = "barred" \/ pc[c] = "closingRejected" \/ pc[c] \in Began
             \/ pc[c] = "queued" /\ Head(queue[Session(c)]) = c
      PROVE  QueuesAreSerial'
  <2>1. \A d \in Calls : pc'[d] = IF d = c THEN x ELSE pc[d]  BY <1>4, <1>t DEF Finish
  <2>2. Session(c) \in Sessions  BY <1>4, CallFacts DEF Began
  <2>3. \A s \in Sessions : \A i \in 1..Len(queue[s]) :
            queue[s][i] = c => i = 1 /\ s = Session(c)
    <3>1. CASE pc[c] = "barred"  BY <3>1, <1>0, <1>t DEF QueuesAreSerial
    <3>2. CASE pc[c] = "closingRejected" \/ pc[c] \in Began
      BY <3>2, <1>0, <1>t DEF QueuesAreSerial, Session, Began
    <3>3. CASE pc[c] = "queued" /\ Head(queue[Session(c)]) = c
      <4>1. queue[Session(c)] # <<>> /\ queue[Session(c)][1] = c  BY <3>3, RunnerIsHead
      <4>2. QED  BY <4>1, <2>2, <1>0, <1>t DEF QueuesAreSerial, Session
    <3>4. QED  BY <1>4, <3>1, <3>2, <3>3
  <2>4. ASSUME NEW s \in Sessions
        PROVE  \E h \in {0, 1} :
                  /\ Len(queue'[s]) = Len(queue[s]) - h
                  /\ h = 1 => queue[s][1] = c
                  /\ \A i \in 1..Len(queue'[s]) :
                        /\ i + h \in 1..Len(queue[s])
                        /\ queue'[s][i] = queue[s][i + h] /\ queue[s][i + h] # c
    <3>0. Len(queue[s]) \in Nat  BY <1>t
    <3>1. CASE queue'[s] = queue[s]
      <4>1. ASSUME NEW i \in 1..Len(queue[s]), queue[s][i] = c PROVE FALSE
        <5>1. i = 1 /\ s = Session(c) /\ queue[s] # <<>>  BY <4>1, <2>3, <1>t
        <5>2. queue'[s] = Tail(queue[s])  BY <4>1, <5>1, <1>0, <1>4, <2>2, FinishShift
        <5>3. QED  BY <5>1, <5>2, <3>1, <1>t
      <4>2. QED  BY <3>0, <3>1, <4>1
    <3>2. CASE /\ s = Session(c) /\ Len(queue[s]) > 0 /\ queue[s][1] = c
               /\ Len(queue'[s]) = Len(queue[s]) - 1
               /\ \A k \in 1..Len(queue'[s]) : queue'[s][k] = queue[s][k+1]
      <4>1. ASSUME NEW i \in 1..Len(queue'[s])
            PROVE  i + 1 \in 1..Len(queue[s]) /\ queue'[s][i] = queue[s][i+1] /\ queue[s][i + 1] # c
        <5>1. i + 1 \in 1..Len(queue[s]) /\ queue'[s][i] = queue[s][i+1] /\ i + 1 # 1
          BY <3>2, <3>0
        <5>2. QED  BY <5>1, <2>3
      <4>2. QED  BY <3>2, <4>1
    <3>3. QED  BY <3>1, <3>2, <1>0, <1>4, <2>2, FinishShift
  <2>5. ASSUME NEW s \in Sessions, NEW i \in 1..Len(queue'[s])
        PROVE  /\ pc'[queue'[s][i]] \in Active
               /\ request[queue'[s][i]].session = s
               /\ i > 1 => pc'[queue'[s][i]] = "queued"
               /\ \A j \in 1..Len(queue'[s]) : queue'[s][j] = queue'[s][i] => j = i
    <3>1. PICK h \in {0, 1} :
                  /\ Len(queue'[s]) = Len(queue[s]) - h
                  /\ \A k \in 1..Len(queue'[s]) :
                        /\ k + h \in 1..Len(queue[s])
                        /\ queue'[s][k] = queue[s][k + h] /\ queue[s][k + h] # c
      BY <2>4
    <3>2. /\ pc'[queue'[s][i]] = pc[queue[s][i + h]] /\ queue'[s][i] = queue[s][i + h]
          /\ i + h \in 1..Len(queue[s])
      BY <3>1, <2>1, <1>t
    <3>3. /\ pc[queue[s][i + h]] \in Active
          /\ request[queue[s][i + h]].session = s
          /\ i + h > 1 => pc[queue[s][i + h]] = "queued"
          /\ \A k \in 1..Len(queue[s]) : queue[s][k] = queue[s][i + h] => k = i + h
      BY <3>2, <1>0 DEF QueuesAreSerial, Active
    <3>4. i > 1 => i + h > 1  BY <3>2
    <3>5. ASSUME NEW j \in 1..Len(queue'[s]), queue'[s][j] = queue'[s][i] PROVE j = i
      <4>1. j + h \in 1..Len(queue[s]) /\ queue[s][j + h] = queue[s][i + h]  BY <3>1, <3>5
      <4>2. j + h = i + h  BY <4>1, <3>3
      <4>3. QED  BY <4>2
    <3>6. QED  BY <3>2, <3>3, <3>4, <3>5
  <2>6. ASSUME NEW d \in Calls, pc'[d] \in {"queued", "closingPrior", "closingOwner"}
        PROVE  \E i \in 1..Len(queue'[Session(d)]) : queue'[Session(d)][i] = d
    <3>1. d # c /\ pc[d] = pc'[d]  BY <2>1, <2>6, <1>4 DEF Settled
    <3>2. PICK k \in 1..Len(queue[Session(d)]) : queue[Session(d)][k] = d
      BY <3>1, <2>6, <1>0 DEF QueuesAreSerial
    <3>3. Session(d) \in Sessions  BY <3>1, <2>6, CallFacts
    <3>4. PICK h \in {0, 1} :
                  /\ Len(queue'[Session(d)]) = Len(queue[Session(d)]) - h
                  /\ h = 1 => queue[Session(d)][1] = c
                  /\ \A i \in 1..Len(queue'[Session(d)]) :
                        queue'[Session(d)][i] = queue[Session(d)][i + h]
      BY <3>3, <2>4
    <3>5. k - h \in 1..Len(queue'[Session(d)]) /\ (k - h) + h = k
      BY <3>1, <3>2, <3>3, <3>4, <1>t
    <3>6. QED  BY <3>2, <3>4, <3>5
  <2>7. QED  BY <2>5, <2>6, <1>4 DEF QueuesAreSerial, Active, Session
<1>5. ASSUME NEW c \in Calls, CallStep(c) PROVE QueuesAreSerial'
  <2>1. request' = request
    BY <1>5 DEF CallStep, BeginReplace, PriorSettles, RejectedOwnerSettles, Remove, BeginClose,
       OwnerSettles, PassBarrier
  <2>2. ASSUME NEW x, Goto(c, x),
               \/ pc[c] = "barred" /\ x = "closingRejected"
               \/ pc[c] = "queued" /\ x \in Began /\ Head(queue[Session(c)]) = c
               \/ pc[c] = "closingPrior" /\ x = "closingRejected"
        PROVE  QueuesAreSerial'
    BY <2>1, <2>2, <1>3 DEF Goto
  <2>3. ASSUME NEW x \in Settled, Finish(c, x),
               \/ pc[c] = "barred" \/ pc[c] = "closingRejected" \/ pc[c] \in Began
               \/ pc[c] = "queued" /\ Head(queue[Session(c)]) = c
        PROVE  QueuesAreSerial'
    BY <2>1, <2>3, <1>4
  <2> USE DEF Began, Settled, Runs
  <2>4. CASE BeginReplace(c)  BY <2>2, <2>3, <2>4 DEF BeginReplace
  <2>5. CASE PriorSettles(c)  BY <2>2, <2>3, <2>5 DEF PriorSettles
  <2>6. CASE RejectedOwnerSettles(c)  BY <2>3, <2>6 DEF RejectedOwnerSettles
  <2>7. CASE Remove(c)  BY <2>3, <2>7 DEF Remove
  <2>8. CASE BeginClose(c)  BY <2>2, <2>3, <2>8 DEF BeginClose
  <2>9. CASE OwnerSettles(c)  BY <2>3, <2>9 DEF OwnerSettles
  <2>10. CASE PassBarrier(c)  BY <2>2, <2>3, <2>10 DEF PassBarrier
  <2>11. QED  BY <1>5, <2>4, <2>5, <2>6, <2>7, <2>8, <2>9, <2>10 DEF CallStep
<1>6. ASSUME CloseAll \/ ShutdownStep \/ UNCHANGED vars PROVE QueuesAreSerial'
  <2>1. UNCHANGED <<queue, pc, request>>
    BY <1>6 DEF CloseAll, ShutdownStep, Drained, ShutdownOwnerSettles, ShutdownEnds, vars
  <2>2. QED  BY <1>0, <2>1 DEF QueuesAreSerial, Session
<1>7. QED  BY <1>1, <1>2, <1>5, <1>6 DEF Next

\* Who may change the owner of a session, and what has become of the owner
\* that was registered: its close has settled, or remove was called for it;
\* and it gives way to another only when its close has resolved.
LEMMA OwnerChange ==
    ASSUME OwnersAreKept, [Next]_vars, NEW s \in Sessions, owners'[s] # owners[s]
    PROVE  /\ \/ shutdown = "closing"
              \/ \E d \in Calls : queue[s] # <<>> /\ queue[s][1] = d /\ pc'[d] \in Settled
           /\ owners[s] # None /\ owners'[s] # None => life'[owners[s]] = "closed"
           /\ owners[s] # None =>
                 \/ life'[owners[s]] # "live"
                 \/ \E d \in Calls : pc[d] # "unused" /\ request[d].op = "remove" /\ Owner(d) = owners[s]
<1> DEFINE Goal ==
           /\ \/ shutdown = "closing"
              \/ \E d \in Calls : queue[s] # <<>> /\ queue[s][1] = d /\ pc'[d] \in Settled
           /\ owners[s] # None /\ owners'[s] # None => life'[owners[s]] = "closed"
           /\ owners[s] # None =>
                 \/ life'[owners[s]] # "live"
                 \/ \E d \in Calls : pc[d] # "unused" /\ request[d].op = "remove" /\ Owner(d) = owners[s]
<1> USE DEF callVars, shutdownVars
<1>0. /\ owners \in [Sessions -> Owners \cup {None}]
      /\ life \in [Owners -> {"live", "closing", "closed", "failed"}]
      /\ pc \in [Calls -> {"unused"} \cup Waiting \cup Settled]
  BY DEF OwnersAreKept, TypeOK
<1>1. ASSUME NEW c \in Calls, CallStep(c) PROVE Goal
  <2>0. ASSUME Session(c) = s, pc'[c] \in Settled,
               \/ pc[c] = "queued" /\ Head(queue[Session(c)]) = c
               \/ pc[c] \in Began
        PROVE  \E d \in Calls : queue[s] # <<>> /\ queue[s][1] = d /\ pc'[d] \in Settled
    BY <2>0, RunnerIsHead
  <2>1. CASE BeginReplace(c)
    <3>1. /\ pc[c] = "queued" /\ Head(queue[Session(c)]) = c /\ Session(c) = s
          /\ owners[s] \in {None, Owner(c)} /\ owners'[s] = Owner(c)
          /\ pc'[c] = "resolved"
      BY <1>0, <2>1 DEF BeginReplace, Runs, SetOwner, Finish
    <3>2. QED  BY <3>1, <2>0 DEF Settled
  <2>2. CASE PriorSettles(c)
    <3>1. /\ pc[c] = "closingPrior" /\ Session(c) = s /\ Closes(prior[c])
          /\ pc'[c] = "resolved"
      BY <1>0, <2>2 DEF PriorSettles, SetOwner, Finish
    <3>2. prior[c] \in Owners /\ owners[s] = prior[c]  BY <3>1, CallFacts DEF Began
    <3>3. life'[owners[s]] = "closed"  BY <1>0, <3>1, <3>2 DEF Closes
    <3>4. QED  BY <3>1, <3>3, <2>0 DEF Settled, Began
  <2>3. CASE Remove(c)
    <3>1. /\ pc[c] = "queued" /\ Head(queue[Session(c)]) = c /\ Session(c) = s
          /\ request[c].op = "remove" /\ owners[s] = Owner(c) /\ owners'[s] = None
          /\ pc'[c] = "resolved"
      BY <1>0, <2>3 DEF Remove, Runs, SetOwner, Finish
    <3>2. QED  BY <3>1, <2>0 DEF Settled
  <2>4. CASE OwnerSettles(c)
    <3>1. /\ pc[c] = "closingOwner" /\ Session(c) = s /\ Closes(prior[c])
          /\ pc'[c] = "resolved"
      BY <1>0, <2>4 DEF OwnerSettles, SetOwner, Finish
    <3>2. prior[c] \in Owners /\ owners[s] = prior[c]  BY <3>1, CallFacts DEF Began
    <3>3. life'[owners[s]] = "closed"  BY <1>0, <3>1, <3>2 DEF Closes
    <3>4. QED  BY <3>1, <3>3, <2>0 DEF Settled, Began
  <2>5. CASE RejectedOwnerSettles(c) \/ BeginClose(c) \/ PassBarrier(c)
    BY <2>5 DEF RejectedOwnerSettles, BeginClose, PassBarrier
  <2>6. QED  BY <1>1, <2>1, <2>2, <2>3, <2>4, <2>5 DEF CallStep
<1>2. ASSUME NEW t \in Sessions, ShutdownOwnerSettles(t) PROVE Goal
  <2>1. t = s /\ shutdown = "closing" /\ owners[s] \in Owners /\ owners'[s] = None
    BY <1>0, <1>2 DEF ShutdownOwnerSettles, SetOwner, OwnersAreKept, ShutdownCoversAll
  <2>2. life'[owners[s]] # "live"
    BY <1>0, <1>2, <2>1 DEF ShutdownOwnerSettles, Closes, Rejects
  <2>3. QED  BY <2>1, <2>2
<1>3. ASSUME \/ CloseAll \/ Drained \/ ShutdownEnds \/ UNCHANGED vars
             \/ \E c \in Calls, r \in Request : Invoke(c, r)
      PROVE  Goal
  BY <1>3 DEF CloseAll, Drained, ShutdownEnds, vars, Invoke
<1>4. QED  BY <1>1, <1>2, <1>3 DEF Next, ShutdownStep

\* Every step keeps the owner an operation has read registered until the
\* operation goes on: the re-check after the await never finds another one.
LEMMA PriorStep ==
    ASSUME OwnersAreKept, [Next]_vars
    PROVE  PriorStaysRegistered'
<1> USE DEF callVars, shutdownVars
<1>0. TypeOK /\ PriorStaysRegistered  BY DEF OwnersAreKept
<1>t. /\ owners \in [Sessions -> Owners \cup {None}]
      /\ pc \in [Calls -> {"unused"} \cup Waiting \cup Settled]
      /\ prior \in [Calls -> Owners \cup {None}]
  BY <1>0 DEF TypeOK
<1>1. SUFFICES ASSUME NEW c \in Calls, pc'[c] \in Began
               PROVE  prior'[c] # None /\ owners'[Session(c)'] = prior'[c]
  BY DEF PriorStaysRegistered, Began
<1>2. CASE pc[c] \in Began
  <2>1. /\ Session(c)' = Session(c) /\ Session(c) \in Sessions
        /\ prior[c] # None /\ owners[Session(c)] = prior[c]
    BY <1>0, <1>2, RequestsStay, CallFacts DEF Session, PriorStaysRegistered, Began
  <2>2. prior'[c] = prior[c]
    <3>1. ASSUME NEW d \in Calls, CallStep(d) PROVE prior'[c] = prior[c]
      <4>1. CASE BeginReplace(d) \/ BeginClose(d)
        <5>1. d # c  BY <4>1, <1>2 DEF BeginReplace, BeginClose, Runs, Began
        <5>2. QED  BY <5>1, <4>1, <1>t DEF BeginReplace, BeginClose
      <4>2. QED
        BY <3>1, <4>1 DEF CallStep, PriorSettles, RejectedOwnerSettles, Remove, OwnerSettles,
           PassBarrier
    <3>2. ASSUME CloseAll \/ ShutdownStep \/ UNCHANGED vars \/ \E d \in Calls, r \in Request : Invoke(d, r)
          PROVE  prior'[c] = prior[c]
      BY <3>2 DEF CloseAll, ShutdownStep, Drained, ShutdownOwnerSettles, ShutdownEnds, vars, Invoke
    <3>3. QED  BY <3>1, <3>2 DEF Next
  <2>3. owners'[Session(c)] = owners[Session(c)]
    <3>1. SUFFICES ASSUME owners'[Session(c)] # owners[Session(c)] PROVE FALSE  OBVIOUS
    <3>2. queue[Session(c)][1] = c /\ shutdown # "closing"  BY <1>2, RunnerIsHead
    <3>3. pc'[c] \in Settled  BY <2>1, <3>1, <3>2, OwnerChange
    <3>4. QED  BY <3>3, <1>1 DEF Settled, Began
  <2>4. QED  BY <2>1, <2>2, <2>3
<1>3. CASE pc[c] \notin Began
  <2>1. ASSUME NEW d \in Calls, CallStep(d) PROVE prior'[c] # None /\ owners'[Session(c)'] = prior'[c]
    <3>1. d = c
      BY <2>1, <1>t, <1>1, <1>3 DEF CallStep, BeginReplace, PriorSettles, RejectedOwnerSettles,
         Remove, BeginClose, OwnerSettles, PassBarrier, Goto, Finish
    <3>2. BeginReplace(c) \/ BeginClose(c)
      BY <2>1, <3>1, <1>t, <1>1, <1>3 DEF CallStep, PriorSettles, RejectedOwnerSettles,
         Remove, OwnerSettles, PassBarrier, Goto, Finish, Began
    <3>3. Session(c)' = Session(c) /\ pc[c] = "queued"
      BY <3>2 DEF BeginReplace, BeginClose, Session, Runs
    <3>4. owners'[Session(c)] = owners[Session(c)] /\ prior'[c] = owners[Session(c)]
          /\ owners[Session(c)] # None
      BY <3>2, <1>t, <1>1 DEF BeginReplace, BeginClose, Finish, Goto, Began
    <3>5. QED  BY <3>3, <3>4
  <2>2. ASSUME CloseAll \/ ShutdownStep \/ UNCHANGED vars \/ \E d \in Calls, r \in Request : Invoke(d, r)
        PROVE  FALSE
    BY <2>2, <1>1, <1>3, <1>t DEF CloseAll, ShutdownStep, Drained, ShutdownOwnerSettles,
       ShutdownEnds, vars, Invoke, Goto, Began
  <2>3. QED  BY <2>1, <2>2 DEF Next
<1>4. QED  BY <1>2, <1>3

\* Once the shutdown has begun no operation joins a queue, so a queue only
\* loses its head: it is unchanged, or shorter with the same last operation.
LEMMA QueuesOnlyDrain ==
    ASSUME OwnersAreKept, [Next]_vars, shutdown # "none", NEW s \in Sessions
    PROVE  /\ queue[s] = <<>> => queue'[s] = <<>>
           /\ queue'[s] # <<>> => queue[s] # <<>> /\ queue'[s][Len(queue'[s])] = queue[s][Len(queue[s])]
<1> DEFINE Goal ==
           /\ queue[s] = <<>> => queue'[s] = <<>>
           /\ queue'[s] # <<>> => queue[s] # <<>> /\ queue'[s][Len(queue'[s])] = queue[s][Len(queue[s])]
<1> USE DEF callVars, shutdownVars
<1>0. TypeOK /\ queue[s] \in Seq(Calls)  BY DEF OwnersAreKept, TypeOK
<1>1. ASSUME NEW c \in Calls, NEW x, Finish(c, x), pc[c] # "unused" PROVE Goal
  <2>1. Session(c) \in Sessions  BY <1>1, CallFacts
  <2>2. CASE queue'[s] = queue[s]  BY <2>2
  <2>3. CASE /\ Len(queue[s]) > 0 /\ queue'[s] \in Seq(Calls)
             /\ Len(queue'[s]) = Len(queue[s]) - 1
             /\ \A i \in 1..Len(queue'[s]) : queue'[s][i] = queue[s][i+1]
    <3>1. queue[s] # <<>> /\ Len(queue[s]) \in Nat  BY <2>3, <1>0
    <3>2. queue'[s] # <<>> => Len(queue'[s]) \in 1..Len(queue'[s])  BY <2>3
    <3>3. QED  BY <2>3, <3>1, <3>2
  <2>4. QED  BY <2>1, <2>2, <2>3, <1>0, <1>1, FinishShift
<1>2. ASSUME UNCHANGED queue PROVE Goal  BY <1>2
<1> HIDE DEF Goal
<1>3. ASSUME NEW c \in Calls, CallStep(c) PROVE Goal
  BY <1>1, <1>2, <1>3 DEF CallStep, BeginReplace, PriorSettles, RejectedOwnerSettles, Remove,
     BeginClose, OwnerSettles, PassBarrier, Goto, Runs
<1>4. ASSUME CloseAll \/ ShutdownStep \/ UNCHANGED vars \/ \E c \in Calls, r \in Request : Invoke(c, r)
      PROVE  Goal
  BY <1>2, <1>4 DEF CloseAll, ShutdownStep, Drained, ShutdownOwnerSettles, ShutdownEnds, vars,
     Invoke, Goto
<1>5. QED  BY <1>3, <1>4 DEF Next, Goal

\* Every step keeps the shutdown complete.
LEMMA ShutdownCoversStep ==
    ASSUME OwnersAreKept, [Next]_vars
    PROVE  ShutdownCoversAll'
<1> USE DEF callVars, shutdownVars
<1>0. TypeOK /\ ShutdownCoversAll /\ QueuesAreSerial  BY DEF OwnersAreKept
<1>1. ASSUME CloseAll PROVE ShutdownCoversAll'
  <2>1. /\ shutdown' = "draining" /\ queue' = queue
        /\ inFlight' = {queue[s][Len(queue[s])] : s \in {t \in Sessions : queue[t] # <<>>}}
    BY <1>1 DEF CloseAll
  <2>2. QED  BY <2>1 DEF ShutdownCoversAll, Settled
<1>2. ASSUME Drained PROVE ShutdownCoversAll'
  <2>1. ASSUME NEW s \in Sessions PROVE queue[s] = <<>>
    <3>1. SUFFICES ASSUME queue[s] # <<>> PROVE FALSE  OBVIOUS
    <3>2. queue[s][Len(queue[s])] \in inFlight  BY <3>1, <1>0, <1>2 DEF Drained, ShutdownCoversAll
    <3>3. Len(queue[s]) \in 1..Len(queue[s])  BY <3>1, <1>0 DEF TypeOK
    <3>4. pc[queue[s][Len(queue[s])]] \in Active  BY <3>3, <1>0 DEF QueuesAreSerial, Active
    <3>5. QED  BY <3>2, <3>4, <1>2 DEF Drained, Active, Settled
  <2>2. /\ shutdown' = "closing" /\ queue' = queue /\ owners' = owners
        /\ closing' = {s \in Sessions : owners[s] # None}
    BY <1>2 DEF Drained
  <2>3. QED  BY <2>1, <2>2 DEF ShutdownCoversAll, Settled
<1>3. ASSUME NEW s \in Sessions, ShutdownOwnerSettles(s) PROVE ShutdownCoversAll'
  <2>1. /\ shutdown = "closing" /\ shutdown' = shutdown /\ queue' = queue
        /\ owners' = [owners EXCEPT ![s] = None] /\ closing' = closing \ {s}
    BY <1>3 DEF ShutdownOwnerSettles, SetOwner
  <2>2. owners \in [Sessions -> Owners \cup {None}]  BY <1>0 DEF TypeOK
  <2>3. QED  BY <1>0, <2>1, <2>2 DEF ShutdownCoversAll, Settled
<1>4. ASSUME ShutdownEnds PROVE ShutdownCoversAll'
  <2>1. /\ shutdown = "closing" /\ closing = {} /\ shutdown' \in Settled
        /\ UNCHANGED <<queue, owners, closing>>
    BY <1>4 DEF ShutdownEnds, Settled
  <2>2. QED  BY <1>0, <2>1 DEF ShutdownCoversAll, Settled
<1>5. ASSUME UNCHANGED shutdownVars, shutdown # "none" PROVE ShutdownCoversAll'
  <2>1. UNCHANGED <<shutdown, inFlight, closing>>  BY <1>5
  <2>2. CASE shutdown = "draining"
    BY <2>1, <2>2, <1>0, <1>5, QueuesOnlyDrain DEF ShutdownCoversAll, Settled
  <2>3. CASE shutdown # "draining"
    <3>1. /\ shutdown \in {"closing", "resolved", "rejected"} /\ \A s \in Sessions : queue[s] = <<>>
      BY <2>3, <1>0, <1>5 DEF ShutdownCoversAll, TypeOK
    <3>2. \A s \in Sessions : queue'[s] = <<>>  BY <3>1, <1>5, QueuesOnlyDrain
    <3>3. ASSUME NEW s \in Sessions, shutdown # "closing" PROVE owners'[s] = owners[s]
      BY <3>1, <3>3, OwnerChange
    <3>4. CASE shutdown # "closing"
      <4>1. closing = {s \in Sessions : owners'[s] # None}
        BY <3>1, <3>3, <3>4, <1>0 DEF ShutdownCoversAll
      <4>2. QED  BY <2>1, <3>1, <3>2, <3>4, <4>1, <1>0 DEF ShutdownCoversAll
    <3>5. CASE shutdown = "closing"
      <4>1. UNCHANGED owners
        <5>1. ASSUME NEW c \in Calls, CallStep(c) PROVE UNCHANGED owners
          <6>1. ~(pc[c] = "queued" /\ Head(queue[Session(c)]) = c) /\ pc[c] \notin Began
            BY <3>5, RunnerIsHead
          <6>2. QED
            BY <5>1, <6>1 DEF CallStep, BeginReplace, PriorSettles, RejectedOwnerSettles, Remove,
               BeginClose, OwnerSettles, PassBarrier, Runs, Began
        <5>2. ASSUME NEW s \in Sessions, ShutdownOwnerSettles(s) PROVE FALSE
          BY <5>2, <2>1, <1>0 DEF ShutdownOwnerSettles
        <5>3. QED
          BY <5>1, <5>2, <2>1, <3>5 DEF Next, ShutdownStep, CloseAll, Drained, ShutdownEnds, vars, Invoke
      <4>2. QED  BY <2>1, <3>1, <3>2, <3>5, <4>1, <1>0 DEF ShutdownCoversAll, Settled
    <3>6. QED  BY <3>4, <3>5
  <2>4. QED  BY <2>2, <2>3
<1>6. ASSUME UNCHANGED shutdownVars, shutdown = "none" PROVE ShutdownCoversAll'
  BY <1>6 DEF ShutdownCoversAll, Settled
<1>7. CASE (\E c \in Calls : CallStep(c)) \/ (\E c \in Calls, r \in Request : Invoke(c, r))
  <2>1. UNCHANGED shutdownVars
    BY <1>7 DEF CallStep, BeginReplace, PriorSettles, RejectedOwnerSettles, Remove, BeginClose,
       OwnerSettles, PassBarrier, Invoke
  <2>2. QED  BY <2>1, <1>5, <1>6
<1>8. CASE UNCHANGED vars  BY <1>5, <1>6, <1>8 DEF vars
<1>9. QED  BY <1>1, <1>2, <1>3, <1>4, <1>7, <1>8 DEF Next, ShutdownStep

\* Every step keeps the owners of rejected replacements closed.
LEMMA RejectedStep ==
    ASSUME OwnersAreKept, [Next]_vars
    PROVE  RejectedOwnerIsClosed'
<1> USE DEF callVars, shutdownVars
<1>0. TypeOK /\ RejectedOwnerIsClosed /\ CallsMatchRequests  BY DEF OwnersAreKept
<1>1. SUFFICES ASSUME NEW c \in Calls, request'[c].op = "replace", pc'[c] = "rejected"
               PROVE  life'[Owner(c)'] \in {"closed", "failed"}
  BY DEF RejectedOwnerIsClosed, Handed
<1>t. /\ pc \in [Calls -> {"unused"} \cup Waiting \cup Settled]
      /\ life \in [Owners -> {"live", "closing", "closed", "failed"}]
  BY <1>0 DEF TypeOK
<1>2. pc[c] # "unused"
  <2>1. ASSUME NEW d \in Calls, CallStep(d), pc[c] = "unused" PROVE pc'[c] = pc[c]
    BY <2>1, <1>t DEF CallStep, BeginReplace, PriorSettles, RejectedOwnerSettles, Remove, BeginClose,
       OwnerSettles, PassBarrier, Goto, Finish, Runs
  <2>2. ASSUME NEW d \in Calls, NEW r \in Request, Invoke(d, r), pc[c] = "unused" PROVE pc'[c] # "rejected"
    BY <2>2, <1>t DEF Invoke, Goto
  <2>3. ASSUME CloseAll \/ ShutdownStep \/ UNCHANGED vars PROVE pc' = pc
    BY <2>3 DEF CloseAll, ShutdownStep, Drained, ShutdownOwnerSettles, ShutdownEnds, vars
  <2>4. QED  BY <1>1, <2>1, <2>2, <2>3 DEF Next
<1>3. /\ request'[c] = request[c] /\ Owner(c)' = Owner(c) /\ Owner(c) \in Owners
      /\ request[c].op = "replace"
  BY <1>1, <1>2, RequestsStay, CallFacts DEF Owner
<1>4. CASE pc[c] = "rejected"
  <2>1. life[Owner(c)] \in {"closed", "failed"}  BY <1>0, <1>3, <1>4 DEF RejectedOwnerIsClosed, Handed
  <2>2. QED  BY <2>1, <1>3, LifeOnlyEnds
<1>5. CASE pc[c] # "rejected"
  <2>1. RejectedOwnerSettles(c)
    <3>1. ASSUME NEW d \in Calls, CallStep(d) PROVE RejectedOwnerSettles(c)
      <4>1. d = c
        BY <3>1, <1>t, <1>1, <1>5 DEF CallStep, BeginReplace, PriorSettles, RejectedOwnerSettles,
           Remove, BeginClose, OwnerSettles, PassBarrier, Goto, Finish
      <4>2. pc[c] # "closingOwner"  BY <1>0, <1>3 DEF CallsMatchRequests
      <4>3. QED
        BY <3>1, <4>1, <4>2, <1>t, <1>1, <1>5 DEF CallStep, BeginReplace, PriorSettles,
           Remove, BeginClose, OwnerSettles, PassBarrier, Goto, Finish
    <3>2. ASSUME NEW d \in Calls, NEW r \in Request, Invoke(d, r) PROVE FALSE
      BY <3>2, <1>1, <1>2, <1>5, <1>t DEF Invoke, Goto
    <3>3. ASSUME CloseAll \/ ShutdownStep \/ UNCHANGED vars PROVE FALSE
      BY <3>3, <1>1, <1>5 DEF CloseAll, ShutdownStep, Drained, ShutdownOwnerSettles, ShutdownEnds, vars
    <3>4. QED  BY <3>1, <3>2, <3>3 DEF Next
  <2>2. QED  BY <2>1, <1>3, <1>t DEF RejectedOwnerSettles, Closes, Rejects
<1>6. QED  BY <1>4, <1>5

\* Every step keeps sight of the live owners.
LEMMA LiveStep ==
    ASSUME OwnersAreKept, [Next]_vars
    PROVE  LiveOwnerIsRegistered'
<1> USE DEF callVars, shutdownVars
<1>0. TypeOK /\ LiveOwnerIsRegistered /\ CallsMatchRequests  BY DEF OwnersAreKept
<1>1. SUFFICES ASSUME NEW c \in Calls, request'[c].op = "replace", pc'[c] = "resolved",
                      life'[Owner(c)'] = "live"
               PROVE  \/ owners'[Session(c)'] = Owner(c)'
                      \/ \E d \in Calls : pc'[d] # "unused" /\ request'[d].op = "remove" /\ Owner(d)' = Owner(c)'
  BY DEF LiveOwnerIsRegistered, Handed
<1>t. /\ pc \in [Calls -> {"unused"} \cup Waiting \cup Settled]
      /\ owners \in [Sessions -> Owners \cup {None}]
  BY <1>0 DEF TypeOK
<1>2. pc[c] # "unused"
  <2>1. ASSUME NEW d \in Calls, CallStep(d), pc[c] = "unused" PROVE pc'[c] = pc[c]
    BY <2>1, <1>t DEF CallStep, BeginReplace, PriorSettles, RejectedOwnerSettles, Remove, BeginClose,
       OwnerSettles, PassBarrier, Goto, Finish, Runs
  <2>2. ASSUME NEW d \in Calls, NEW r \in Request, Invoke(d, r), pc[c] = "unused" PROVE pc'[c] # "resolved"
    BY <2>2, <1>t DEF Invoke, Goto
  <2>3. ASSUME CloseAll \/ ShutdownStep \/ UNCHANGED vars PROVE pc' = pc
    BY <2>3 DEF CloseAll, ShutdownStep, Drained, ShutdownOwnerSettles, ShutdownEnds, vars
  <2>4. QED  BY <1>1, <2>1, <2>2, <2>3 DEF Next
<1>3. /\ request'[c] = request[c] /\ Owner(c)' = Owner(c) /\ Owner(c) \in Owners
      /\ request[c].op = "replace" /\ Session(c)' = Session(c) /\ Session(c) \in Sessions
  BY <1>1, <1>2, RequestsStay, CallFacts DEF Owner, Session
<1>4. life[Owner(c)] = "live"  BY <1>1, <1>3, LifeOnlyEnds
<1>5. ASSUME NEW d \in Calls, pc[d] # "unused", request[d].op = "remove", Owner(d) = Owner(c)
      PROVE  pc'[d] # "unused" /\ request'[d].op = "remove" /\ Owner(d)' = Owner(c)'
  BY <1>3, <1>5, RequestsStay DEF Owner
<1>6. CASE pc[c] = "resolved"
  <2>1. \/ owners[Session(c)] = Owner(c)
        \/ \E d \in Calls : pc[d] # "unused" /\ request[d].op = "remove" /\ Owner(d) = Owner(c)
    BY <1>0, <1>3, <1>4, <1>6 DEF LiveOwnerIsRegistered, Handed
  <2>2. CASE owners[Session(c)] = Owner(c) /\ owners'[Session(c)] # owners[Session(c)]
    <3>1. owners[Session(c)] # None  BY <1>3, <2>2, NoneAssumption
    <3>2. \E d \in Calls : pc[d] # "unused" /\ request[d].op = "remove" /\ Owner(d) = Owner(c)
      BY <1>1, <1>3, <2>2, <3>1, OwnerChange
    <3>3. QED  BY <1>5, <3>2
  <2>3. QED  BY <2>1, <2>2, <1>3, <1>5
<1>7. CASE pc[c] # "resolved"
  <2>1. ASSUME NEW d \in Calls, CallStep(d) PROVE owners'[Session(c)'] = Owner(c)'
    <3>1. d = c
      BY <2>1, <1>t, <1>1, <1>7 DEF CallStep, BeginReplace, PriorSettles, RejectedOwnerSettles,
         Remove, BeginClose, OwnerSettles, PassBarrier, Goto, Finish
    <3>2. pc[c] # "closingOwner"  BY <1>0, <1>3 DEF CallsMatchRequests
    <3>3. BeginReplace(c) \/ PriorSettles(c)
      BY <2>1, <3>1, <3>2, <1>t, <1>1, <1>3, <1>7 DEF CallStep, RejectedOwnerSettles,
         Remove, BeginClose, OwnerSettles, PassBarrier, Goto, Finish, Runs
    <3>4. CASE BeginReplace(c)
      BY <3>4, <1>t, <1>1, <1>3 DEF BeginReplace, SetOwner, Goto
    <3>5. CASE PriorSettles(c)
      <4>1. owners[Session(c)] = prior[c]  BY <3>5, CallFacts DEF PriorSettles, Began
      <4>2. QED  BY <4>1, <3>5, <1>t, <1>1, <1>3 DEF PriorSettles, SetOwner, Goto
    <3>6. QED  BY <3>3, <3>4, <3>5
  <2>2. ASSUME NEW d \in Calls, NEW r \in Request, Invoke(d, r) PROVE FALSE
    BY <2>2, <1>1, <1>2, <1>7, <1>t DEF Invoke, Goto
  <2>3. ASSUME CloseAll \/ ShutdownStep \/ UNCHANGED vars PROVE FALSE
    BY <2>3, <1>1, <1>7 DEF CloseAll, ShutdownStep, Drained, ShutdownOwnerSettles, ShutdownEnds, vars
  <2>4. QED  BY <2>1, <2>2, <2>3 DEF Next
<1>8. QED  BY <1>6, <1>7

\* The remaining parts follow from the others in every state: when closeAll
\* has covered everything, nothing runs, and nothing is left registered.
LEMMA ShutdownFollows ==
    ASSUME TypeOK, RejectedOwnerIsClosed, LiveOwnerIsRegistered, CallsMatchRequests,
           QueuesAreSerial, ShutdownCoversAll
    PROVE  ShutdownRunsAlone /\ ShutdownIsFinal
<1>1. ShutdownRunsAlone
  <2>1. SUFFICES ASSUME shutdown \in {"closing", "resolved", "rejected"}, NEW c \in Calls,
                        pc[c] \in {"queued", "closingPrior", "closingOwner"}
                 PROVE  FALSE
    BY DEF ShutdownRunsAlone
  <2>2. Session(c) \in Sessions  BY <2>1, RequestFields DEF CallsMatchRequests, Session
  <2>3. queue[Session(c)] = <<>>  BY <2>1, <2>2 DEF ShutdownCoversAll
  <2>4. \E i \in 1..Len(queue[Session(c)]) : queue[Session(c)][i] = c  BY <2>1 DEF QueuesAreSerial
  <2>5. QED  BY <2>3, <2>4
<1>2. ShutdownIsFinal
  <2>1. SUFFICES ASSUME shutdown \in Settled PROVE
            /\ \A s \in Sessions : owners[s] = None /\ queue[s] = <<>>
            /\ \A c \in Calls :
                  Handed(c) /\ pc[c] \in Settled /\ life[Owner(c)] = "live" =>
                      \E d \in Calls : pc[d] # "unused" /\ request[d].op = "remove" /\ Owner(d) = Owner(c)
    BY DEF ShutdownIsFinal
  <2>2. \A s \in Sessions : owners[s] = None /\ queue[s] = <<>>
    BY <2>1 DEF ShutdownCoversAll, Settled
  <2>3. ASSUME NEW c \in Calls, Handed(c), pc[c] \in Settled, life[Owner(c)] = "live"
        PROVE  \E d \in Calls : pc[d] # "unused" /\ request[d].op = "remove" /\ Owner(d) = Owner(c)
    <3>1. Session(c) \in Sessions /\ Owner(c) \in Owners
      BY <2>3, RequestFields DEF Handed, CallsMatchRequests, Session, Owner
    <3>2. owners[Session(c)] # Owner(c)  BY <3>1, <2>2, NoneAssumption
    <3>3. pc[c] = "resolved"  BY <2>3 DEF RejectedOwnerIsClosed, Settled
    <3>4. QED  BY <2>3, <3>2, <3>3 DEF LiveOwnerIsRegistered
  <2>4. QED  BY <2>2, <2>3
<1>3. QED  BY <1>1, <1>2

\* An empty registry has no owner to lose.
LEMMA InitKeepsOwners == Init => OwnersAreKept
<1> SUFFICES ASSUME Init PROVE OwnersAreKept  OBVIOUS
<1>1. TypeOK
  <2>1. queue \in [Sessions -> Seq(Calls)]  BY DEF Init
  <2>2. QED  BY <2>1 DEF Init, TypeOK
<1>2. RejectedOwnerIsClosed /\ LiveOwnerIsRegistered /\ CallsMatchRequests /\ PriorStaysRegistered
  BY DEF Init, RejectedOwnerIsClosed, LiveOwnerIsRegistered, CallsMatchRequests,
     PriorStaysRegistered, Handed
<1>3. QueuesAreSerial
  <2>1. \A s \in Sessions : queue[s] = <<>>  BY DEF Init
  <2>2. \A c \in Calls : pc[c] = "unused"  BY DEF Init
  <2>3. QED  BY <2>1, <2>2 DEF QueuesAreSerial
<1>4. ShutdownCoversAll  BY DEF Init, ShutdownCoversAll, Settled
<1>5. QED  BY <1>1, <1>2, <1>3, <1>4, ShutdownFollows DEF OwnersAreKept

\* Every step of the registry keeps the owners.
LEMMA OwnersStep == OwnersAreKept /\ [Next]_vars => OwnersAreKept'
<1> SUFFICES ASSUME OwnersAreKept, [Next]_vars PROVE OwnersAreKept'  OBVIOUS
<1>1. /\ TypeOK' /\ CallsMatchRequests' /\ QueuesAreSerial' /\ PriorStaysRegistered'
      /\ ShutdownCoversAll' /\ RejectedOwnerIsClosed' /\ LiveOwnerIsRegistered'
  BY TypeStep, CallsMatchStep, QueuesStep, PriorStep, ShutdownCoversStep, RejectedStep, LiveStep
<1>2. ShutdownRunsAlone' /\ ShutdownIsFinal'  BY <1>1, ShutdownFollows, PTL
<1>3. QED  BY <1>1, <1>2 DEF OwnersAreKept

\* Nobody loses sight of a live bridge, whatever the interleaving of replace,
\* remove, close and closeAll, and whichever closes reject: a rejected replace
\* has closed its bridge, a resolved one has it registered, operations of a
\* session are serial, and after closeAll nothing is registered or runs.
THEOREM OwnersAreAlwaysKept == Spec => []OwnersAreKept
<1>1. QED  BY InitKeepsOwners, OwnersStep, PTL DEF Spec

\* An owner is replaced by another only after its own close has resolved.
THEOREM ReplacementWaitsForClose == Spec => ReplacedOwnerIsClosed
<1>1. OwnersAreKept /\ [Next]_vars =>
        [\A s \in Sessions :
           owners[s] # None /\ owners'[s] \notin {None, owners[s]} => life'[owners[s]] = "closed"]_vars
  BY OwnerChange
<1>2. QED  BY <1>1, OwnersAreAlwaysKept, PTL DEF Spec, ReplacedOwnerIsClosed

\* The registry's own guard after an awaited close never fails: the owner an
\* operation read before its await is still the registered one after it.
THEOREM ReadOwnerIsCurrent == Spec => []PriorStaysRegistered
<1>1. OwnersAreKept => PriorStaysRegistered  BY DEF OwnersAreKept
<1>2. QED  BY <1>1, OwnersAreAlwaysKept, PTL

=============================================================================
