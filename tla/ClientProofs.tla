---------------------------- MODULE ClientProofs ----------------------------
(***************************************************************************)
(* What a terminal guarantees between the pty and the screen: the bridge   *)
(* of the server, for any number of chunks, any sizes and any limit of the *)
(* buffer, and the sockets of the client, for any number of terminals,     *)
(* sockets and ids; and what the administrator's view shows, for any       *)
(* number of actions and snapshot requests in flight.                      *)
(***************************************************************************)
EXTENDS AccessProofs, TerminalBridge, ClientSocket, ClientAdmin

-----------------------------------------------------------------------------
(***************************************************************************)
(* The terminal bridge: a browser sees the output from its beginning       *)
(* without a gap, neither side outlives the bridge, and a closed bridge    *)
(* neither sends nor writes.                                               *)
(*                                                                         *)
(* The argument: as long as the bridge lives, Sent is all the output there *)
(* was, in order.  The error message and the loss of the buffer come only  *)
(* with its end, and then Sent only loses a suffix.                        *)
(***************************************************************************)
\* A message joins the end of the stream when it joins the buffer.
LEMMA BufferedIsSent ==
    ASSUME NEW S, NEW d \in Seq(S), NEW b \in Seq(S), NEW m \in S
    PROVE  /\ Append(b, m) \in Seq(S) /\ d \o b \in Seq(S)
           /\ d \o Append(b, m) = Append(d \o b, m)
  OBVIOUS

\* The network moves a message within the stream.
LEMMA DeliveredStaysSent ==
    ASSUME NEW S, NEW d \in Seq(S), NEW b \in Seq(S), b # <<>>
    PROVE  /\ Tail(b) \in Seq(S) /\ Append(d, Head(b)) \in Seq(S)
           /\ Append(d, Head(b)) \o Tail(b) = d \o b
  OBVIOUS

\* A buffer that is lost leaves what was delivered, the beginning of the stream.
LEMMA DroppedIsPrefix ==
    ASSUME NEW S, NEW d \in Seq(S), NEW b \in Seq(S)
    PROVE  /\ d \o <<>> = d /\ <<>> \in Seq(S)
           /\ Len(d) \in Nat /\ Len(d \o b) \in Nat /\ Len(d) <= Len(d \o b)
           /\ \A n \in 1..Len(d) : (d \o b)[n] = d[n]
  OBVIOUS

-----------------------------------------------------------------------------
(***************************************************************************)
(* How the stream changes.                                                 *)
(***************************************************************************)
StreamTypes == buffer \in Seq(ServerMessages) /\ delivered \in Seq(ServerMessages)

\* The buffer stays or is lost; what a browser sees has no gap either way.
LEMMA KeptOrLost ==
    ASSUME StreamTypes, OutputHasNoGap, UNCHANGED delivered,
           UNCHANGED buffer \/ buffer' = <<>>
    PROVE  StreamTypes' /\ OutputHasNoGap'
<1>1. CASE UNCHANGED buffer
  BY <1>1 DEF StreamTypes, OutputHasNoGap, Sent
<1>2. CASE buffer' = <<>>
  <2>1. /\ delivered \o <<>> = delivered /\ <<>> \in Seq(ServerMessages)
        /\ Len(delivered) \in Nat /\ Len(Sent) \in Nat /\ Len(delivered) <= Len(Sent)
        /\ \A n \in 1..Len(delivered) : Sent[n] = delivered[n]
    BY DroppedIsPrefix DEF StreamTypes, Sent
  <2>2. Sent' = delivered /\ StreamTypes'
    BY <1>2, <2>1 DEF Sent, StreamTypes
  <2>3. ASSUME NEW n \in 1..Len(delivered)
        PROVE  IF delivered[n].type = "output" THEN delivered[n].chunk = n ELSE n = Len(delivered)
    <3>1. n \in 1..Len(Sent) /\ Sent[n] = delivered[n]
      BY <2>1
    <3>2. IF Sent[n].type = "output" THEN Sent[n].chunk = n ELSE n = Len(Sent)
      BY <3>1 DEF OutputHasNoGap
    <3> QED BY <2>1, <3>1, <3>2
  <2> QED BY <2>2, <2>3 DEF OutputHasNoGap
<1> QED BY <1>1, <1>2

\* A message is added to a stream of output alone: the next output, or an error.
LEMMA StreamGrows ==
    ASSUME StreamTypes, OutputHasNoGap, UNCHANGED delivered, NEW m \in ServerMessages,
           buffer' = Append(buffer, m), produced \in Nat, Len(Sent) = produced,
           \A n \in 1..Len(Sent) : Sent[n].type = "output",
           m.type = "output" => m.chunk = produced + 1
    PROVE  /\ StreamTypes' /\ OutputHasNoGap' /\ Len(Sent') = produced + 1
           /\ m.type = "output" => \A n \in 1..Len(Sent') : Sent'[n].type = "output"
<1>1. StreamTypes' /\ Sent \in Seq(ServerMessages) /\ Sent' = Append(Sent, m)
  BY BufferedIsSent DEF StreamTypes, Sent
<1>2. /\ Len(Sent') = Len(Sent) + 1 /\ Len(Sent) \in Nat /\ Sent'[Len(Sent) + 1] = m
      /\ \A n \in 1..Len(Sent) : Sent'[n] = Sent[n]
  BY <1>1
<1>3. ASSUME NEW n \in 1..Len(Sent')
      PROVE  /\ IF Sent'[n].type = "output" THEN Sent'[n].chunk = n ELSE n = Len(Sent')
             /\ m.type = "output" => Sent'[n].type = "output"
  <2>1. CASE n \in 1..Len(Sent)
    BY <2>1, <1>2 DEF OutputHasNoGap
  <2>2. CASE n = Len(Sent) + 1
    BY <2>2, <1>2
  <2> QED BY <2>1, <2>2, <1>2
<1> QED BY <1>1, <1>2, <1>3 DEF OutputHasNoGap

\* The message is one of the type.
LEMMA MessageTypes ==
    ASSUME ChunksAssumption, NEW size \in Sizes, NEW type \in {"output", "error"},
           NEW chunk \in 0..MaxChunks
    PROVE  /\ ServerMessage(type, chunk, size) \in ServerMessages
           /\ ServerMessage(type, chunk, size).type = type
           /\ ServerMessage(type, chunk, size).chunk = chunk
  BY DEF ServerMessage, ServerMessages

-----------------------------------------------------------------------------
(***************************************************************************)
(* The steps.                                                              *)
(***************************************************************************)
\* The end of the bridge ends both sides and keeps the beginning of the stream.
LEMMA BridgeEndKeeps ==
    ASSUME ChunksAssumption, IInv, NEW n \in 0..Listeners, bridge' = "closed", Dispose(n),
           pty' \in {"exited", "killed"}, websocket' \in {"closing", "closed"},
           UNCHANGED buffer \/ buffer' = <<>>,
           UNCHANGED <<delivered, authority>>, produced' \in 0..MaxChunks, written' \in 0..MaxChunks
    PROVE  IInv'
<1>1. StreamTypes' /\ OutputHasNoGap'
  BY KeptOrLost DEF IInv, TypeOK, StreamTypes
<1>2. listening' \in 0..Listeners
  BY DEF Dispose, ChunksAssumption
<1>3. TypeOK'
  BY <1>1, <1>2 DEF IInv, TypeOK, StreamTypes
<1> QED BY <1>1, <1>3 DEF IInv, EndsTogether, EverythingIsSent

\* shutdown, whatever throws on the way
LEMMA BridgeShutdownKeeps ==
    ASSUME ChunksAssumption, IInv, NEW n \in 0..Listeners, BridgeShutdown(n),
           UNCHANGED <<delivered, authority>>, produced' \in 0..MaxChunks, written' \in 0..MaxChunks
    PROVE  IInv'
<1>1. bridge' = "closed" /\ Dispose(n) /\ pty' \in {"exited", "killed"}
  BY DEF BridgeShutdown, Kill, IInv, TypeOK
<1>2. websocket' \in {"closing", "closed"} /\ (UNCHANGED buffer \/ buffer' = <<>>)
  BY DEF BridgeShutdown, CloseSocket, IInv, TypeOK
<1> QED BY <1>1, <1>2, BridgeEndKeeps

\* A step that leaves the stream and both sides alone
LEMMA QuietStepKeeps ==
    ASSUME IInv, UNCHANGED <<bridge, listening, websocket, produced, buffer, delivered>>,
           pty' = pty \/ (pty' = "exited" /\ bridge = "closed"),
           written' \in 0..MaxChunks, authority' \in BOOLEAN
    PROVE  IInv'
<1>1. TypeOK'
  BY DEF IInv, TypeOK
<1>2. Sent' = Sent
  BY DEF Sent
<1> QED BY <1>1, <1>2 DEF IInv, EverythingIsSent, OutputHasNoGap, EndsTogether

\* The constructor subscribes, or undoes what it did.
LEMMA ConstructKeeps ==
    ASSUME ChunksAssumption, IInv, NEW n \in 0..Listeners, Construct(n)
    PROVE  IInv'
<1>0. bridge = "new" /\ UNCHANGED <<produced, delivered, authority, written>>
  BY DEF Construct
<1>1. CASE n = Listeners
  <2>1. bridge' = "open" /\ listening' = n /\ UNCHANGED <<pty, websocket, buffer>>
    BY <1>1 DEF Construct
  <2>2. TypeOK' /\ Sent' = Sent
    BY <1>0, <1>1, <2>1 DEF IInv, TypeOK, Sent
  <2> QED BY <1>0, <2>1, <2>2 DEF IInv, EverythingIsSent, OutputHasNoGap, EndsTogether
<1>2. CASE n # Listeners
  <2>1. BridgeShutdown(n) /\ produced' \in 0..MaxChunks /\ written' \in 0..MaxChunks
    BY <1>0, <1>2 DEF Construct, IInv, TypeOK
  <2> QED BY <1>0, <2>1, BridgeShutdownKeeps
<1> QED BY <1>1, <1>2

\* handleOutput sends the chunk, ends the bridge, or is ignored after its end.
LEMMA HandleOutputKeeps ==
    ASSUME ChunksAssumption, IInv, NEW size \in Sizes, HandleOutput(size)
    PROVE  IInv'
<1>0. /\ listening > 0 /\ produced < MaxChunks /\ produced' = produced + 1
      /\ UNCHANGED <<delivered, authority, written>>
      /\ produced \in 0..MaxChunks /\ produced' \in 0..MaxChunks /\ written' \in 0..MaxChunks
  BY DEF HandleOutput, IInv, TypeOK, ChunksAssumption
<1>1. CASE Ignores \/ websocket # "open"
  <2>1. bridge = "closed" /\ UNCHANGED <<bridge, listening, pty, websocket, buffer>>
    BY <1>1 DEF HandleOutput, Ignores, IInv, EverythingIsSent
  <2>2. TypeOK' /\ Sent' = Sent
    BY <1>0, <2>1 DEF IInv, TypeOK, Sent
  <2> QED BY <2>1, <2>2 DEF IInv, EverythingIsSent, OutputHasNoGap, EndsTogether
<1>2. CASE ~(Ignores \/ websocket # "open")
  <2> DEFINE m == ServerMessage("output", produced + 1, size)
  <2>1. m \in ServerMessages /\ m.type = "output" /\ m.chunk = produced + 1
    BY <1>0, MessageTypes
  <2>2. SendOutput(m) /\ bridge = "open"
    BY <1>0, <1>2 DEF HandleOutput, Ignores, IInv, TypeOK
  <2> HIDE DEF m
  <2>3. CASE BridgeShutdown(listening)
    <3>1. listening \in 0..Listeners
      BY DEF IInv, TypeOK
    <3> QED BY <1>0, <2>3, <3>1, BridgeShutdownKeeps
  <2>4. CASE buffer' = Append(buffer, m) /\ UNCHANGED <<bridge, listening, pty, websocket>>
    <3>1. /\ StreamTypes /\ OutputHasNoGap /\ Len(Sent) = produced /\ produced \in Nat
          /\ \A n \in 1..Len(Sent) : Sent[n].type = "output"
      BY <1>0, <2>2 DEF IInv, TypeOK, StreamTypes, EverythingIsSent
    <3>2. /\ StreamTypes' /\ OutputHasNoGap' /\ Len(Sent') = produced + 1
          /\ \A n \in 1..Len(Sent') : Sent'[n].type = "output"
      BY <1>0, <2>1, <2>4, <3>1, StreamGrows
    <3>3. TypeOK'
      BY <1>0, <2>4, <3>2 DEF IInv, TypeOK, StreamTypes
    <3>4. EverythingIsSent'
      BY <1>0, <2>2, <2>4, <3>2 DEF IInv, EverythingIsSent
    <3>5. EndsTogether'
      BY <2>2, <2>4 DEF EndsTogether
    <3> QED BY <3>2, <3>3, <3>4, <3>5 DEF IInv
  <2> QED BY <2>2, <2>3, <2>4 DEF SendOutput
<1> QED BY <1>1, <1>2

\* onExit tells the browser behind all output, or does not.
LEMMA HandleExitKeeps ==
    ASSUME ChunksAssumption, IInv, NEW size \in Sizes, HandleExit(size)
    PROVE  IInv'
<1>0. /\ listening > 0 /\ pty' = "exited"
      /\ UNCHANGED <<produced, delivered, authority, written>>
      /\ produced \in 0..MaxChunks /\ written \in 0..MaxChunks /\ listening \in 0..Listeners
  BY DEF HandleExit, IInv, TypeOK
<1>1. CASE Ignores
  <2>1. /\ bridge = "closed" /\ UNCHANGED <<bridge, listening, websocket, buffer>>
        /\ authority \in BOOLEAN
    BY <1>1 DEF HandleExit, Ignores, IInv, TypeOK
  <2> QED BY <1>0, <2>1, QuietStepKeeps
<1>2. CASE ~Ignores
  <2>1. bridge' = "closed" /\ Dispose(listening) /\ Told(size) /\ bridge = "open"
    BY <1>0, <1>2 DEF HandleExit, Ignores, IInv, TypeOK
  <2> DEFINE m == ServerMessage("error", 0, size)
  <2>2. m \in ServerMessages /\ m.type = "error"
    <3>1. 0 \in 0..MaxChunks
      BY DEF ChunksAssumption
    <3> QED BY <3>1, MessageTypes
  <2>3. CASE websocket = "open" /\ buffer' = Append(buffer, m) /\ websocket' = "closing"
    <3> HIDE DEF m
    <3>1. /\ StreamTypes /\ OutputHasNoGap /\ Len(Sent) = produced /\ produced \in Nat
          /\ \A n \in 1..Len(Sent) : Sent[n].type = "output"
      BY <1>0, <2>1 DEF IInv, TypeOK, StreamTypes, EverythingIsSent, ChunksAssumption
    <3>2. StreamTypes' /\ OutputHasNoGap'
      BY <1>0, <2>2, <2>3, <3>1, StreamGrows
    <3>3. listening' \in 0..Listeners
      BY <1>0, <2>1 DEF Dispose, ChunksAssumption
    <3>4. TypeOK'
      BY <1>0, <2>1, <2>3, <3>2, <3>3 DEF IInv, TypeOK, StreamTypes
    <3> QED BY <1>0, <2>1, <2>3, <3>2, <3>4 DEF IInv, EverythingIsSent, EndsTogether
  <2>4. CASE CloseSocket
    <3>1. websocket' \in {"closing", "closed"} /\ (UNCHANGED buffer \/ buffer' = <<>>)
      BY <2>4 DEF CloseSocket, IInv, TypeOK
    <3> QED BY <1>0, <2>1, <3>1, BridgeEndKeeps
  <2> QED BY <2>1, <2>3, <2>4 DEF Told
<1> QED BY <1>1, <1>2

\* The network takes a message from the buffer, nothing from the stream.
LEMMA ReceiveKeeps == ASSUME IInv, Receive PROVE IInv' /\ Sent' = Sent
<1>0. /\ buffer # <<>> /\ buffer' = Tail(buffer) /\ delivered' = Append(delivered, Head(buffer))
      /\ UNCHANGED <<bridge, listening, pty, websocket, produced, authority, written>>
  BY DEF Receive
<1>1. /\ Tail(buffer) \in Seq(ServerMessages)
      /\ Append(delivered, Head(buffer)) \in Seq(ServerMessages)
      /\ Append(delivered, Head(buffer)) \o Tail(buffer) = delivered \o buffer
  BY <1>0, DeliveredStaysSent DEF IInv, TypeOK
<1>2. Sent' = Sent
  BY <1>0, <1>1 DEF Sent
<1>3. TypeOK'
  BY <1>0, <1>1 DEF IInv, TypeOK
<1> QED BY <1>0, <1>2, <1>3 DEF IInv, EverythingIsSent, OutputHasNoGap, EndsTogether

\* handleMessage writes input, ends the bridge, or does nothing.
LEMMA HandleMessageKeeps ==
    ASSUME ChunksAssumption, IInv, NEW type, HandleMessage(type)
    PROVE  IInv'
<1>0. /\ written < MaxChunks /\ UNCHANGED <<produced, delivered, authority>>
      /\ written \in 0..MaxChunks /\ produced \in 0..MaxChunks /\ listening \in 0..Listeners
      /\ authority \in BOOLEAN
  BY DEF HandleMessage, IInv, TypeOK
<1>1. CASE UNCHANGED <<bridge, listening, pty, websocket, buffer, written>>
  BY <1>0, <1>1, QuietStepKeeps
<1>2. CASE written' = written + 1 /\ UNCHANGED <<bridge, listening, pty, websocket, buffer>>
  <2>1. written' \in 0..MaxChunks
    BY <1>0, <1>2 DEF ChunksAssumption
  <2> QED BY <1>0, <1>2, <2>1, QuietStepKeeps
<1>3. CASE BridgeShutdown(listening) /\ UNCHANGED written
  BY <1>0, <1>3, BridgeShutdownKeeps
<1> QED BY <1>1, <1>2, <1>3 DEF HandleMessage

\* The socket is gone, and the bridge with it.
LEMMA HandleCloseKeeps == ASSUME ChunksAssumption, IInv, HandleClose PROVE IInv'
<1>0. /\ bridge # "new" /\ websocket' = "closed" /\ buffer' = <<>>
      /\ UNCHANGED <<produced, delivered, authority, written>>
      /\ written \in 0..MaxChunks /\ produced \in 0..MaxChunks /\ listening \in 0..Listeners
  BY DEF HandleClose, IInv, TypeOK
<1>1. CASE listening = 0 \/ Ignores
  <2>1. UNCHANGED <<bridge, listening, pty>> /\ bridge = "closed"
    BY <1>0, <1>1 DEF HandleClose, Ignores, IInv, TypeOK, ChunksAssumption
  <2>2. Dispose(listening)
    BY <1>0, <2>1 DEF Dispose
  <2>3. pty' \in {"exited", "killed"}
    BY <2>1 DEF IInv, TypeOK, EndsTogether
  <2> QED BY <1>0, <2>1, <2>2, <2>3, BridgeEndKeeps
<1>2. CASE ~(listening = 0 \/ Ignores)
  <2>1. bridge' = "closed" /\ Dispose(listening) /\ pty' \in {"exited", "killed"}
    BY <1>2 DEF HandleClose, Kill, IInv, TypeOK
  <2> QED BY <1>0, <2>1, BridgeEndKeeps
<1> QED BY <1>1, <1>2


\* Every step keeps the invariant.
LEMMA StepHolds == ASSUME ChunksAssumption, IInv, [Next]_vars PROVE IInv'
<1>1. CASE Close
  <2>1. /\ BridgeShutdown(listening) /\ UNCHANGED <<produced, delivered, authority, written>>
        /\ written \in 0..MaxChunks /\ produced \in 0..MaxChunks /\ listening \in 0..Listeners
    BY <1>1 DEF Close, IInv, TypeOK
  <2> QED BY <2>1, BridgeShutdownKeeps
<1>2. CASE AuthorityRevoked
  <2>1. /\ UNCHANGED <<bridge, listening, pty, websocket, produced, buffer, delivered, written>>
        /\ written \in 0..MaxChunks /\ authority' \in BOOLEAN
    BY <1>2 DEF AuthorityRevoked, streamVars, IInv, TypeOK
  <2> QED BY <2>1, QuietStepKeeps
<1>3. CASE UNCHANGED vars
  <2>1. /\ UNCHANGED <<bridge, listening, pty, websocket>>
        /\ UNCHANGED <<produced, buffer, delivered, authority, written>>
        /\ written \in 0..MaxChunks /\ authority \in BOOLEAN
    BY <1>3 DEF vars, IInv, TypeOK
  <2> QED BY <2>1, QuietStepKeeps
<1> QED BY <1>1, <1>2, <1>3, ReceiveKeeps, HandleCloseKeeps, ConstructKeeps, HandleOutputKeeps,
        HandleExitKeeps, HandleMessageKeeps DEF Next

-----------------------------------------------------------------------------
\* The invariant of the bridge holds for every limit, size and number of chunks.
THEOREM BridgeIsSound == ASSUME ChunksAssumption PROVE Spec => []IInv
<1>1. Init => IInv
  <2> SUFFICES ASSUME Init PROVE IInv
    OBVIOUS
  <2>1. /\ buffer = <<>> /\ delivered = <<>> /\ bridge = "new" /\ listening = 0 /\ produced = 0
        /\ websocket = "open" /\ pty = "running" /\ authority = TRUE /\ written = 0
    BY DEF Init
  <2>2. Sent = <<>> /\ Len(Sent) = 0
    BY <2>1 DEF Sent
  <2>3. TypeOK
    BY <2>1 DEF TypeOK, ChunksAssumption
  <2> QED BY <2>1, <2>2, <2>3 DEF IInv, EverythingIsSent, OutputHasNoGap, EndsTogether
<1>2. IInv /\ [Next]_vars => IInv'
  BY StepHolds
<1> QED BY <1>1, <1>2, PTL DEF Spec

\* What a browser was sent is the output from its beginning, without a gap or a
\* repetition, and an error message comes last.
THEOREM OutputNeverHasGap == ASSUME ChunksAssumption PROVE Spec => []OutputHasNoGap
<1>1. IInv => OutputHasNoGap
  BY DEF IInv
<1> QED BY <1>1, BridgeIsSound, PTL

\* Neither the process nor the socket outlives the bridge, whatever throws.
THEOREM SidesEndTogether == ASSUME ChunksAssumption PROVE Spec => []EndsTogether
<1>1. IInv => EndsTogether
  BY DEF IInv
<1> QED BY <1>1, BridgeIsSound, PTL

\* A sequence is a prefix of itself, and what is left of the stream without its
\* buffer is one of the stream.
LEMMA StreamPrefixes ==
    ASSUME StreamTypes
    PROVE  IsPrefix(Sent, Sent) /\ IsPrefix(delivered \o <<>>, Sent)
<1>1. /\ delivered \o <<>> = delivered
      /\ Len(delivered) \in Nat /\ Len(Sent) \in Nat /\ Len(delivered) <= Len(Sent)
      /\ \A n \in 1..Len(delivered) : Sent[n] = delivered[n]
      /\ delivered \in Seq(ServerMessages) /\ Sent \in Seq(ServerMessages)
  BY DroppedIsPrefix, BufferedIsSent DEF StreamTypes, Sent
<1>2. IsPrefix(Sent, Sent)
  BY <1>1 DEF IsPrefix
<1>3. SubSeq(delivered, 1, Len(delivered)) = SubSeq(Sent, 1, Len(delivered))
  BY <1>1
<1>4. IsPrefix(delivered, Sent)
  BY <1>1, <1>3 DEF IsPrefix
<1> QED BY <1>1, <1>2, <1>4

\* A bridge that has closed neither sends nor writes, even when a listener could
\* not be disposed of.
THEOREM ClosedBridgeIsSilent == ASSUME ChunksAssumption PROVE Spec => [][ClosedIsSilent]_vars
<1>1. ASSUME IInv, Next PROVE ClosedIsSilent
  <2> SUFFICES ASSUME bridge = "closed"
               PROVE  written' = written /\ IsPrefix(delivered' \o buffer', Sent)
    BY DEF ClosedIsSilent
  <2>1. StreamTypes /\ websocket # "open"
    BY <1>1 DEF IInv, TypeOK, StreamTypes, EndsTogether
  <2>2. IsPrefix(Sent, Sent) /\ IsPrefix(delivered \o <<>>, Sent)
    BY <2>1, StreamPrefixes
  <2>3. ASSUME UNCHANGED <<delivered, buffer, written>>
        PROVE  written' = written /\ IsPrefix(delivered' \o buffer', Sent)
    BY <2>2, <2>3 DEF Sent
  <2>4. CASE Receive
    <3>1. Sent' = Sent /\ written' = written
      BY <1>1, <2>4, ReceiveKeeps DEF Receive
    <3> QED BY <2>2, <3>1 DEF Sent
  <2>5. CASE HandleClose
    BY <2>2, <2>5 DEF HandleClose
  <2>6. ASSUME NEW size \in Sizes, HandleOutput(size) \/ HandleExit(size)
        PROVE  UNCHANGED <<delivered, buffer, written>>
    BY <2>6 DEF HandleOutput, HandleExit, Ignores
  <2>7. ASSUME NEW type \in {"input", "resize", "malformed"}, HandleMessage(type)
        PROVE  UNCHANGED <<delivered, buffer, written>>
    BY <2>7 DEF HandleMessage, Ignores
  <2>8. ASSUME AuthorityRevoked PROVE UNCHANGED <<delivered, buffer, written>>
    BY <2>8 DEF AuthorityRevoked, streamVars
  <2> QED BY <1>1, <2>3, <2>4, <2>5, <2>6, <2>7, <2>8 DEF Next, Close, Construct
<1>2. IInv /\ [Next]_vars => [ClosedIsSilent]_vars
  BY <1>1
<1> QED BY <1>2, BridgeIsSound, PTL DEF Spec

-----------------------------------------------------------------------------
(***************************************************************************)
(* The size of the buffer.  A message joins it only when the sum with it   *)
(* stays below the limit, so all that needs an argument is that a message  *)
(* that leaves takes its size with it.                                     *)
(***************************************************************************)
\* The sum of the sizes, message by message
IsTotal(f, q) ==
    /\ f \in [0 .. Len(q) -> Nat] /\ f[0] = 0
    /\ \A k \in 1 .. Len(q) : f[k] = q[k].size + f[k - 1]

\* Bytes is such a sum.
LEMMA BytesAreTotal ==
    ASSUME SizesAssumption, NEW q \in Seq(ServerMessages)
    PROVE  \E f : IsTotal(f, q) /\ Bytes(q) = f[Len(q)]
  <1> DEFINE F == [p \in Nat \X ServerMessages |-> p[2].size + p[1]]
             Run(f) == f = [n \in 0 .. Len(q) |-> IF n = 0 THEN 0 ELSE q[n].size + f[n - 1]]
             f == CHOOSE f : Run(f)
  <1>0. /\ Len(q) \in Nat /\ \A k \in 1 .. Len(q) : q[k] \in ServerMessages
        /\ \A m \in ServerMessages : m.size \in Nat
    <2>1. Len(q) \in Nat /\ \A k \in 1 .. Len(q) : q[k] \in ServerMessages
      OBVIOUS
    <2>2. \A m \in ServerMessages : m.size \in Nat
      BY DEF ServerMessages, SizesAssumption
    <2> QED BY <2>1, <2>2
  <1>1. F \in [Nat \X ServerMessages -> Nat]
    BY <1>0
  <1>2. \E h : Run(h)
    <2>1. \E h : TypedLoop(h, F, Nat, 0, q)
      <3> HIDE DEF F
      <3> QED BY <1>1, LoopIsTyped
    <2> PICK h : TypedLoop(h, F, Nat, 0, q)
      BY <2>1
    <2>2. /\ h \in [0 .. Len(q) -> Nat] /\ h[0] = 0
          /\ \A k \in 1 .. Len(q) : h[k] = F[<<h[k - 1], q[k]>>]
      <3> HIDE DEF F
      <3> QED BY DEF TypedLoop
    <2>3. ASSUME NEW k \in 1 .. Len(q) PROVE h[k] = q[k].size + h[k - 1]
      <3>1. k - 1 \in 0 .. Len(q)
        BY <1>0
      <3>2. h[k - 1] \in Nat /\ q[k] \in ServerMessages
        BY <1>0, <2>2, <3>1
      <3> QED BY <2>2, <3>2
    <2> HIDE DEF F
    <2>4. \A k \in 0 .. Len(q) : h[k] = IF k = 0 THEN 0 ELSE q[k].size + h[k - 1]
      BY <1>0, <2>2, <2>3
    <2>5. Run(h)
      BY <2>2, <2>4
    <2> QED BY <2>5
  <1>3. Run(f)
    BY <1>2
  <1>4. Bytes(q) = f[Len(q)]
    BY DEF Bytes
  <1> HIDE DEF f, F
  <1>5. f[0] = 0 /\ \A k \in 1 .. Len(q) : f[k] = q[k].size + f[k - 1]
    <2> DEFINE Body(n) == IF n = 0 THEN 0 ELSE q[n].size + f[n - 1]
               e == [n \in 0 .. Len(q) |-> Body(n)]
    <2>1. f = e
      BY <1>3
    <2>2. \A n \in 0 .. Len(q) : e[n] = Body(n)
      <3> HIDE DEF Body
      <3> QED OBVIOUS
    <2>3. Body(0) = 0 /\ \A k \in 1 .. Len(q) : Body(k) = q[k].size + f[k - 1]
      OBVIOUS
    <2>4. 0 \in 0 .. Len(q) /\ \A k \in 1 .. Len(q) : k \in 0 .. Len(q)
      BY <1>0
    <2> HIDE DEF Body, e
    <2> QED BY <2>1, <2>2, <2>3, <2>4
  <1> DEFINE S == {k \in Nat : f[k] \in Nat}
  <1>6. 0 \in S
    BY <1>5
  <1>7. ASSUME NEW k \in 1 .. Len(q), k - 1 \in S PROVE k \in S
    <2>1. q[k].size \in Nat /\ f[k - 1] \in Nat /\ k \in Nat
      BY <1>0, <1>7
    <2> QED BY <1>5, <2>1
  <1>8. \A k \in 0 .. Len(q) : k \in S
    <2> HIDE DEF S
    <2> QED BY <1>0, <1>6, <1>7, UpTo
  <1>9. f \in [0 .. Len(q) -> Nat]
    <2>1. f = [k \in 0 .. Len(q) |-> f[k]]
      BY <1>3
    <2> QED BY <1>8, <2>1
  <1> QED BY <1>4, <1>5, <1>9 DEF IsTotal

\* A message that leaves takes its size with it.
LEMMA TailIsSmaller ==
    ASSUME SizesAssumption, NEW b \in Seq(ServerMessages), b # <<>>
    PROVE  Bytes(Tail(b)) \in Nat /\ Bytes(b) \in Nat /\ Bytes(Tail(b)) <= Bytes(b)
  <1> DEFINE q == Tail(b)
  <1>0. /\ q \in Seq(ServerMessages) /\ Len(b) \in Nat /\ Len(b) > 0 /\ Len(q) = Len(b) - 1
        /\ \A k \in 1 .. Len(q) : q[k] = b[k + 1]
    OBVIOUS
  <1>1. b[1] \in ServerMessages /\ b[1].size \in Nat
    <2>1. b[1] \in ServerMessages
      BY <1>0
    <2> QED BY <2>1 DEF ServerMessages, SizesAssumption
  <1> HIDE DEF q
  <1> PICK f : IsTotal(f, b) /\ Bytes(b) = f[Len(b)]
    BY BytesAreTotal
  <1> PICK g : IsTotal(g, q) /\ Bytes(q) = g[Len(q)]
    BY <1>0, BytesAreTotal
  <1>2. /\ f \in [0 .. Len(b) -> Nat] /\ f[0] = 0
        /\ \A k \in 1 .. Len(b) : f[k] = b[k].size + f[k - 1]
        /\ g \in [0 .. Len(q) -> Nat] /\ g[0] = 0
        /\ \A k \in 1 .. Len(q) : g[k] = q[k].size + g[k - 1]
    BY DEF IsTotal
  <1> DEFINE S == {k \in 0 .. Len(q) : f[k + 1] = b[1].size + g[k]}
  <1>3. 0 \in S
    BY <1>0, <1>1, <1>2
  <1>4. ASSUME NEW k \in 1 .. Len(q), k - 1 \in S PROVE k \in S
    <2>1. /\ k + 1 \in 1 .. Len(b) /\ (k + 1) - 1 = k /\ (k - 1) + 1 = k
          /\ k \in 0 .. Len(q) /\ k - 1 \in 0 .. Len(q)
      BY <1>0
    <2>2. f[k] = b[1].size + g[k - 1] /\ g[k - 1] \in Nat
      BY <1>2, <1>4, <2>1
    <2>3. f[k + 1] = b[k + 1].size + f[k] /\ g[k] = b[k + 1].size + g[k - 1]
      BY <1>0, <1>2, <2>1
    <2>4. b[k + 1].size \in Nat
      <3>1. b[k + 1] \in ServerMessages
        BY <2>1
      <3> QED BY <3>1 DEF ServerMessages, SizesAssumption
    <2> QED BY <1>1, <2>1, <2>2, <2>3, <2>4
  <1>5. \A k \in 0 .. Len(q) : k \in S
    <2> HIDE DEF S
    <2>1. Len(q) \in Nat
      BY <1>0
    <2> QED BY <1>3, <1>4, <2>1, UpTo
  <1>6. f[Len(b)] = b[1].size + g[Len(q)] /\ g[Len(q)] \in Nat /\ f[Len(b)] \in Nat
    <2>1. Len(q) \in 0 .. Len(q) /\ Len(q) + 1 = Len(b) /\ Len(b) \in 0 .. Len(b)
      BY <1>0
    <2> QED BY <1>2, <1>5, <2>1
  <1>7. Bytes(q) \in Nat /\ Bytes(b) \in Nat /\ Bytes(q) <= Bytes(b)
    BY <1>1, <1>6
  <1> QED BY <1>7 DEF q

\* An empty buffer has no bytes.
LEMMA NothingIsSmall == ASSUME SizesAssumption PROVE Bytes(<<>>) = 0
  <1> PICK q : q = <<>>
    OBVIOUS
  <1>1. q \in Seq(ServerMessages) /\ Len(q) = 0
    OBVIOUS
  <1> PICK f : IsTotal(f, q) /\ Bytes(q) = f[Len(q)]
    BY <1>1, BytesAreTotal
  <1> QED BY <1>1 DEF IsTotal

\* The size of a buffer is a number.
LEMMA BytesAreNumber ==
    ASSUME SizesAssumption, NEW q \in Seq(ServerMessages) PROVE Bytes(q) \in Nat
  <1> PICK f : IsTotal(f, q) /\ Bytes(q) = f[Len(q)]
    BY BytesAreTotal
  <1>1. Len(q) \in 0 .. Len(q)
    OBVIOUS
  <1> QED BY <1>1 DEF IsTotal

\* What joins the buffer fits, what leaves it makes it smaller.
LEMMA BufferStepHolds ==
    ASSUME SizesAssumption, ChunksAssumption, TypeOK, BufferIsBounded, [Next]_vars
    PROVE  BufferIsBounded'
  <1>0. /\ MaxBufferedBytes \in Nat /\ 0 < MaxBufferedBytes /\ buffer \in Seq(ServerMessages)
        /\ produced \in 0..MaxChunks
    BY DEF SizesAssumption, TypeOK
  <1>1. ASSUME buffer' = buffer \/ buffer' = <<>> PROVE BufferIsBounded'
    BY <1>0, <1>1, NothingIsSmall DEF BufferIsBounded
  <1>2. ASSUME NEW m \in ServerMessages, ~Overflows(m), buffer' = Append(buffer, m)
        PROVE  BufferIsBounded'
    <2> PICK q : q = Append(buffer, m)
      OBVIOUS
    <2>1. q \in Seq(ServerMessages)
      BY <1>0
    <2>2. Bytes(q) \in Nat /\ ~(Bytes(q) >= MaxBufferedBytes)
      BY <1>2, <2>1, BytesAreNumber DEF Overflows
    <2>3. Bytes(q) < MaxBufferedBytes
      BY <1>0, <2>2
    <2>4. buffer' = q
      BY <1>2
    <2> QED BY <2>3, <2>4 DEF BufferIsBounded
  <1>3. ASSUME NEW n, BridgeShutdown(n) PROVE BufferIsBounded'
    BY <1>1, <1>3 DEF BridgeShutdown, CloseSocket
  <1>4. ASSUME NEW size \in Sizes, HandleOutput(size) PROVE BufferIsBounded'
    <2>1. CASE Ignores \/ websocket # "open"
      BY <1>1, <1>4, <2>1 DEF HandleOutput
    <2>2. CASE ~(Ignores \/ websocket # "open")
      <3> PICK m : m = ServerMessage("output", produced + 1, size)
        OBVIOUS
      <3>1. produced + 1 \in 0..MaxChunks
        BY <1>0, <1>4 DEF HandleOutput, ChunksAssumption
      <3>2. m \in ServerMessages
        BY <3>1, MessageTypes
      <3>3. SendOutput(m)
        BY <1>4, <2>2 DEF HandleOutput
      <3> QED BY <1>2, <1>3, <3>2, <3>3 DEF SendOutput
    <2> QED BY <2>1, <2>2
  <1>5. ASSUME NEW size \in Sizes, HandleExit(size) PROVE BufferIsBounded'
    <2>1. CASE Ignores
      BY <1>1, <1>5, <2>1 DEF HandleExit
    <2>2. CASE ~Ignores
      <3> PICK m : m = ServerMessage("error", 0, size)
        OBVIOUS
      <3>1. 0 \in 0..MaxChunks
        BY DEF ChunksAssumption
      <3>2. m \in ServerMessages
        BY <3>1, MessageTypes
      <3>3. (~Overflows(m) /\ buffer' = Append(buffer, m)) \/ CloseSocket
        BY <1>5, <2>2 DEF HandleExit, Told
      <3>4. CASE CloseSocket
        BY <1>1, <3>4 DEF CloseSocket
      <3> QED BY <1>2, <3>2, <3>3, <3>4
    <2> QED BY <2>1, <2>2
  <1>6. CASE Receive
    <2>1. buffer # <<>> /\ buffer' = Tail(buffer)
      BY <1>6 DEF Receive
    <2>2. /\ Bytes(Tail(buffer)) \in Nat /\ Bytes(buffer) \in Nat
          /\ Bytes(Tail(buffer)) <= Bytes(buffer)
      BY <1>0, <2>1, TailIsSmaller
    <2>3. Bytes(Tail(buffer)) < MaxBufferedBytes
      BY <1>0, <2>2 DEF BufferIsBounded
    <2> QED BY <2>1, <2>3 DEF BufferIsBounded
  <1>7. ASSUME NEW n \in 0..Listeners, Construct(n) PROVE BufferIsBounded'
    BY <1>1, <1>3, <1>7 DEF Construct
  <1>8. ASSUME NEW type, HandleMessage(type) PROVE BufferIsBounded'
    BY <1>1, <1>3, <1>8 DEF HandleMessage
  <1>9. ASSUME Close \/ AuthorityRevoked \/ HandleClose \/ UNCHANGED vars PROVE BufferIsBounded'
    BY <1>1, <1>3, <1>9 DEF Close, AuthorityRevoked, streamVars, HandleClose, vars
  <1> QED BY <1>4, <1>5, <1>6, <1>7, <1>8, <1>9 DEF Next

\* The send buffer of a browser stays below the limit for every limit, size and
\* number of chunks, however slow the browser is (sendOutput, sendLifecycleError).
THEOREM BufferStaysBounded ==
    ASSUME SizesAssumption, ChunksAssumption PROVE Spec => []BufferIsBounded
<1>1. Init => BufferIsBounded
  BY NothingIsSmall DEF Init, BufferIsBounded, SizesAssumption
<1>2. IInv => TypeOK
  BY DEF IInv
<1>3. TypeOK /\ BufferIsBounded /\ [Next]_vars => BufferIsBounded'
  BY BufferStepHolds
<1> QED BY <1>1, <1>2, <1>3, BridgeIsSound, PTL DEF Spec

\* The bridge as a whole: what the browser of a terminal is shown is a beginning of
\* the output of its pty, all of it while both live; its buffer stays below the
\* limit; the sides end together; and a closed bridge neither sends nor writes
\* (terminal-bridge.ts).
THEOREM TerminalIsAlwaysFaithful ==
    ASSUME SizesAssumption, ChunksAssumption PROVE Spec => TerminalIsFaithful
<1> QED BY BridgeIsSound, BufferStaysBounded, ClosedBridgeIsSilent, PTL DEF TerminalIsFaithful

-----------------------------------------------------------------------------
(***************************************************************************)
(* The sockets of the client: no hook ever loses one that is open, and a   *)
(* hook that was told to stop opens none.                                  *)
(*                                                                         *)
(* The argument: each hook fits its own state (HookFits), and it and the   *)
(* sockets agree on which of them is its own (JoinFits).  A step of one    *)
(* hook leaves the parts of the others alone; a suspension goes through    *)
(* all of them.  The registry of suspensions forgets nobody where there is *)
(* room for all terminals, because one that is full knows them all.        *)
(***************************************************************************)
-----------------------------------------------------------------------------
(***************************************************************************)
(* The registry of suspensions.                                            *)
(***************************************************************************)
SocketConstants == TerminalsAssumption /\ LimitsAssumption

\* The ids of the registry
GoodIds(q) == q \in Seq(Terminals) /\ Len(q) <= MaxIds /\ Once(q)

\* Where there is room for all terminals, a registry that is full knows all of them.
LEMMA FullKnowsAll ==
    ASSUME SocketConstants, RoomForAll, NEW q, GoodIds(q), Len(q) = MaxIds, NEW t \in Terminals
    PROVE  In(t, q)
  <1> SUFFICES ASSUME ~In(t, q) PROVE FALSE
    OBVIOUS
  <1>1. IsFiniteSet(Terminals) /\ Cardinality(Terminals) <= Len(q)
    BY DEF SocketConstants, TerminalsAssumption, RoomForAll
  <1> DEFINE T == Terminals \ {t}
             D == 1 .. Len(q)
  <1>2. IsFiniteSet(T) /\ Cardinality(T) = Cardinality(Terminals) - 1
    BY <1>1, FS_RemoveElement
  <1>3. Len(q) \in Nat /\ DOMAIN q = D
    BY DEF GoodIds
  <1>4. IsFiniteSet(D) /\ Cardinality(D) = Len(q)
    <2>1. 1 \in Int /\ Len(q) \in Int /\ 1 <= Len(q) + 1
      BY <1>3
    <2>2. /\ IsFiniteSet(1 .. Len(q))
          /\ Cardinality(1 .. Len(q)) = IF 1 > Len(q) THEN 0 ELSE Len(q) - 1 + 1
      BY <2>1, FS_Interval
    <2> QED BY <1>3, <2>2
  <1>5. Cardinality(Terminals) \in Nat
    BY <1>1, FS_CardinalityType
  <1>6. Cardinality(T) < Cardinality(D)
    BY <1>1, <1>2, <1>3, <1>4, <1>5
  <1>7. q \in [D -> T]
    BY <1>3 DEF GoodIds, In
  <1> HIDE DEF T, D
  <1>8. \E x, y \in D : x # y /\ q[x] = q[y]
    BY <1>2, <1>4, <1>6, <1>7, FS_PigeonHole
  <1> QED BY <1>3, <1>8 DEF GoodIds, Once

\* The newest of the ids, without the oldest where they were MaxIds
LEMMA OldestGoes ==
    ASSUME LimitsAssumption, NEW q, GoodIds(q), NEW z, Len(q) = MaxIds,
           z = SubSeq(q, Len(q) + 2 - MaxIds, Len(q))
    PROVE  /\ z \in Seq(Terminals) /\ Once(z) /\ Len(z) = MaxIds - 1
           /\ \A x : In(x, z) => In(x, q)
  <1>1. MaxIds \in Nat \ {0} /\ q \in Seq(Terminals) /\ DOMAIN q = 1 .. MaxIds
    BY DEF LimitsAssumption, GoodIds
  <1>2. Len(q) + 2 - MaxIds = 2 /\ 2 \in Int /\ MaxIds \in Int
    BY <1>1
  <1>3. z = SubSeq(q, 2, MaxIds)
    BY <1>2
  <1>4. \A i \in 2 .. MaxIds : q[i] \in Terminals
    BY <1>1
  <1>5. /\ z \in Seq(Terminals) /\ Len(z) = (IF 2 <= MaxIds THEN MaxIds - 2 + 1 ELSE 0)
        /\ \A i \in 1 .. MaxIds - 2 + 1 : z[i] = q[2 + i - 1]
    BY <1>2, <1>3, <1>4, SubSeqProperties
  <1>6. Len(z) = MaxIds - 1 /\ DOMAIN z = 1 .. MaxIds - 1
    BY <1>1, <1>5
  <1>7. \A i \in 1 .. MaxIds - 1 : z[i] = q[i + 1] /\ i + 1 \in DOMAIN q
    BY <1>1, <1>5
  <1>8. Once(z)
    <2> SUFFICES ASSUME NEW i \in 1 .. MaxIds - 1, NEW j \in 1 .. MaxIds - 1, z[i] = z[j]
                 PROVE  i = j
      BY <1>6 DEF Once
    <2>1. i + 1 = j + 1
      BY <1>7 DEF GoodIds, Once
    <2> QED BY <1>1, <2>1
  <1>9. \A x : In(x, z) => In(x, q)
    BY <1>6, <1>7 DEF In
  <1> QED BY <1>5, <1>6, <1>8, <1>9

\* rememberSuspension keeps the registry within its limit, and where there is room
\* for all terminals it forgets none.
LEMMA RememberIsGood ==
    ASSUME SocketConstants, NEW q, GoodIds(q), NEW t \in Terminals
    PROVE  /\ GoodIds(Remember(q, t)) /\ In(t, Remember(q, t))
           /\ RoomForAll => \A x : In(x, q) => In(x, Remember(q, t))
  <1>0. /\ q \in Seq(Terminals) /\ Once(q) /\ Len(q) <= MaxIds /\ LimitsAssumption
        /\ MaxIds \in Nat \ {0} /\ Len(q) \in Nat
    BY DEF GoodIds, SocketConstants, LimitsAssumption
  <1>1. Contains(q, t) <=> In(t, q)
    BY <1>0, ContainsIn
  <1>2. CASE In(t, q)
    BY <1>1, <1>2 DEF Remember
  <1>3. CASE ~In(t, q) /\ Len(q) < MaxIds
    <2>1. Remember(q, t) = Append(q, t)
      BY <1>1, <1>3 DEF Remember
    <2>2. Len(Append(q, t)) = Len(q) + 1
      BY <1>0
    <2>3. /\ Append(q, t) \in Seq(Terminals) /\ Once(Append(q, t))
          /\ \A x : In(x, Append(q, t)) <=> In(x, q) \/ x = t
      BY <1>0, <1>3, ChainGrows
    <2>4. Len(Append(q, t)) <= MaxIds
      BY <1>0, <1>3, <2>2
    <2> QED BY <2>1, <2>3, <2>4 DEF GoodIds
  <1>4. CASE ~In(t, q) /\ ~(Len(q) < MaxIds)
    <2>0. Len(q) = MaxIds
      BY <1>0, <1>4
    <2>1. PICK z : z = SubSeq(q, Len(q) + 2 - MaxIds, Len(q))
      OBVIOUS
    <2>2. Remember(q, t) = Append(z, t)
      BY <1>1, <1>4, <2>1 DEF Remember
    <2>3. /\ z \in Seq(Terminals) /\ Once(z) /\ Len(z) = MaxIds - 1
          /\ \A x : In(x, z) => In(x, q)
      BY <1>0, <2>0, <2>1, OldestGoes
    <2>4. ~In(t, z)
      BY <1>4, <2>3
    <2>5. /\ Append(z, t) \in Seq(Terminals) /\ Once(Append(z, t))
          /\ \A x : In(x, Append(z, t)) <=> In(x, z) \/ x = t
      BY <2>3, <2>4, ChainGrows
    <2>6. Len(Append(z, t)) <= MaxIds
      BY <1>0, <2>3
    <2>7. ~RoomForAll
      BY <1>4, <2>0, FullKnowsAll
    <2> QED BY <2>2, <2>5, <2>6, <2>7 DEF GoodIds
  <1> QED BY <1>2, <1>3, <1>4

\* rememberSuspension of several terminals
LEMMA RemembersAll ==
    ASSUME SocketConstants, NEW q, GoodIds(q), NEW r \in Seq(Terminals)
    PROVE  /\ GoodIds(RememberAll(q, r))
           /\ RoomForAll => \A x : In(x, q) \/ In(x, r) => In(x, RememberAll(q, r))
  <1> DEFINE G == {p \in Seq(Terminals) : GoodIds(p)}
             F == [p \in G \X Terminals |-> Remember(p[1], p[2])]
             Run(f) == f = [n \in 0 .. Len(r) |-> IF n = 0 THEN q ELSE Remember(f[n - 1], r[n])]
             f == CHOOSE f : Run(f)
  <1>0. /\ Len(r) \in Nat /\ DOMAIN r = 1 .. Len(r) /\ \A k \in 1 .. Len(r) : r[k] \in Terminals
    OBVIOUS
  <1>1. F \in [G \X Terminals -> G]
    <2>1. ASSUME NEW p \in G, NEW x \in Terminals PROVE Remember(p, x) \in G
      BY RememberIsGood DEF GoodIds
    <2> HIDE DEF G
    <2> QED BY <2>1
  <1>2. \E h : Run(h)
    <2>0. q \in G
      BY DEF GoodIds
    <2>1. \E h : TypedLoop(h, F, G, q, r)
      <3> HIDE DEF F, G
      <3> QED BY <1>1, <2>0, LoopIsTyped
    <2> PICK h : TypedLoop(h, F, G, q, r)
      BY <2>1
    <2>5. /\ h \in [0 .. Len(r) -> G] /\ h[0] = q
          /\ \A k \in 1 .. Len(r) : h[k] = F[<<h[k - 1], r[k]>>]
      <3> HIDE DEF F, G
      <3> QED BY DEF TypedLoop
    <2>2. ASSUME NEW k \in 1 .. Len(r) PROVE h[k] = Remember(h[k - 1], r[k])
      <3>1. h[k - 1] \in G /\ r[k] \in Terminals
        <4> HIDE DEF G
        <4>1. k - 1 \in 0 .. Len(r)
          BY <1>0
        <4> QED BY <1>0, <2>5, <4>1
      <3> HIDE DEF G
      <3> QED BY <2>5, <3>1
    <2> HIDE DEF F, G
    <2>3. \A k \in 0 .. Len(r) : h[k] = IF k = 0 THEN q ELSE Remember(h[k - 1], r[k])
      BY <1>0, <2>2, <2>5
    <2>4. Run(h)
      BY <2>3, <2>5
    <2> QED BY <2>4
  <1>3. Run(f)
    BY <1>2
  <1>4. RememberAll(q, r) = f[Len(r)]
    BY DEF RememberAll
  <1> HIDE DEF f, F, G
  <1>5. f[0] = q /\ \A k \in 1 .. Len(r) : f[k] = Remember(f[k - 1], r[k])
    <2> DEFINE Body(n) == IF n = 0 THEN q ELSE Remember(f[n - 1], r[n])
               e == [n \in 0 .. Len(r) |-> Body(n)]
    <2>1. f = e
      BY <1>3
    <2>2. \A n \in 0 .. Len(r) : e[n] = Body(n)
      <3> HIDE DEF Body
      <3> QED OBVIOUS
    <2>3. Body(0) = q /\ \A k \in 1 .. Len(r) : Body(k) = Remember(f[k - 1], r[k])
      OBVIOUS
    <2>4. 0 \in 0 .. Len(r) /\ \A k \in 1 .. Len(r) : k \in 0 .. Len(r)
      BY <1>0
    <2> HIDE DEF Body, e
    <2> QED BY <2>1, <2>2, <2>3, <2>4
  <1> DEFINE P(k) == /\ GoodIds(f[k])
                     /\ RoomForAll => \A x : In(x, q) \/ (\E i \in 1 .. k : r[i] = x) => In(x, f[k])
             D == {k \in Nat : P(k)}
  <1>6. 0 \in D
    BY <1>5
  <1>7. ASSUME NEW k \in 1 .. Len(r), k - 1 \in D PROVE k \in D
    <2>1. P(k - 1) /\ k \in Nat
      BY <1>7
    <2>2. f[k] = Remember(f[k - 1], r[k]) /\ r[k] \in Terminals
      BY <1>0, <1>5
    <2> DEFINE b == f[k - 1]
               t == r[k]
    <2>5. GoodIds(b) /\ t \in Terminals /\ f[k] = Remember(b, t)
      BY <2>1, <2>2
    <2>6. GoodIds(f[k]) /\ In(t, f[k]) /\ (RoomForAll => \A x : In(x, b) => In(x, f[k]))
      <3> HIDE DEF b, t
      <3> QED BY <2>5, RememberIsGood
    <2>3. /\ GoodIds(f[k]) /\ In(r[k], f[k])
          /\ RoomForAll => \A x : In(x, f[k - 1]) => In(x, f[k])
      BY <2>6
    <2>4. \A x : (\E i \in 1 .. k : r[i] = x) <=> (\E i \in 1 .. k - 1 : r[i] = x) \/ x = r[k]
      <3>1. \A i : i \in 1 .. k <=> i \in 1 .. k - 1 \/ i = k
        OBVIOUS
      <3> QED BY <3>1
    <2> QED BY <2>1, <2>3, <2>4
  <1>8. Len(r) \in D
    <2> HIDE DEF D
    <2>1. \A k \in 0 .. Len(r) : k \in D
      BY <1>0, <1>6, <1>7, UpTo
    <2> QED BY <1>0, <2>1
  <1>9. P(Len(r))
    BY <1>8
  <1> QED BY <1>0, <1>4, <1>9 DEF In

\* Some keys are deleted.
LEMMA ForgetsAll ==
    ASSUME NEW S, NEW q \in Seq(S), Once(q), NEW X
    PROVE  /\ ForgetAll(q, X) \in Seq(S) /\ Once(ForgetAll(q, X)) /\ Len(ForgetAll(q, X)) <= Len(q)
           /\ \A x : In(x, ForgetAll(q, X)) <=> In(x, q) /\ x \notin X
  <1> DEFINE Step(p, x) == IF x \in X THEN p ELSE Append(p, x)
             F == [p \in Seq(S) \X S |-> Step(p[1], p[2])]
             Run(f) == f = [n \in 0 .. Len(q) |-> IF n = 0 THEN <<>> ELSE
                                IF q[n] \in X THEN f[n - 1] ELSE Append(f[n - 1], q[n])]
             f == CHOOSE f : Run(f)
  <1>0. Len(q) \in Nat /\ DOMAIN q = 1 .. Len(q) /\ \A k \in 1 .. Len(q) : q[k] \in S
    OBVIOUS
  <1>1. F \in [Seq(S) \X S -> Seq(S)]
    <2>1. ASSUME NEW p \in Seq(S), NEW x \in S PROVE Step(p, x) \in Seq(S)
      OBVIOUS
    <2> HIDE DEF Step
    <2> QED BY <2>1
  <1>2. \E h : Run(h)
    <2>0. <<>> \in Seq(S)
      OBVIOUS
    <2>1. PICK n0 : n0 = <<>>
      OBVIOUS
    <2>2. \E h : TypedLoop(h, F, Seq(S), n0, q)
      <3>1. n0 \in Seq(S)
        BY <2>0, <2>1
      <3> DEFINE G == Seq(S)
      <3>2. F \in [G \X S -> G] /\ n0 \in G
        BY <1>1, <3>1
      <3> HIDE DEF F, G
      <3>3. \E h : TypedLoop(h, F, G, n0, q)
        BY <3>2, LoopIsTyped
      <3> QED BY <3>3 DEF G
    <2> PICK h : TypedLoop(h, F, Seq(S), n0, q)
      BY <2>2
    <2>5. /\ h \in [0 .. Len(q) -> Seq(S)] /\ h[0] = <<>>
          /\ \A k \in 1 .. Len(q) : h[k] = F[<<h[k - 1], q[k]>>]
      <3> HIDE DEF F
      <3> QED BY <2>1 DEF TypedLoop
    <2>3. ASSUME NEW k \in 1 .. Len(q) PROVE h[k] = Step(h[k - 1], q[k])
      <3>1. h[k - 1] \in Seq(S) /\ q[k] \in S
        <4>1. k - 1 \in 0 .. Len(q)
          BY <1>0
        <4> QED BY <1>0, <2>5, <4>1
      <3> HIDE DEF Step
      <3> QED BY <2>5, <3>1
    <2> HIDE DEF F
    <2>7. \A k \in 1 .. Len(q) :
              h[k] = IF q[k] \in X THEN h[k - 1] ELSE Append(h[k - 1], q[k])
      BY <2>3
    <2>8. h[0] = <<>> /\ \A k \in 0 .. Len(q) : k = 0 \/ k \in 1 .. Len(q)
      BY <1>0, <2>5
    <2>4. \A k \in 0 .. Len(q) : h[k] = IF k = 0 THEN <<>> ELSE
                                 IF q[k] \in X THEN h[k - 1] ELSE Append(h[k - 1], q[k])
      BY <2>7, <2>8, Zenon
    <2>6. Run(h)
      BY <2>4, <2>5
    <2> QED BY <2>6
  <1>3. Run(f)
    BY <1>2
  <1>4. ForgetAll(q, X) = f[Len(q)]
    BY DEF ForgetAll
  <1> HIDE DEF f, F
  <1>5. f[0] = <<>> /\ \A k \in 1 .. Len(q) : f[k] = Step(f[k - 1], q[k])
    <2> DEFINE Body(n) == IF n = 0 THEN <<>> ELSE
                              IF q[n] \in X THEN f[n - 1] ELSE Append(f[n - 1], q[n])
               e == [n \in 0 .. Len(q) |-> Body(n)]
    <2>1. f = e
      BY <1>3
    <2>2. \A n \in 0 .. Len(q) : e[n] = Body(n)
      <3> HIDE DEF Body
      <3> QED OBVIOUS
    <2>3. Body(0) = <<>> /\ \A k \in 1 .. Len(q) : Body(k) = Step(f[k - 1], q[k])
      OBVIOUS
    <2>4. 0 \in 0 .. Len(q) /\ \A k \in 1 .. Len(q) : k \in 0 .. Len(q)
      BY <1>0
    <2> HIDE DEF Body, e, Step
    <2> QED BY <2>1, <2>2, <2>3, <2>4
  <1> DEFINE P(k) == /\ f[k] \in Seq(S) /\ Once(f[k]) /\ Len(f[k]) <= k
                     /\ \A x : In(x, f[k]) <=> (\E i \in 1 .. k : q[i] = x) /\ x \notin X
             D == {k \in Nat : P(k)}
  <1>6. 0 \in D
    <2>1. f[0] = <<>> /\ f[0] \in Seq(S) /\ Len(f[0]) = 0 /\ DOMAIN f[0] = {}
      BY <1>5
    <2>2. Once(f[0]) /\ \A x : ~In(x, f[0])
      BY <2>1 DEF In, Once
    <2>3. \A i : i \notin 1 .. 0
      OBVIOUS
    <2> HIDE DEF f
    <2>4. P(0)
      BY <2>1, <2>2, <2>3
    <2> QED BY <2>4
  <1>7. ASSUME NEW k \in 1 .. Len(q), k - 1 \in D PROVE k \in D
    <2>1. P(k - 1) /\ k \in Nat
      BY <1>7
    <2>2. f[k] = Step(f[k - 1], q[k]) /\ q[k] \in S
      BY <1>0, <1>5
    <2>3. PICK b, t : b = f[k - 1] /\ t = q[k]
      OBVIOUS
    <2>4. /\ b \in Seq(S) /\ Once(b) /\ Len(b) <= k - 1 /\ Len(b) \in Nat /\ t \in S
          /\ \A x : In(x, b) <=> (\E i \in 1 .. k - 1 : q[i] = x) /\ x \notin X
      BY <2>1, <2>2, <2>3
    <2>5. \A x : (\E i \in 1 .. k : q[i] = x) <=> (\E i \in 1 .. k - 1 : q[i] = x) \/ x = t
      <3>1. \A i : i \in 1 .. k <=> i \in 1 .. k - 1 \/ i = k
        OBVIOUS
      <3> QED BY <2>3, <3>1
    <2>6. CASE t \in X
      <3>1. f[k] = b
        BY <2>2, <2>3, <2>6
      <3>2. Len(b) <= k
        BY <2>4
      <3>3. P(k)
        BY <2>4, <2>5, <2>6, <3>1, <3>2
      <3> QED BY <2>1, <3>3
    <2>7. CASE t \notin X
      <3>1. f[k] = Append(b, t)
        BY <2>2, <2>3, <2>7
      <3>2. ~In(t, b)
        <4> SUFFICES ASSUME NEW i \in 1 .. k - 1, q[i] = t PROVE FALSE
          BY <2>4
        <4>1. i \in DOMAIN q /\ k \in DOMAIN q /\ i # k
          BY <1>0
        <4> QED BY <2>3, <4>1 DEF Once
      <3>3. /\ Append(b, t) \in Seq(S) /\ Once(Append(b, t))
            /\ \A x : In(x, Append(b, t)) <=> In(x, b) \/ x = t
        BY <2>4, <3>2, ChainGrows
      <3>4. Len(Append(b, t)) <= k
        BY <2>4
      <3> QED BY <2>1, <2>4, <2>5, <2>7, <3>1, <3>3, <3>4
    <2> QED BY <2>6, <2>7
  <1>8. Len(q) \in D
    <2> HIDE DEF D
    <2>1. \A k \in 0 .. Len(q) : k \in D
      BY <1>0, <1>6, <1>7, UpTo
    <2> QED BY <1>0, <2>1
  <1>9. P(Len(q))
    BY <1>8
  <1> QED BY <1>0, <1>4, <1>9 DEF In

-----------------------------------------------------------------------------
(***************************************************************************)
(* A hook by itself, and the hooks with their sockets.                     *)
(***************************************************************************)
\* What holds for the hook h of a terminal where reconnecting is of kind b
HookFits(h, b) ==
    /\ h \in Hooks /\ h.current = h.sock
    /\ h.timer => b = "automatic" /\ h.sock = NoSocket /\ ~h.stopped
    /\ h.authSuspended \/ h.manualSuspended => h.stopped
    /\ ~h.mounted => h = Unmounted
    /\ h.mounted => /\ h.stopped <=> h.status = "disconnected"
                    /\ ~h.stopped => h.sock # NoSocket \/ h.timer
                    /\ h.stopped => h.sock = NoSocket /\ ~h.timer

\* What holds for a hook whose connect is to be called
HookIsFree(h, b) ==
    /\ h \in Hooks /\ h.mounted /\ h.sock = NoSocket /\ h.current = NoSocket
    /\ h.timer => b = "automatic" /\ ~h.stopped
    /\ h.authSuspended \/ h.manualSuspended => h.stopped
    /\ h.stopped => h.status = "disconnected"
    /\ h.status # "connected"

\* The sockets C are those of the hooks H.
JoinFits(H, C) ==
    /\ \A t \in Terminals : H[t].sock # NoSocket =>
           C[H[t].sock].tab = t /\ C[H[t].sock].heard /\ C[H[t].sock].st # "none"
    /\ \A t \in Terminals : H[t].status = "connected" =>
           H[t].sock # NoSocket /\ C[H[t].sock].st = "open"
    /\ \A s \in BrowserSockets : C[s].heard => C[s].tab \in Terminals /\ H[C[s].tab].sock = s
    /\ \A s \in BrowserSockets : C[s].st \in {"connecting", "open"} => C[s].heard

\* Hooks H and sockets C where reconnecting is of kind b
SocketsFit(H, C, b) ==
    /\ H \in [Terminals -> Hooks] /\ C \in [BrowserSockets -> Connections]
    /\ b \in {"automatic", "manual"}
    /\ \A t \in Terminals : HookFits(H[t], b)
    /\ JoinFits(H, C)

LEMMA UnmountedFits ==
    ASSUME SocketConstants, NEW b
    PROVE  Unmounted \in Hooks /\ HookFits(Unmounted, b)
  <1>1. 0 \in 0 .. RetrySteps
    BY DEF SocketConstants, LimitsAssumption
  <1>2. Unmounted \in Hooks
    BY <1>1 DEF Unmounted, Hooks
  <1>3. /\ Unmounted.current = NoSocket /\ Unmounted.sock = NoSocket /\ ~Unmounted.timer
        /\ Unmounted.stopped /\ ~Unmounted.mounted
    BY DEF Unmounted
  <1> QED BY <1>2, <1>3 DEF HookFits

\* scheduleRetry of a hook without a socket
LEMMA RetryFits ==
    ASSUME SocketConstants, NEW b \in {"automatic", "manual"}, NEW h,
           h \in Hooks, h.mounted, h.sock = NoSocket, h.current = NoSocket,
           h.timer => b = "automatic" /\ ~h.stopped,
           h.authSuspended \/ h.manualSuspended => h.stopped
    PROVE  /\ HookFits(ScheduleRetry(h, b), b) /\ ScheduleRetry(h, b).sock = NoSocket
           /\ ScheduleRetry(h, b).status # "connected" /\ ScheduleRetry(h, b).mounted
           /\ ScheduleRetry(h, b).preserve = h.preserve
           /\ h.stopped => /\ ScheduleRetry(h, b).stopped
                           /\ ScheduleRetry(h, b).manualSuspended = h.manualSuspended
  <1>0. RetrySteps \in Nat
    BY DEF SocketConstants, LimitsAssumption
  <1>1. CASE h.stopped
    <2> DEFINE r == [h EXCEPT !.status = "disconnected"]
    <2>1. ScheduleRetry(h, b) = r
      BY <1>1 DEF ScheduleRetry
    <2>2. HookFits(r, b) /\ r.sock = NoSocket /\ r.status # "connected" /\ r.mounted
          /\ r.preserve = h.preserve /\ r.stopped /\ r.manualSuspended = h.manualSuspended
      BY <1>1 DEF HookFits, Hooks
    <2> QED BY <2>1, <2>2
  <1>2. CASE ~h.stopped /\ b = "manual"
    <2> DEFINE r == [h EXCEPT !.stopped = TRUE, !.manualSuspended = TRUE, !.timer = FALSE,
                              !.status = "disconnected"]
    <2>1. ScheduleRetry(h, b) = r
      BY <1>2 DEF ScheduleRetry
    <2>2. HookFits(r, b) /\ r.sock = NoSocket /\ r.status # "connected" /\ r.mounted
          /\ r.preserve = h.preserve
      BY <1>2 DEF HookFits, Hooks
    <2> QED BY <1>2, <2>1, <2>2
  <1>3. CASE ~h.stopped /\ b = "automatic"
    <2>0. PICK a : a = IF h.attempt < RetrySteps THEN h.attempt + 1 ELSE h.attempt
      OBVIOUS
    <2>1. a \in 0 .. RetrySteps
      BY <1>0, <2>0 DEF Hooks
    <2> DEFINE r == [h EXCEPT !.timer = TRUE, !.status = "reconnecting", !.attempt = a]
    <2>2. ScheduleRetry(h, b) = r
      BY <1>3, <2>0 DEF ScheduleRetry
    <2>3. HookFits(r, b) /\ r.sock = NoSocket /\ r.status # "connected" /\ r.mounted
          /\ r.preserve = h.preserve
      BY <1>3, <2>1 DEF HookFits, Hooks
    <2> QED BY <1>3, <2>2, <2>3
  <1> QED BY <1>1, <1>2, <1>3

\* connect gives a hook the socket, or the retry, that it needs.
LEMMA ConnectFits ==
    ASSUME SocketConstants, NEW b \in {"automatic", "manual"}, NEW h, HookIsFree(h, b),
           NEW s \in BrowserSockets \cup {NoSocket}
    PROVE  /\ HookFits(Connect(h, b, s), b) /\ Connect(h, b, s).mounted
           /\ Connect(h, b, s).sock = IF Connects(h) THEN s ELSE NoSocket
           /\ Connect(h, b, s).status # "connected" /\ Connect(h, b, s).preserve = h.preserve
           /\ ~Connects(h) => Connect(h, b, s) = h
  <1>1. CASE ~Connects(h)
    <2>1. Connect(h, b, s) = h
      BY <1>1 DEF Connect
    <2>2. h.stopped
      BY <1>1 DEF Connects, HookIsFree
    <2>3. HookFits(h, b)
      BY <2>2 DEF HookIsFree, HookFits
    <2> QED BY <1>1, <2>1, <2>3 DEF HookIsFree
  <1>2. CASE Connects(h)
    <2>0. PICK d : d = IF h.attempt = 0 THEN "connecting" ELSE "reconnecting"
      OBVIOUS
    <2>1. d \in {"connecting", "reconnecting"}
      BY <2>0
    <2>2. PICK v : v = [h EXCEPT !.timer = FALSE, !.current = s, !.sock = s, !.status = d]
      OBVIOUS
    <2>3. Connect(h, b, s) = IF s = NoSocket THEN ScheduleRetry(v, b) ELSE v
      BY <1>2, <2>0, <2>2 DEF Connect
    <2>4. /\ v \in Hooks /\ v.mounted /\ v.sock = s /\ v.current = s /\ ~v.timer /\ ~v.stopped
          /\ v.preserve = h.preserve /\ v.status = d
          /\ ~v.authSuspended /\ ~v.manualSuspended
      BY <1>2, <2>1, <2>2 DEF HookIsFree, Hooks, Connects
    <2>5. CASE s = NoSocket
      <3>1. /\ HookFits(ScheduleRetry(v, b), b) /\ ScheduleRetry(v, b).sock = NoSocket
            /\ ScheduleRetry(v, b).status # "connected" /\ ScheduleRetry(v, b).mounted
            /\ ScheduleRetry(v, b).preserve = v.preserve
        BY <2>4, <2>5, RetryFits
      <3> QED BY <1>2, <2>3, <2>4, <2>5, <3>1
    <2>6. CASE s # NoSocket
      <3>1. HookFits(v, b)
        BY <2>1, <2>4, <2>6 DEF HookFits
      <3> QED BY <1>2, <2>1, <2>3, <2>4, <2>6, <3>1
    <2> QED BY <2>5, <2>6
  <1> QED BY <1>1, <1>2

\* Terminals connect with sockets of their own.
LEMMA ConnectingFits ==
    ASSUME SocketConstants, NEW b \in {"automatic", "manual"}, NEW T \in SUBSET Terminals,
           NEW H \in [Terminals -> Hooks], NEW C \in [BrowserSockets -> Connections], NEW f,
           \A t \in T : HookIsFree(H[t], b), \A t \in Terminals \ T : HookFits(H[t], b),
           JoinFits(H, C),
           \A t \in T : f[t] \in BrowserSockets \cup {NoSocket},
           \A t \in T : f[t] # NoSocket => C[f[t]].st = "none",
           \A t, u \in T : f[t] = f[u] => t = u \/ f[t] = NoSocket,
           Connecting(H, C, T, b, f)
    PROVE  /\ SocketsFit(hook', connection', b)
           /\ \A t \in Terminals : hook'[t] = IF t \in T THEN Connect(H[t], b, f[t]) ELSE H[t]
           /\ \A s \in BrowserSockets : C[s].st = "none" /\ connection'[s].st = "connecting" =>
                  connection'[s].tab \in T /\ Connects(H[connection'[s].tab])
  <1> DEFINE made(s) == {t \in T : Connects(H[t]) /\ f[t] = s}
             fresh(s) == [st |-> "connecting", tab |-> CHOOSE t \in made(s) : TRUE, heard |-> TRUE]
  <1>1. hook' = [t \in Terminals |-> IF t \in T THEN Connect(H[t], b, f[t]) ELSE H[t]]
    BY Zenon DEF Connecting
  <1>2. connection' = [s \in BrowserSockets |-> IF made(s) = {} THEN C[s] ELSE fresh(s)]
    BY Zenon DEF Connecting
  <1>3. \A t \in Terminals : hook'[t] = IF t \in T THEN Connect(H[t], b, f[t]) ELSE H[t]
    BY <1>1
  <1>4. ASSUME NEW t \in T
        PROVE  /\ HookFits(hook'[t], b) /\ hook'[t].mounted
               /\ hook'[t].sock = IF Connects(H[t]) THEN f[t] ELSE NoSocket
               /\ hook'[t].status # "connected"
    <2>1. PICK h, s : h = H[t] /\ s = f[t]
      OBVIOUS
    <2>2. HookIsFree(h, b) /\ s \in BrowserSockets \cup {NoSocket} /\ t \in Terminals
      BY <2>1
    <2>3. hook'[t] = Connect(h, b, s)
      BY <1>3, <2>1, <2>2
    <2>4. /\ HookFits(Connect(h, b, s), b) /\ Connect(h, b, s).mounted
          /\ Connect(h, b, s).sock = IF Connects(h) THEN s ELSE NoSocket
          /\ Connect(h, b, s).status # "connected"
      BY <2>2, ConnectFits
    <2> QED BY <2>1, <2>3, <2>4
  <1>5. ASSUME NEW t \in Terminals \ T PROVE HookFits(hook'[t], b) /\ hook'[t] = H[t]
    BY <1>3
  <1>6. \A t \in Terminals : HookFits(hook'[t], b)
    BY <1>4, <1>5
  <1>7. hook' \in [Terminals -> Hooks]
    <2>1. \A t \in Terminals : hook'[t] \in Hooks
      BY <1>6 DEF HookFits
    <2> QED BY <1>1, <2>1
  <1>8. ASSUME NEW s \in BrowserSockets, made(s) = {} PROVE connection'[s] = C[s]
    BY <1>2, <1>8
  <1>9. ASSUME NEW t \in T, Connects(H[t]), f[t] # NoSocket
        PROVE  /\ f[t] \in BrowserSockets /\ connection'[f[t]].st = "connecting"
               /\ connection'[f[t]].tab = t /\ connection'[f[t]].heard = TRUE
               /\ connection'[f[t]] \in Connections
    <2>1. f[t] \in BrowserSockets
      BY <1>9
    <2>2. made(f[t]) = {t}
      BY <1>9
    <2>3. connection'[f[t]] = fresh(f[t])
      BY <1>2, <2>1, <2>2
    <2>4. (CHOOSE u \in {t} : TRUE) = t
      OBVIOUS
    <2>5. connection'[f[t]] = [st |-> "connecting", tab |-> t, heard |-> TRUE]
      BY <2>2, <2>3, <2>4
    <2> HIDE DEF made, fresh
    <2>6. PICK c : c = [st |-> "connecting", tab |-> t, heard |-> TRUE]
      OBVIOUS
    <2>7. c \in Connections /\ c.st = "connecting" /\ c.tab = t /\ c.heard = TRUE
      BY <2>6 DEF Connections
    <2> QED BY <2>1, <2>5, <2>6, <2>7
  <1>10. ASSUME NEW s \in BrowserSockets, made(s) # {}
         PROVE  \E t \in T : /\ Connects(H[t]) /\ f[t] = s /\ C[s].st = "none"
                             /\ connection'[s].st = "connecting" /\ connection'[s].tab = t
                             /\ connection'[s].heard = TRUE /\ connection'[s] \in Connections
    <2>1. PICK t \in T : Connects(H[t]) /\ f[t] = s
      BY <1>10
    <2>2. s # NoSocket
      BY DEF SocketConstants, TerminalsAssumption
    <2>3. C[s].st = "none"
      BY <2>1, <2>2
    <2> HIDE DEF made, fresh
    <2> QED BY <1>9, <2>1, <2>2, <2>3
  <1>11. connection' \in [BrowserSockets -> Connections]
    <2>1. ASSUME NEW s \in BrowserSockets PROVE connection'[s] \in Connections
      <3>1. CASE made(s) = {}
        <4> HIDE DEF made
        <4> QED BY <1>8, <3>1
      <3>2. CASE made(s) # {}
        <4> HIDE DEF made
        <4> QED BY <1>10, <3>2 DEF Connections
      <3> QED BY <3>1, <3>2
    <2> HIDE DEF made, fresh
    <2> QED BY <1>2, <2>1
  <1> HIDE DEF made, fresh
  <1>12. ASSUME NEW t \in T
         PROVE  H[t].sock = NoSocket /\ H[t].status # "connected"
    BY DEF HookIsFree
  <1>13. ASSUME NEW s \in BrowserSockets, C[s].st = "none" PROVE ~C[s].heard
    BY <1>13 DEF JoinFits, SocketConstants, TerminalsAssumption
  <1>14. ASSUME NEW t \in Terminals, hook'[t].sock # NoSocket
         PROVE  /\ connection'[hook'[t].sock].tab = t /\ connection'[hook'[t].sock].heard
                /\ connection'[hook'[t].sock].st # "none"
                /\ hook'[t].status = "connected" => connection'[hook'[t].sock].st = "open"
    <2>1. CASE t \in T
      <3>1. /\ hook'[t].sock = IF Connects(H[t]) THEN f[t] ELSE NoSocket
            /\ hook'[t].status # "connected"
        BY <1>4, <2>1
      <3>2. Connects(H[t]) /\ f[t] # NoSocket /\ hook'[t].sock = f[t]
        BY <1>14, <3>1
      <3>3. connection'[f[t]].st = "connecting" /\ connection'[f[t]].tab = t
            /\ connection'[f[t]].heard = TRUE
        BY <1>9, <2>1, <3>2
      <3> QED BY <3>1, <3>2, <3>3
    <2>2. CASE t \notin T
      <3>1. hook'[t] = H[t] /\ H[t].sock \in BrowserSockets
        BY <1>5, <1>14, <2>2 DEF Hooks
      <3>2. C[H[t].sock].st # "none"
        BY <1>14, <3>1 DEF JoinFits
      <3>3. connection'[H[t].sock] = C[H[t].sock]
        BY <1>8, <1>10, <3>1, <3>2
      <3> QED BY <1>14, <3>1, <3>3 DEF JoinFits
    <2> QED BY <2>1, <2>2
  <1>15. ASSUME NEW t \in Terminals, hook'[t].status = "connected" PROVE hook'[t].sock # NoSocket
    BY <1>4, <1>5, <1>15 DEF JoinFits
  <1>16. ASSUME NEW s \in BrowserSockets
         PROVE  /\ connection'[s].heard =>
                      connection'[s].tab \in Terminals /\ hook'[connection'[s].tab].sock = s
                /\ connection'[s].st \in {"connecting", "open"} => connection'[s].heard
    <2>0. s # NoSocket
      BY DEF SocketConstants, TerminalsAssumption
    <2>1. CASE made(s) = {}
      <3>1. connection'[s] = C[s]
        BY <1>8, <2>1
      <3>2. C[s].heard => C[s].tab \in Terminals /\ H[C[s].tab].sock = s
        BY DEF JoinFits
      <3>3. C[s].heard => C[s].tab \in Terminals \ T
        BY <1>12, <2>0, <3>2
      <3> QED BY <1>5, <3>1, <3>2, <3>3 DEF JoinFits
    <2>2. CASE made(s) # {}
      <3>1. PICK t \in T : /\ Connects(H[t]) /\ f[t] = s /\ connection'[s].tab = t
                           /\ connection'[s].heard = TRUE
        BY <1>10, <2>2
      <3>2. hook'[t].sock = s
        BY <1>4, <3>1
      <3> QED BY <3>1, <3>2
    <2> QED BY <2>1, <2>2
  <1>17. JoinFits(hook', connection')
    BY <1>14, <1>15, <1>16 DEF JoinFits
  <1>18. ASSUME NEW s \in BrowserSockets, C[s].st = "none", connection'[s].st = "connecting"
         PROVE  connection'[s].tab \in T /\ Connects(H[connection'[s].tab])
    <2>1. CASE made(s) = {}
      <3>1. connection'[s] = C[s]
        BY <1>8, <2>1
      <3> QED BY <1>18, <3>1
    <2>2. CASE made(s) # {}
      <3>1. \E t \in T : /\ Connects(H[t]) /\ f[t] = s /\ C[s].st = "none"
                         /\ connection'[s].st = "connecting" /\ connection'[s].tab = t
                         /\ connection'[s].heard = TRUE /\ connection'[s] \in Connections
        BY <1>10, <2>2
      <3> PICK t \in T : Connects(H[t]) /\ connection'[s].tab = t
        BY <3>1
      <3> QED OBVIOUS
    <2> QED BY <2>1, <2>2
  <1> QED BY <1>3, <1>6, <1>7, <1>11, <1>17, <1>18 DEF SocketsFit

\* The sockets of the terminals T are given up, and those of the others stay.
LEMMA AbandonFits ==
    ASSUME SocketConstants, NEW b, SocketsFit(hook, connection, b),
           NEW T \in SUBSET Terminals, NEW S, NEW C, C = Abandon(S),
           \A t \in T : hook[t].sock \in S, \A s \in S : \E t \in T : hook[t].sock = s,
           NEW H \in [Terminals -> Hooks],
           \A t \in T : H[t].sock = NoSocket /\ H[t].status # "connected",
           \A t \in Terminals \ T : H[t] = hook[t]
    PROVE  /\ C \in [BrowserSockets -> Connections] /\ JoinFits(H, C)
  <1>0. /\ hook \in [Terminals -> Hooks] /\ connection \in [BrowserSockets -> Connections]
        /\ JoinFits(hook, connection)
    BY DEF SocketsFit
  <1>1. ASSUME NEW s \in BrowserSockets, s \in S
        PROVE  C[s] = [connection[s] EXCEPT !.st = "closing", !.heard = FALSE]
    BY <1>1 DEF Abandon
  <1>2. ASSUME NEW s \in BrowserSockets, s \notin S PROVE C[s] = connection[s]
    BY <1>2 DEF Abandon
  <1>3. ASSUME NEW s \in BrowserSockets, s \in S
        PROVE  C[s] \in Connections /\ C[s].st = "closing" /\ ~C[s].heard
    <2>1. PICK c, d : c = connection[s] /\ d = [c EXCEPT !.st = "closing", !.heard = FALSE]
      OBVIOUS
    <2>2. c \in Connections
      BY <1>0, <2>1
    <2>3. d \in Connections /\ d.st = "closing" /\ ~d.heard
      BY <2>1, <2>2 DEF Connections
    <2>4. C[s] = d
      BY <1>1, <1>3, <2>1
    <2> QED BY <2>3, <2>4
  <1>4. C \in [BrowserSockets -> Connections]
    <2>1. \A s \in BrowserSockets : C[s] \in Connections
      BY <1>0, <1>2, <1>3
    <2>2. \E g : C = [s \in BrowserSockets |-> g[s]]
      <3>1. C = [s \in BrowserSockets |-> C[s]]
        BY DEF Abandon
      <3> QED BY <3>1
    <2> QED BY <2>1, <2>2
  <1>5. ASSUME NEW t \in Terminals \ T, H[t].sock # NoSocket
        PROVE  /\ H[t].sock \in BrowserSockets /\ H[t] = hook[t]
               /\ C[H[t].sock] = connection[H[t].sock]
    <2>1. H[t] = hook[t] /\ hook[t].sock \in BrowserSockets
      BY <1>0, <1>5 DEF Hooks
    <2>2. connection[hook[t].sock].tab = t
      BY <1>0, <1>5, <2>1 DEF JoinFits
    <2>3. hook[t].sock \notin S
      <3> SUFFICES ASSUME NEW u \in T, hook[u].sock = hook[t].sock PROVE FALSE
        BY <2>1
      <3>1. connection[hook[t].sock].tab = u
        BY <1>0, <1>5, <2>1 DEF JoinFits
      <3> QED BY <2>2, <3>1
    <2> QED BY <1>2, <2>1, <2>3
  <1>6. ASSUME NEW s \in BrowserSockets, C[s].heard
        PROVE  C[s].tab \in Terminals /\ H[C[s].tab].sock = s
    <2>1. s \notin S /\ C[s] = connection[s]
      BY <1>2, <1>3, <1>6
    <2>2. C[s].tab \in Terminals /\ hook[C[s].tab].sock = s
      BY <1>0, <1>6, <2>1 DEF JoinFits
    <2>3. C[s].tab \notin T
      BY <2>1, <2>2
    <2> QED BY <2>2, <2>3
  <1>7. ASSUME NEW s \in BrowserSockets, C[s].st \in {"connecting", "open"} PROVE C[s].heard
    BY <1>0, <1>2, <1>3, <1>7 DEF JoinFits
  <1>8. ASSUME NEW t \in Terminals, H[t].sock # NoSocket
        PROVE  C[H[t].sock].tab = t /\ C[H[t].sock].heard /\ C[H[t].sock].st # "none"
    <2>1. t \in Terminals \ T
      BY <1>8
    <2> QED BY <1>0, <1>5, <1>8, <2>1 DEF JoinFits
  <1>9. ASSUME NEW t \in Terminals, H[t].status = "connected"
        PROVE  H[t].sock # NoSocket /\ C[H[t].sock].st = "open"
    <2>1. t \in Terminals \ T /\ H[t] = hook[t]
      BY <1>9
    <2>2. hook[t].sock # NoSocket /\ connection[hook[t].sock].st = "open"
      BY <1>0, <1>9, <2>1 DEF JoinFits
    <2> QED BY <1>5, <2>1, <2>2
  <1>10. JoinFits(H, C)
    BY <1>6, <1>7, <1>8, <1>9 DEF JoinFits
  <1> QED BY <1>4, <1>10

-----------------------------------------------------------------------------
(***************************************************************************)
(* The invariant of the terminal connections in the parts its proof needs. *)
(***************************************************************************)
\* Who waits for the user is in the registry ids.
AwayFits(ids, W, a, H) ==
    RoomForAll => \A t \in W : In(t, ids) /\ (a = "lost" /\ H[t].mounted => H[t].preserve)

\* Who is halted
HaltFits(L, H) == \A t \in L : H[t].mounted /\ H[t].stopped /\ ~H[t].manualSuspended

\* The ids, the authentication and the ghosts
RestFits(ids, a, L, W, H) ==
    /\ GoodIds(ids) /\ a \in {"in", "lost", "out"} /\ L \subseteq Terminals /\ W \subseteq Terminals
    /\ HaltFits(L, H) /\ AwayFits(ids, W, a, H)

LEMMA LeaksToParts ==
    ASSUME SocketConstants, NoSocketLeaks
    PROVE  /\ SocketsFit(hook, connection, behavior)
           /\ RestFits(suspended, authentication, halted, away, hook)
  <1>0. /\ SocketTypeOK /\ ConnectionsAreKnown /\ NeverStuck /\ ListenersFit /\ WaitingFits
        /\ HaltedIsStopped /\ AwayIsRemembered
    BY DEF NoSocketLeaks
  <1>1. /\ hook \in [Terminals -> Hooks] /\ connection \in [BrowserSockets -> Connections]
        /\ behavior \in {"automatic", "manual"} /\ suspended \in Seq(Terminals)
        /\ Len(suspended) <= MaxIds /\ IsInjective(suspended)
        /\ authentication \in {"in", "lost", "out"} /\ halted \subseteq Terminals
        /\ away \subseteq Terminals
    BY <1>0 DEF SocketTypeOK
  <1>2. ASSUME NEW t \in Terminals PROVE HookFits(hook[t], behavior)
    <2>1. /\ hook[t] \in Hooks /\ hook[t].current = hook[t].sock
          /\ hook[t].timer => behavior = "automatic" /\ hook[t].sock = NoSocket /\ ~hook[t].stopped
          /\ hook[t].authSuspended \/ hook[t].manualSuspended => hook[t].stopped
          /\ ~hook[t].mounted => hook[t] = Unmounted
      BY <1>0, <1>1 DEF ListenersFit, WaitingFits
    <2>2. ASSUME hook[t].mounted
          PROVE  /\ hook[t].stopped <=> hook[t].status = "disconnected"
                 /\ ~hook[t].stopped => hook[t].sock # NoSocket \/ hook[t].timer
                 /\ hook[t].stopped => hook[t].sock = NoSocket /\ ~hook[t].timer
      BY <1>0, <2>2 DEF NeverStuck, Mounted
    <2> QED BY <2>1, <2>2 DEF HookFits
  <1>3. ASSUME NEW t \in Terminals, hook[t].status = "connected"
        PROVE  hook[t].sock # NoSocket /\ connection[hook[t].sock].st = "open"
    <2>1. hook[t].mounted
      BY <1>2, <1>3 DEF HookFits, Unmounted
    <2> QED BY <1>0, <1>3, <2>1 DEF NeverStuck, Mounted
  <1>4. ASSUME NEW s \in BrowserSockets, connection[s].st \in {"connecting", "open"}
        PROVE  connection[s].heard
    <2>1. connection[s].tab \in Terminals /\ hook[connection[s].tab].sock = s
      BY <1>0, <1>4 DEF ConnectionsAreKnown, IsLive, Mounted
    <2>2. s # NoSocket
      BY DEF SocketConstants, TerminalsAssumption
    <2> QED BY <1>0, <2>1, <2>2 DEF ListenersFit
  <1>5. JoinFits(hook, connection)
    BY <1>0, <1>3, <1>4 DEF JoinFits, ListenersFit
  <1>6. GoodIds(suspended)
    BY <1>1 DEF GoodIds, Once, IsInjective
  <1>7. AwayFits(suspended, away, authentication, hook)
    BY <1>0, <1>1, ContainsIn DEF AwayFits, AwayIsRemembered
  <1>8. HaltFits(halted, hook)
    BY <1>0 DEF HaltFits, HaltedIsStopped
  <1> QED BY <1>1, <1>2, <1>5, <1>6, <1>7, <1>8 DEF SocketsFit, RestFits

LEMMA LeaksFromParts ==
    SocketConstants /\ SocketsFit(hook, connection, behavior)
        /\ RestFits(suspended, authentication, halted, away, hook) => NoSocketLeaks
  <1> SUFFICES ASSUME SocketConstants, SocketsFit(hook, connection, behavior),
                      RestFits(suspended, authentication, halted, away, hook)
               PROVE  NoSocketLeaks
    OBVIOUS
  <1>1. /\ hook \in [Terminals -> Hooks] /\ connection \in [BrowserSockets -> Connections]
        /\ behavior \in {"automatic", "manual"} /\ JoinFits(hook, connection)
        /\ GoodIds(suspended) /\ authentication \in {"in", "lost", "out"}
        /\ halted \subseteq Terminals /\ away \subseteq Terminals /\ HaltFits(halted, hook)
        /\ AwayFits(suspended, away, authentication, hook)
    BY DEF SocketsFit, RestFits
  <1>2. ASSUME NEW t \in Terminals PROVE HookFits(hook[t], behavior)
    BY DEF SocketsFit
  <1>3. SocketTypeOK
    BY <1>1 DEF SocketTypeOK, GoodIds, Once, IsInjective
  <1>4. ASSUME NEW t \in Terminals, hook[t].sock # NoSocket PROVE hook[t].mounted
    BY <1>2, <1>4 DEF HookFits, Unmounted
  <1>5. ConnectionsAreKnown
    <2> SUFFICES ASSUME NEW s \in BrowserSockets, IsLive(s)
                 PROVE  /\ connection[s].tab \in Mounted /\ hook[connection[s].tab].sock = s
                        /\ hook[connection[s].tab].current = s
      BY DEF ConnectionsAreKnown
    <2>1. connection[s].tab \in Terminals /\ hook[connection[s].tab].sock = s
      BY <1>1 DEF JoinFits, IsLive
    <2>2. s # NoSocket
      BY DEF SocketConstants, TerminalsAssumption
    <2> QED BY <1>2, <1>4, <2>1, <2>2 DEF Mounted, HookFits
  <1>6. NeverStuck
    <2> SUFFICES ASSUME NEW t \in Terminals, hook[t].mounted
                 PROVE  /\ hook[t].stopped <=> hook[t].status = "disconnected"
                        /\ ~hook[t].stopped => hook[t].sock # NoSocket \/ hook[t].timer
                        /\ hook[t].stopped => hook[t].sock = NoSocket /\ ~hook[t].timer
                        /\ hook[t].status = "connected" =>
                               hook[t].sock # NoSocket /\ connection[hook[t].sock].st = "open"
      BY DEF NeverStuck, Mounted
    <2> QED BY <1>1, <1>2 DEF HookFits, JoinFits
  <1>7. ListenersFit
    BY <1>1, <1>2 DEF ListenersFit, JoinFits, HookFits
  <1>8. WaitingFits
    BY <1>2 DEF WaitingFits, HookFits
  <1>9. HaltedIsStopped
    BY <1>1 DEF HaltedIsStopped, HaltFits
  <1>10. AwayIsRemembered
    BY <1>1, ContainsIn DEF AwayIsRemembered, AwayFits, GoodIds
  <1> QED BY <1>3, <1>5, <1>6, <1>7, <1>8, <1>9, <1>10 DEF NoSocketLeaks

\* What every step keeps
SocketStepIsSafe == NoSocketLeaks' /\ HaltedStaysHalted /\ (RoomForAll => AwayStaysAway)

LEMMA SocketStepFromParts ==
    ASSUME SocketConstants, SocketsFit(hook', connection', behavior'),
           RestFits(suspended', authentication', halted', away', hook'),
           HaltedStaysHalted, RoomForAll => AwayStaysAway
    PROVE  SocketStepIsSafe
  <1>1. NoSocketLeaks'
    <2>1. SocketConstants' <=> SocketConstants
      BY DEF SocketConstants, TerminalsAssumption, LimitsAssumption
    <2>2. /\ SocketsFit(hook, connection, behavior)'
          /\ RestFits(suspended, authentication, halted, away, hook)'
      BY DEF SocketsFit, RestFits
    <2> QED BY <2>1, <2>2, LeaksFromParts, PTL
  <1> QED BY <1>1 DEF SocketStepIsSafe

\* A step that opens no connection and mounts no terminal
LEMMA QuietSocketStep ==
    ASSUME SocketConstants, SocketsFit(hook', connection', behavior'),
           RestFits(suspended', authentication', halted', away', hook'),
           \A s \in BrowserSockets : connection[s].st = "none" => connection'[s].st # "connecting",
           \A t \in Terminals : hook'[t].mounted => hook[t].mounted
    PROVE  SocketStepIsSafe
  <1>1. HaltedStaysHalted
    BY DEF HaltedStaysHalted
  <1>2. AwayStaysAway
    BY DEF AwayStaysAway, Mounted
  <1>3. RoomForAll => AwayStaysAway
    BY <1>2
  <1> QED BY <1>1, <1>3, SocketStepFromParts

\* The hooks change, and not their sockets.
LEMMA SameSocketsFit ==
    ASSUME NEW G, NEW H, NEW C, JoinFits(G, C),
           \A t \in Terminals : H[t].sock = G[t].sock,
           \A t \in Terminals : H[t].status = "connected" => G[t].status = "connected"
    PROVE  JoinFits(H, C)
  BY DEF JoinFits

\* One terminal connects.
LEMMA ConnectOneFits ==
    ASSUME SocketConstants, behavior \in {"automatic", "manual"}, NEW t \in Terminals,
           NEW H \in [Terminals -> Hooks], NEW C \in [BrowserSockets -> Connections],
           NEW s \in BrowserSockets \cup {NoSocket}, HookIsFree(H[t], behavior),
           \A u \in Terminals \ {t} : HookFits(H[u], behavior), JoinFits(H, C),
           s # NoSocket => C[s].st = "none", ConnectOne(H, C, t, s)
    PROVE  /\ SocketsFit(hook', connection', behavior) /\ hook'[t] = Connect(H[t], behavior, s)
           /\ \A u \in Terminals \ {t} : hook'[u] = H[u]
           /\ \A x \in BrowserSockets : C[x].st = "none" /\ connection'[x].st = "connecting" =>
                  connection'[x].tab = t /\ Connects(H[t])
  <1>1. PICK f : f = [u \in {t} |-> s]
    OBVIOUS
  <1>2. f[t] = s
    BY <1>1
  <1>3. PICK T : T = {t}
    OBVIOUS
  <1>4. Connecting(H, C, T, behavior, f)
    BY <1>1, <1>3 DEF ConnectOne
  <1>5. /\ T \in SUBSET Terminals /\ \A u \in T : u = t
        /\ \A u \in T : HookIsFree(H[u], behavior)
        /\ \A u \in Terminals \ T : HookFits(H[u], behavior)
        /\ \A u \in T : f[u] \in BrowserSockets \cup {NoSocket}
        /\ \A u \in T : f[u] # NoSocket => C[f[u]].st = "none"
        /\ \A u, v \in T : f[u] = f[v] => u = v \/ f[u] = NoSocket
    BY <1>2, <1>3
  <1>6. /\ SocketsFit(hook', connection', behavior)
        /\ \A u \in Terminals : hook'[u] = IF u \in T THEN Connect(H[u], behavior, f[u]) ELSE H[u]
        /\ \A x \in BrowserSockets : C[x].st = "none" /\ connection'[x].st = "connecting" =>
                  connection'[x].tab \in T /\ Connects(H[connection'[x].tab])
    BY <1>4, <1>5, ConnectingFits
  <1> QED BY <1>2, <1>3, <1>6

\* The first render and the registration of a hook
LEMMA MountingIsFree ==
    ASSUME SocketConstants, behavior \in {"automatic", "manual"}, GoodIds(suspended),
           NEW t \in Terminals
    PROVE  /\ HookIsFree(Mounting(t), behavior)
           /\ Mounting(t).stopped <=> behavior = "manual" /\ In(t, suspended)
  <1>1. PICK w \in BOOLEAN : w <=> behavior = "manual" /\ Contains(suspended, t)
    OBVIOUS
  <1>2. PICK r \in BOOLEAN : r <=> Contains(Rendered(t), t)
    OBVIOUS
  <1>3. Contains(suspended, t) <=> In(t, suspended)
    BY ContainsIn DEF GoodIds
  <1> DEFINE m == [Unmounted EXCEPT !.mounted = TRUE, !.stopped = w, !.manualSuspended = w,
                         !.restored = r, !.status = IF w THEN "disconnected" ELSE "connecting"]
  <1>4. Mounting(t) = m
    <2>1. w = (behavior = "manual" /\ Contains(suspended, t)) /\ r = Contains(Rendered(t), t)
      BY <1>1, <1>2 DEF Contains
    <2> QED BY <2>1, Zenon DEF Mounting
  <1>5. Unmounted \in Hooks
    BY UnmountedFits
  <1>6. PICK d \in {"disconnected", "connecting"} : d = IF w THEN "disconnected" ELSE "connecting"
    OBVIOUS
  <1> DEFINE n == [Unmounted EXCEPT !.mounted = TRUE, !.stopped = w, !.manualSuspended = w,
                         !.restored = r, !.status = d]
  <1>7. m = n
    BY <1>6
  <1>8. /\ n \in Hooks /\ n.mounted /\ n.sock = NoSocket /\ n.current = NoSocket /\ ~n.timer
        /\ n.stopped = w /\ n.manualSuspended = w /\ ~n.authSuspended /\ n.status = d
    BY <1>5 DEF Hooks, Unmounted
  <1> HIDE DEF m, n
  <1>9. HookIsFree(n, behavior)
    BY <1>6, <1>8 DEF HookIsFree
  <1> QED BY <1>1, <1>3, <1>4, <1>7, <1>8, <1>9

\* The ids after the first render
LEMMA RenderedIsGood ==
    ASSUME SocketConstants, GoodIds(suspended), NEW t \in Terminals
    PROVE  /\ GoodIds(Rendered(t))
           /\ \A x \in AwayAfter(t) : x \in away /\ (In(x, suspended) => In(x, Rendered(t)))
  <1>1. PICK X : X = {t}
    OBVIOUS
  <1>2. /\ ForgetAll(suspended, X) \in Seq(Terminals) /\ Once(ForgetAll(suspended, X))
        /\ Len(ForgetAll(suspended, X)) <= Len(suspended)
        /\ \A x : In(x, ForgetAll(suspended, X)) <=> In(x, suspended) /\ x \notin X
    BY ForgetsAll DEF GoodIds
  <1>3. GoodIds(ForgetAll(suspended, X))
    BY <1>2 DEF GoodIds, SocketConstants, LimitsAssumption
  <1> QED BY <1>1, <1>2, <1>3 DEF Rendered, AwayAfter

-----------------------------------------------------------------------------
(***************************************************************************)
(* The steps of the terminal connections.                                  *)
(***************************************************************************)
\* What the factory may return
LEMMA OffersAreUnused ==
    ASSUME NEW s \in Offers
    PROVE  s \in BrowserSockets \cup {NoSocket} /\ (s # NoSocket => connection[s].st = "none")
  BY DEF Offers

LEMMA MountIsSafe ==
    ASSUME SocketConstants, NoSocketLeaks, NEW t \in Terminals, NEW s, Mount(t, s)
    PROVE  SocketStepIsSafe
  <1>0. /\ SocketsFit(hook, connection, behavior)
        /\ RestFits(suspended, authentication, halted, away, hook)
    BY LeaksToParts
  <1>1. /\ hook \in [Terminals -> Hooks] /\ connection \in [BrowserSockets -> Connections]
        /\ behavior \in {"automatic", "manual"} /\ JoinFits(hook, connection)
        /\ GoodIds(suspended) /\ halted \subseteq Terminals /\ away \subseteq Terminals
        /\ HaltFits(halted, hook) /\ AwayFits(suspended, away, authentication, hook)
    BY <1>0 DEF SocketsFit, RestFits
  <1>2. PICK m : m = Mounting(t)
    OBVIOUS
  <1>3. PICK H : H = [hook EXCEPT ![t] = m]
    OBVIOUS
  <1>4. /\ authentication = "in" /\ ~hook[t].mounted /\ s \in Offers
        /\ ConnectOne(H, connection, t, s) /\ suspended' = Rendered(t) /\ away' = AwayAfter(t)
        /\ behavior' = behavior /\ authentication' = authentication /\ halted' = halted
    BY <1>2, <1>3 DEF Mount, Mounted
  <1>5. HookIsFree(m, behavior) /\ (m.stopped <=> behavior = "manual" /\ In(t, suspended))
    BY <1>1, <1>2, MountingIsFree
  <1>6. H \in [Terminals -> Hooks] /\ H[t] = m /\ \A u \in Terminals \ {t} : H[u] = hook[u]
    BY <1>1, <1>3, <1>5 DEF HookIsFree
  <1>7. hook[t] = Unmounted /\ hook[t].sock = NoSocket
    BY <1>0, <1>4 DEF SocketsFit, HookFits, Unmounted
  <1>8. JoinFits(H, connection)
    <2>1. \A u \in Terminals : H[u].sock = hook[u].sock
      BY <1>5, <1>6, <1>7 DEF HookIsFree
    <2>2. \A u \in Terminals : H[u].status = "connected" => hook[u].status = "connected"
      BY <1>5, <1>6 DEF HookIsFree
    <2> QED BY <1>1, <2>1, <2>2, SameSocketsFit
  <1>9. \A u \in Terminals \ {t} : HookFits(H[u], behavior)
    BY <1>0, <1>6 DEF SocketsFit
  <1>10. s \in BrowserSockets \cup {NoSocket} /\ (s # NoSocket => connection[s].st = "none")
    BY <1>4, OffersAreUnused
  <1>11. HookIsFree(H[t], behavior)
    BY <1>5, <1>6
  <1>12. /\ SocketsFit(hook', connection', behavior) /\ hook'[t] = Connect(H[t], behavior, s)
         /\ \A u \in Terminals \ {t} : hook'[u] = H[u]
         /\ \A x \in BrowserSockets :
                connection[x].st = "none" /\ connection'[x].st = "connecting" =>
                connection'[x].tab = t /\ Connects(H[t])
    BY <1>1, <1>4, <1>6, <1>8, <1>9, <1>10, <1>11, ConnectOneFits
  <1>13. t \notin halted
    BY <1>1, <1>4 DEF HaltFits
  <1>14. HaltFits(halted', hook')
    BY <1>1, <1>4, <1>6, <1>12, <1>13 DEF HaltFits
  <1>15. /\ GoodIds(Rendered(t))
         /\ \A x \in AwayAfter(t) : x \in away /\ (In(x, suspended) => In(x, Rendered(t)))
    BY <1>1, RenderedIsGood
  <1>16. AwayFits(suspended', away', authentication', hook')
    BY <1>1, <1>4, <1>15 DEF AwayFits
  <1>17. RestFits(suspended', authentication', halted', away', hook')
    BY <1>1, <1>4, <1>14, <1>15, <1>16 DEF RestFits
  <1>18. HaltedStaysHalted
    BY <1>12, <1>13 DEF HaltedStaysHalted
  <1>19. ASSUME RoomForAll PROVE AwayStaysAway
    <2> SUFFICES ASSUME NEW u \in Terminals, ~hook[u].mounted, hook'[u].mounted, u \in away,
                        behavior = "manual"
                 PROVE  hook'[u].sock = NoSocket /\ hook'[u].status = "disconnected"
      BY DEF AwayStaysAway, Mounted
    <2>1. u = t
      BY <1>6, <1>12
    <2>2. m.stopped
      BY <1>1, <1>5, <1>19, <2>1 DEF AwayFits
    <2>3. hook'[u] = m
      BY <1>6, <1>12, <2>1, <2>2 DEF Connect, Connects
    <2> QED BY <1>5, <2>2, <2>3 DEF HookIsFree
  <1>20. SocketsFit(hook', connection', behavior')
    BY <1>4, <1>12
  <1> QED BY <1>17, <1>18, <1>19, <1>20, SocketStepFromParts

\* The socket of one terminal is given up, and its hook forgets it.
LEMMA AbandonOneFits ==
    ASSUME SocketConstants, SocketsFit(hook, connection, behavior), NEW t \in Terminals,
           NEW m \in Hooks, m.sock = NoSocket, m.status # "connected",
           NEW H \in [Terminals -> Hooks], H[t] = m,
           \A u \in Terminals \ {t} : H[u] = hook[u],
           NEW S, hook[t].sock \in S, \A x \in S : x = hook[t].sock,
           NEW C, C = Abandon(S)
    PROVE  /\ C \in [BrowserSockets -> Connections] /\ JoinFits(H, C)
           /\ \A x \in BrowserSockets : connection[x].st = "none" => C[x].st = "none"
  <1>3. PICK T : T = {t}
    OBVIOUS
  <1>4. /\ \A u \in T : hook[u].sock \in S
        /\ \A x \in S : \E u \in T : hook[u].sock = x
        /\ T \in SUBSET Terminals
        /\ \A u \in T : H[u].sock = NoSocket /\ H[u].status # "connected"
        /\ \A u \in Terminals \ T : H[u] = hook[u]
    BY <1>3
  <1>5. C \in [BrowserSockets -> Connections] /\ JoinFits(H, C)
    BY <1>4, AbandonFits
  <1>6. ASSUME NEW x \in BrowserSockets, connection[x].st = "none" PROVE C[x].st = "none"
    <2>1. x # NoSocket
      BY DEF SocketConstants, TerminalsAssumption
    <2>2. x \notin S
      BY <1>6, <2>1 DEF SocketsFit, JoinFits
    <2>3. C[x] = connection[x]
      BY <2>2 DEF Abandon
    <2> QED BY <1>6, <2>3
  <1> QED BY <1>5, <1>6

LEMMA RestartClientIsSafe ==
    ASSUME SocketConstants, NoSocketLeaks, NEW t \in Terminals, NEW s, RestartClient(t, s)
    PROVE  SocketStepIsSafe
  <1>0. /\ SocketsFit(hook, connection, behavior)
        /\ RestFits(suspended, authentication, halted, away, hook)
    BY LeaksToParts
  <1>1. /\ behavior \in {"automatic", "manual"}
        /\ GoodIds(suspended) /\ halted \subseteq Terminals /\ away \subseteq Terminals
        /\ HaltFits(halted, hook) /\ AwayFits(suspended, away, authentication, hook)
    BY <1>0 DEF SocketsFit, RestFits
  <1>2. PICK m : m = Mounting(t)
    OBVIOUS
  <1>3. PICK H, S : H = [hook EXCEPT ![t] = m] /\ S = {hook[t].sock}
    OBVIOUS
  <1>30. PICK C : C = Abandon(S)
    OBVIOUS
  <1>4. /\ authentication = "in" /\ hook[t].mounted /\ s \in Offers
        /\ ConnectOne(H, C, t, s) /\ suspended' = Rendered(t) /\ away' = AwayAfter(t)
        /\ behavior' = behavior /\ authentication' = authentication /\ halted' = halted \ {t}
    BY <1>2, <1>3, <1>30 DEF RestartClient, Mounted
  <1>5. HookIsFree(m, behavior)
    BY <1>1, <1>2, MountingIsFree
  <1>6. m \in Hooks /\ m.sock = NoSocket /\ m.status # "connected"
    BY <1>5 DEF HookIsFree
  <1>31. /\ H \in [Terminals -> Hooks] /\ H[t] = m
         /\ \A u \in Terminals \ {t} : H[u] = hook[u]
         /\ \A u \in Terminals \ {t} : HookFits(H[u], behavior)
    BY <1>0, <1>3, <1>6 DEF SocketsFit
  <1>32. hook[t].sock \in S /\ \A x \in S : x = hook[t].sock
    BY <1>3
  <1>33. /\ C \in [BrowserSockets -> Connections] /\ JoinFits(H, C)
         /\ \A x \in BrowserSockets : connection[x].st = "none" => C[x].st = "none"
    BY <1>0, <1>6, <1>30, <1>31, <1>32, AbandonOneFits
  <1>7. /\ H \in [Terminals -> Hooks] /\ C \in [BrowserSockets -> Connections]
        /\ JoinFits(H, C)
        /\ \A x \in BrowserSockets : connection[x].st = "none" => C[x].st = "none"
        /\ H[t] = m /\ \A u \in Terminals \ {t} : H[u] = hook[u] /\ HookFits(H[u], behavior)
    BY <1>31, <1>33
  <1>8. s \in BrowserSockets \cup {NoSocket} /\ (s # NoSocket => C[s].st = "none")
    BY <1>4, <1>7, OffersAreUnused
  <1>9. HookIsFree(H[t], behavior) /\ \A u \in Terminals \ {t} : HookFits(H[u], behavior)
    BY <1>5, <1>7
  <1>10. /\ SocketsFit(hook', connection', behavior) /\ hook'[t] = Connect(H[t], behavior, s)
         /\ \A u \in Terminals \ {t} : hook'[u] = H[u]
         /\ \A x \in BrowserSockets : C[x].st = "none" /\ connection'[x].st = "connecting" =>
                connection'[x].tab = t /\ Connects(H[t])
    BY <1>1, <1>4, <1>7, <1>8, <1>9, ConnectOneFits
  <1>11. HaltFits(halted', hook')
    BY <1>1, <1>4, <1>7, <1>10 DEF HaltFits
  <1>12. /\ GoodIds(Rendered(t))
         /\ \A x \in AwayAfter(t) : x \in away /\ (In(x, suspended) => In(x, Rendered(t)))
    BY <1>1, RenderedIsGood
  <1>13. AwayFits(suspended', away', authentication', hook')
    BY <1>1, <1>4, <1>12 DEF AwayFits
  <1>14. RestFits(suspended', authentication', halted', away', hook')
    BY <1>1, <1>4, <1>11, <1>12, <1>13 DEF RestFits
  <1>15. HaltedStaysHalted
    BY <1>4, <1>7, <1>10 DEF HaltedStaysHalted
  <1>16. RoomForAll => AwayStaysAway
    BY <1>4, <1>7, <1>10 DEF AwayStaysAway, Mounted
  <1>17. SocketsFit(hook', connection', behavior')
    BY <1>4, <1>10
  <1> QED BY <1>14, <1>15, <1>16, <1>17, SocketStepFromParts

LEMMA ReconnectIsSafe ==
    ASSUME SocketConstants, NoSocketLeaks, NEW t \in Terminals, NEW s, Reconnect(t, s)
    PROVE  SocketStepIsSafe
  <1>0. /\ SocketsFit(hook, connection, behavior)
        /\ RestFits(suspended, authentication, halted, away, hook)
    BY LeaksToParts
  <1>1. /\ hook \in [Terminals -> Hooks] /\ behavior \in {"automatic", "manual"}
        /\ GoodIds(suspended) /\ halted \subseteq Terminals /\ away \subseteq Terminals
        /\ authentication \in {"in", "lost", "out"}
        /\ HaltFits(halted, hook) /\ AwayFits(suspended, away, authentication, hook)
    BY <1>0 DEF SocketsFit, RestFits
  <1>2. PICK m : m = Anew(Dropped(hook[t]))
    OBVIOUS
  <1>3. PICK H, S : H = [hook EXCEPT ![t] = m] /\ S = {hook[t].sock}
    OBVIOUS
  <1>30. PICK C : C = Abandon(S)
    OBVIOUS
  <1>4. /\ hook[t].mounted /\ ~hook[t].authSuspended /\ s \in Offers
        /\ ConnectOne(H, C, t, s) /\ suspended' = ForgetAll(suspended, {t}) /\ away' = away \ {t}
        /\ behavior' = behavior /\ authentication' = authentication /\ halted' = halted \ {t}
    BY <1>1, <1>2, <1>3, <1>30 DEF Reconnect, Mounted
  <1>5. HookIsFree(m, behavior)
    <2>1. hook[t] \in Hooks /\ 0 \in 0 .. RetrySteps
      BY <1>1 DEF SocketConstants, LimitsAssumption
    <2>2. PICK d : d = Dropped(hook[t])
      OBVIOUS
    <2>3. /\ d \in Hooks /\ d.mounted /\ d.sock = NoSocket /\ d.current = NoSocket
          /\ ~d.authSuspended
      BY <1>4, <2>1, <2>2 DEF Dropped, Hooks
    <2>4. /\ m \in Hooks /\ m.mounted /\ m.sock = NoSocket /\ m.current = NoSocket
          /\ ~m.timer /\ ~m.stopped /\ ~m.authSuspended /\ ~m.manualSuspended
          /\ m.status = "connecting"
      BY <1>2, <2>1, <2>2, <2>3 DEF Anew, Hooks
    <2> QED BY <2>4 DEF HookIsFree
  <1>6. m \in Hooks /\ m.sock = NoSocket /\ m.status # "connected"
    BY <1>5 DEF HookIsFree
  <1>31. /\ H \in [Terminals -> Hooks] /\ H[t] = m
         /\ \A u \in Terminals \ {t} : H[u] = hook[u]
         /\ \A u \in Terminals \ {t} : HookFits(H[u], behavior)
    BY <1>0, <1>3, <1>6 DEF SocketsFit
  <1>32. hook[t].sock \in S /\ \A x \in S : x = hook[t].sock
    BY <1>3
  <1>33. /\ C \in [BrowserSockets -> Connections] /\ JoinFits(H, C)
         /\ \A x \in BrowserSockets : connection[x].st = "none" => C[x].st = "none"
    BY <1>0, <1>6, <1>30, <1>31, <1>32, AbandonOneFits
  <1>7. /\ H \in [Terminals -> Hooks] /\ C \in [BrowserSockets -> Connections]
        /\ JoinFits(H, C)
        /\ \A x \in BrowserSockets : connection[x].st = "none" => C[x].st = "none"
        /\ H[t] = m /\ \A u \in Terminals \ {t} : H[u] = hook[u] /\ HookFits(H[u], behavior)
    BY <1>31, <1>33
  <1>8. s \in BrowserSockets \cup {NoSocket} /\ (s # NoSocket => C[s].st = "none")
    BY <1>4, <1>7, OffersAreUnused
  <1>9. HookIsFree(H[t], behavior) /\ \A u \in Terminals \ {t} : HookFits(H[u], behavior)
    BY <1>5, <1>7
  <1>10. /\ SocketsFit(hook', connection', behavior) /\ hook'[t] = Connect(H[t], behavior, s)
         /\ \A u \in Terminals \ {t} : hook'[u] = H[u]
         /\ \A x \in BrowserSockets : C[x].st = "none" /\ connection'[x].st = "connecting" =>
                connection'[x].tab = t /\ Connects(H[t])
    BY <1>1, <1>4, <1>7, <1>8, <1>9, ConnectOneFits
  <1>11. HaltFits(halted', hook')
    BY <1>1, <1>4, <1>7, <1>10 DEF HaltFits
  <1>12. PICK X, q : X = {t} /\ q = ForgetAll(suspended, X)
    OBVIOUS
  <1>13. /\ q \in Seq(Terminals) /\ Once(q) /\ Len(q) <= Len(suspended)
         /\ \A x : In(x, q) <=> In(x, suspended) /\ x \notin X
    BY <1>1, <1>12, ForgetsAll DEF GoodIds
  <1>14. GoodIds(q) /\ suspended' = q
    BY <1>1, <1>4, <1>12, <1>13 DEF GoodIds, SocketConstants, LimitsAssumption
  <1>15. AwayFits(suspended', away', authentication', hook')
    BY <1>1, <1>4, <1>7, <1>10, <1>12, <1>13, <1>14 DEF AwayFits
  <1>16. RestFits(suspended', authentication', halted', away', hook')
    BY <1>1, <1>4, <1>11, <1>14, <1>15 DEF RestFits
  <1>17. HaltedStaysHalted
    BY <1>4, <1>7, <1>10 DEF HaltedStaysHalted
  <1>18. RoomForAll => AwayStaysAway
    BY <1>4, <1>7, <1>10 DEF AwayStaysAway, Mounted
  <1>19. SocketsFit(hook', connection', behavior')
    BY <1>4, <1>10
  <1> QED BY <1>16, <1>17, <1>18, <1>19, SocketStepFromParts

LEMMA RetryTimerIsSafe ==
    ASSUME SocketConstants, NoSocketLeaks, NEW t \in Terminals, NEW s, RetryTimer(t, s)
    PROVE  SocketStepIsSafe
  <1>0. /\ SocketsFit(hook, connection, behavior)
        /\ RestFits(suspended, authentication, halted, away, hook)
    BY LeaksToParts
  <1>1. /\ hook \in [Terminals -> Hooks] /\ connection \in [BrowserSockets -> Connections]
        /\ behavior \in {"automatic", "manual"} /\ JoinFits(hook, connection)
        /\ GoodIds(suspended) /\ halted \subseteq Terminals /\ away \subseteq Terminals
        /\ authentication \in {"in", "lost", "out"}
        /\ HaltFits(halted, hook) /\ AwayFits(suspended, away, authentication, hook)
    BY <1>0 DEF SocketsFit, RestFits
  <1>2. /\ hook[t].mounted /\ hook[t].timer /\ s \in Offers /\ ConnectOne(hook, connection, t, s)
        /\ suspended' = suspended /\ away' = away /\ behavior' = behavior
        /\ authentication' = authentication /\ halted' = halted
    BY DEF RetryTimer, Mounted
  <1>3. HookFits(hook[t], behavior) /\ \A u \in Terminals \ {t} : HookFits(hook[u], behavior)
    BY <1>0 DEF SocketsFit
  <1>4. hook[t].status # "connected" /\ ~hook[t].stopped /\ hook[t].sock = NoSocket
    BY <1>1, <1>2, <1>3 DEF HookFits, JoinFits
  <1>5. HookIsFree(hook[t], behavior)
    BY <1>2, <1>3, <1>4 DEF HookFits, HookIsFree
  <1>6. s \in BrowserSockets \cup {NoSocket} /\ (s # NoSocket => connection[s].st = "none")
    BY <1>2, OffersAreUnused
  <1>7. /\ SocketsFit(hook', connection', behavior) /\ hook'[t] = Connect(hook[t], behavior, s)
        /\ \A u \in Terminals \ {t} : hook'[u] = hook[u]
        /\ \A x \in BrowserSockets :
               connection[x].st = "none" /\ connection'[x].st = "connecting" =>
               connection'[x].tab = t /\ Connects(hook[t])
    BY <1>1, <1>2, <1>3, <1>5, <1>6, ConnectOneFits
  <1>8. t \notin halted
    BY <1>1, <1>4 DEF HaltFits
  <1>9. HaltFits(halted', hook')
    BY <1>1, <1>2, <1>7, <1>8 DEF HaltFits
  <1>10. PICK h : h = hook[t]
    OBVIOUS
  <1>11. Connect(h, behavior, s).preserve = h.preserve
    BY <1>1, <1>5, <1>6, <1>10, ConnectFits
  <1>12. hook'[t].preserve = hook[t].preserve
    BY <1>7, <1>10, <1>11
  <1>13. AwayFits(suspended', away', authentication', hook')
    BY <1>1, <1>2, <1>7, <1>12 DEF AwayFits
  <1>14. RestFits(suspended', authentication', halted', away', hook')
    BY <1>1, <1>2, <1>9, <1>13 DEF RestFits
  <1>15. HaltedStaysHalted
    <2> SUFFICES ASSUME NEW x \in BrowserSockets, connection[x].st = "none",
                        connection'[x].st = "connecting"
                 PROVE  connection'[x].tab \notin halted
      BY DEF HaltedStaysHalted
    <2>1. connection'[x].tab = t
      BY <1>7
    <2> QED BY <1>8, <2>1
  <1>16. RoomForAll => AwayStaysAway
    BY <1>2, <1>7 DEF AwayStaysAway, Mounted
  <1>17. SocketsFit(hook', connection', behavior')
    BY <1>2, <1>7
  <1> QED BY <1>14, <1>15, <1>16, <1>17, SocketStepFromParts

LEMMA UnmountIsSafe ==
    ASSUME SocketConstants, NoSocketLeaks, NEW t \in Terminals, Unmount(t)
    PROVE  SocketStepIsSafe
  <1>0. /\ SocketsFit(hook, connection, behavior)
        /\ RestFits(suspended, authentication, halted, away, hook)
    BY LeaksToParts
  <1>1. /\ hook \in [Terminals -> Hooks] /\ behavior \in {"automatic", "manual"}
        /\ GoodIds(suspended) /\ halted \subseteq Terminals /\ away \subseteq Terminals
        /\ HaltFits(halted, hook) /\ AwayFits(suspended, away, authentication, hook)
        /\ \A u \in Terminals : HookFits(hook[u], behavior)
    BY <1>0 DEF SocketsFit, RestFits
  <1>2. PICK m, S, X : /\ m = Unmounted /\ S = {hook[t].sock}
                       /\ X = {u \in {t} : hook[u].restored /\ ~hook[u].preserve}
    OBVIOUS
  <1>3. /\ authentication = "in" /\ hook[t].mounted /\ hook' = [hook EXCEPT ![t] = m]
        /\ connection' = Abandon(S) /\ suspended' = ForgetAll(suspended, X)
        /\ halted' = halted \ {t} /\ away' = away \ {t} /\ behavior' = behavior
        /\ authentication' = authentication
    BY <1>2 DEF Unmount, Mounted, Unregistered
  <1>4. /\ m \in Hooks /\ HookFits(m, behavior) /\ m.sock = NoSocket /\ m.status # "connected"
        /\ ~m.mounted
    BY <1>2, UnmountedFits DEF Unmounted
  <1>5. PICK H, C : H = hook' /\ C = connection'
    OBVIOUS
  <1>6. /\ H \in [Terminals -> Hooks] /\ H[t] = m /\ \A u \in Terminals \ {t} : H[u] = hook[u]
        /\ C = Abandon(S) /\ hook[t].sock \in S /\ \A x \in S : x = hook[t].sock
    BY <1>1, <1>2, <1>3, <1>4, <1>5
  <1>7. /\ C \in [BrowserSockets -> Connections] /\ JoinFits(H, C)
        /\ \A x \in BrowserSockets : connection[x].st = "none" => C[x].st = "none"
    BY <1>0, <1>4, <1>6, AbandonOneFits
  <1>8. SocketsFit(hook', connection', behavior')
    BY <1>1, <1>3, <1>4, <1>5, <1>6, <1>7 DEF SocketsFit
  <1>9. PICK q : q = ForgetAll(suspended, X)
    OBVIOUS
  <1>10. /\ q \in Seq(Terminals) /\ Once(q) /\ Len(q) <= Len(suspended)
         /\ \A x : In(x, q) <=> In(x, suspended) /\ x \notin X
    BY <1>1, <1>9, ForgetsAll DEF GoodIds
  <1>11. GoodIds(q) /\ suspended' = q
    BY <1>1, <1>3, <1>9, <1>10 DEF GoodIds, SocketConstants, LimitsAssumption
  <1>12. AwayFits(suspended', away', authentication', hook')
    <2>1. \A x \in away' : x \in away /\ x \notin X
      BY <1>2, <1>3
    <2> QED BY <1>1, <1>3, <1>10, <1>11, <2>1 DEF AwayFits
  <1>13. HaltFits(halted', hook')
    BY <1>1, <1>3, <1>5, <1>6 DEF HaltFits
  <1>14. RestFits(suspended', authentication', halted', away', hook')
    BY <1>1, <1>3, <1>11, <1>12, <1>13 DEF RestFits
  <1>15. \A x \in BrowserSockets : connection[x].st = "none" => connection'[x].st # "connecting"
    BY <1>5, <1>7
  <1>16. \A u \in Terminals : hook'[u].mounted => hook[u].mounted
    BY <1>4, <1>5, <1>6
  <1> QED BY <1>8, <1>14, <1>15, <1>16, QuietSocketStep

LEMMA DisconnectIsSafe ==
    ASSUME SocketConstants, NoSocketLeaks, NEW t \in Terminals, Disconnect(t)
    PROVE  SocketStepIsSafe
  <1>0. /\ SocketsFit(hook, connection, behavior)
        /\ RestFits(suspended, authentication, halted, away, hook)
    BY LeaksToParts
  <1>1. /\ hook \in [Terminals -> Hooks] /\ behavior \in {"automatic", "manual"}
        /\ GoodIds(suspended) /\ halted \subseteq Terminals /\ away \subseteq Terminals
        /\ authentication \in {"in", "lost", "out"}
        /\ HaltFits(halted, hook) /\ AwayFits(suspended, away, authentication, hook)
        /\ \A u \in Terminals : HookFits(hook[u], behavior)
    BY <1>0 DEF SocketsFit, RestFits
  <1>2. PICK m, S : m = Detached(Dropped(hook[t])) /\ S = {hook[t].sock}
    OBVIOUS
  <1>3. /\ hook[t].mounted /\ hook' = [hook EXCEPT ![t] = m]
        /\ connection' = Abandon(S) /\ suspended' = suspended
        /\ halted' = halted \cup {t} /\ away' = away /\ behavior' = behavior
        /\ authentication' = authentication
    BY <1>1, <1>2 DEF Disconnect, Mounted
  <1>4. /\ m \in Hooks /\ HookFits(m, behavior) /\ m.sock = NoSocket /\ m.status # "connected"
        /\ m.mounted /\ m.stopped /\ ~m.manualSuspended /\ m.preserve = hook[t].preserve
    <2>1. hook[t] \in Hooks
      BY <1>1
    <2>2. PICK d : d = Dropped(hook[t])
      OBVIOUS
    <2>3. /\ d \in Hooks /\ d.mounted /\ d.sock = NoSocket /\ d.current = NoSocket
          /\ d.preserve = hook[t].preserve
      BY <1>3, <2>1, <2>2 DEF Dropped, Hooks
    <2>4. /\ m \in Hooks /\ m.mounted /\ m.sock = NoSocket /\ m.current = NoSocket
          /\ ~m.timer /\ m.stopped /\ ~m.manualSuspended
          /\ m.status = "disconnected" /\ m.preserve = d.preserve
      BY <1>2, <2>2, <2>3 DEF Detached, Hooks
    <2>5. HookFits(m, behavior)
      BY <2>4 DEF HookFits
    <2> QED BY <2>3, <2>4, <2>5
  <1>5. PICK H, C : H = hook' /\ C = connection'
    OBVIOUS
  <1>6. /\ H \in [Terminals -> Hooks] /\ H[t] = m /\ \A u \in Terminals \ {t} : H[u] = hook[u]
        /\ C = Abandon(S) /\ hook[t].sock \in S /\ \A x \in S : x = hook[t].sock
    BY <1>1, <1>2, <1>3, <1>4, <1>5
  <1>7. /\ C \in [BrowserSockets -> Connections] /\ JoinFits(H, C)
        /\ \A x \in BrowserSockets : connection[x].st = "none" => C[x].st = "none"
    BY <1>0, <1>4, <1>6, AbandonOneFits
  <1>8. SocketsFit(hook', connection', behavior')
    BY <1>1, <1>3, <1>4, <1>5, <1>6, <1>7 DEF SocketsFit
  <1>9. AwayFits(suspended', away', authentication', hook')
    BY <1>1, <1>3, <1>4, <1>5, <1>6 DEF AwayFits
  <1>10. HaltFits(halted', hook')
    BY <1>1, <1>3, <1>4, <1>5, <1>6 DEF HaltFits
  <1>11. RestFits(suspended', authentication', halted', away', hook')
    BY <1>1, <1>3, <1>9, <1>10 DEF RestFits
  <1>12. \A x \in BrowserSockets : connection[x].st = "none" => connection'[x].st # "connecting"
    BY <1>5, <1>7
  <1>13. \A u \in Terminals : hook'[u].mounted => hook[u].mounted
    BY <1>3, <1>5, <1>6
  <1> QED BY <1>8, <1>11, <1>12, <1>13, QuietSocketStep

LEMMA SetManualIsSafe ==
    ASSUME SocketConstants, NoSocketLeaks, SetManual
    PROVE  SocketStepIsSafe
  <1>0. /\ SocketsFit(hook, connection, behavior)
        /\ RestFits(suspended, authentication, halted, away, hook)
    BY LeaksToParts
  <1>1. /\ hook \in [Terminals -> Hooks] /\ connection \in [BrowserSockets -> Connections]
        /\ JoinFits(hook, connection)
        /\ GoodIds(suspended) /\ halted \subseteq Terminals /\ away \subseteq Terminals
        /\ authentication \in {"in", "lost", "out"}
        /\ HaltFits(halted, hook) /\ AwayFits(suspended, away, authentication, hook)
        /\ \A u \in Terminals : HookFits(hook[u], behavior)
    BY <1>0 DEF SocketsFit, RestFits
  <1>2. /\ behavior = "automatic" /\ behavior' = "manual" /\ connection' = connection
        /\ suspended' = suspended /\ authentication' = authentication
        /\ halted' = halted /\ away' = away
    BY DEF SetManual
  <1> DEFINE W(h) == [h EXCEPT !.timer = FALSE, !.current = NoSocket, !.stopped = TRUE,
                               !.manualSuspended = TRUE, !.status = "disconnected"]
             Waits(t) == t \in Mounted /\ ~hook[t].authSuspended /\ hook[t].timer
  <1>3. hook' = [t \in Terminals |-> IF Waits(t) THEN W(hook[t]) ELSE hook[t]]
    BY DEF SetManual
  <1>4. ASSUME NEW t \in Terminals
        PROVE  /\ HookFits(hook'[t], "manual") /\ hook'[t].mounted = hook[t].mounted
               /\ hook'[t].sock = hook[t].sock /\ hook'[t].preserve = hook[t].preserve
               /\ hook'[t].status = "connected" => hook[t].status = "connected"
               /\ t \in halted => hook'[t] = hook[t]
    <2>1. HookFits(hook[t], "automatic") /\ hook[t] \in Hooks
      BY <1>1, <1>2
    <2>2. CASE Waits(t)
      <3>1. PICK h, w : h = hook[t] /\ w = W(h)
        OBVIOUS
      <3>2. /\ h \in Hooks /\ h.mounted /\ ~h.authSuspended /\ h.timer /\ h.sock = NoSocket
            /\ ~h.stopped
        BY <2>1, <2>2, <3>1 DEF Mounted, HookFits
      <3>3. /\ w \in Hooks /\ w.mounted /\ ~w.timer /\ w.sock = NoSocket /\ w.current = NoSocket
            /\ w.stopped /\ w.status = "disconnected" /\ w.preserve = h.preserve
            /\ h.mounted = TRUE /\ w.mounted = TRUE
        BY <3>1, <3>2 DEF Hooks
      <3>4. HookFits(w, "manual")
        BY <3>3 DEF HookFits
      <3>5. hook'[t] = w
        BY <1>3, <2>2, <3>1
      <3>6. t \notin halted
        BY <1>1, <3>1, <3>2 DEF HaltFits
      <3> QED BY <3>1, <3>2, <3>3, <3>4, <3>5, <3>6
    <2>3. CASE ~Waits(t)
      <3>1. hook'[t] = hook[t]
        BY <1>3, <2>3
      <3>2. ~hook[t].timer
        BY <2>1, <2>3 DEF Mounted, HookFits, Unmounted
      <3>3. HookFits(hook[t], "manual")
        BY <2>1, <3>2 DEF HookFits
      <3> QED BY <3>1, <3>3
    <2> QED BY <2>2, <2>3
  <1>5. hook' \in [Terminals -> Hooks]
    <2>1. \A t \in Terminals : hook'[t] \in Hooks
      BY <1>4 DEF HookFits
    <2> HIDE DEF W, Waits
    <2> QED BY <1>3, <2>1
  <1>6. JoinFits(hook', connection)
    <2>1. PICK H : H = hook'
      OBVIOUS
    <2>2. /\ \A t \in Terminals : H[t].sock = hook[t].sock
          /\ \A t \in Terminals : H[t].status = "connected" => hook[t].status = "connected"
      BY <1>4, <2>1
    <2>3. JoinFits(H, connection)
      BY <1>1, <2>2, SameSocketsFit
    <2> QED BY <2>1, <2>3
  <1>7. SocketsFit(hook', connection', behavior')
    BY <1>1, <1>2, <1>4, <1>5, <1>6 DEF SocketsFit
  <1>8. HaltFits(halted', hook')
    BY <1>1, <1>2, <1>4 DEF HaltFits
  <1>9. AwayFits(suspended', away', authentication', hook')
    BY <1>1, <1>2, <1>4 DEF AwayFits
  <1>10. RestFits(suspended', authentication', halted', away', hook')
    BY <1>1, <1>2, <1>8, <1>9 DEF RestFits
  <1>11. \A x \in BrowserSockets : connection[x].st = "none" => connection'[x].st # "connecting"
    BY <1>2
  <1>12. \A u \in Terminals : hook'[u].mounted => hook[u].mounted
    BY <1>4
  <1> QED BY <1>7, <1>10, <1>11, <1>12, QuietSocketStep

LEMMA SetAutomaticIsSafe ==
    ASSUME SocketConstants, NoSocketLeaks, NEW f \in [Terminals -> Offers], SetAutomatic(f)
    PROVE  SocketStepIsSafe
  <1>0. /\ SocketsFit(hook, connection, behavior)
        /\ RestFits(suspended, authentication, halted, away, hook)
    BY LeaksToParts
  <1>1. /\ hook \in [Terminals -> Hooks] /\ connection \in [BrowserSockets -> Connections]
        /\ JoinFits(hook, connection)
        /\ GoodIds(suspended) /\ halted \subseteq Terminals /\ away \subseteq Terminals
        /\ authentication \in {"in", "lost", "out"}
        /\ HaltFits(halted, hook) /\ AwayFits(suspended, away, authentication, hook)
        /\ \A u \in Terminals : HookFits(hook[u], behavior)
    BY <1>0 DEF SocketsFit, RestFits
  <1> DEFINE R(h) == [h EXCEPT !.manualSuspended = FALSE, !.stopped = FALSE,
                               !.timer = FALSE, !.attempt = 0]
  <1>2. PICK T : T = {t \in Mounted : ~hook[t].authSuspended /\ hook[t].manualSuspended}
    OBVIOUS
  <1>3. PICK H : H = [t \in Terminals |-> IF t \in T THEN R(hook[t]) ELSE hook[t]]
    OBVIOUS
  <1>4. /\ behavior = "manual" /\ behavior' = "automatic"
        /\ \A t, u \in T : f[t] = f[u] => t = u \/ f[t] = NoSocket
        /\ Connecting(H, connection, T, "automatic", f)
        /\ away' = away \ Mounted /\ suspended' = suspended
        /\ authentication' = authentication /\ halted' = halted
    BY <1>2, <1>3, Zenon DEF SetAutomatic
  <1>5. /\ T \in SUBSET Terminals
        /\ \A t \in T : /\ hook[t].mounted /\ ~hook[t].authSuspended
                        /\ hook[t].manualSuspended
    BY <1>2 DEF Mounted
  <1>6. ASSUME NEW t \in T
        PROVE  HookIsFree(H[t], "automatic") /\ hook[t].sock = NoSocket
    <2>1. PICK h, r : h = hook[t] /\ r = R(h)
      OBVIOUS
    <2>2. /\ h \in Hooks /\ h.mounted /\ ~h.authSuspended /\ h.stopped /\ h.sock = NoSocket
          /\ h.current = NoSocket /\ h.status = "disconnected" /\ 0 \in 0 .. RetrySteps
      BY <1>1, <1>5, <2>1 DEF HookFits, SocketConstants, LimitsAssumption
    <2>3. /\ r \in Hooks /\ r.mounted /\ ~r.authSuspended /\ ~r.manualSuspended /\ ~r.stopped
          /\ ~r.timer /\ r.sock = NoSocket /\ r.current = NoSocket /\ r.status = "disconnected"
      BY <2>1, <2>2 DEF Hooks
    <2>4. HookIsFree(r, "automatic")
      BY <2>3 DEF HookIsFree
    <2>5. H[t] = r
      BY <1>3, <1>5, <2>1
    <2> QED BY <2>1, <2>2, <2>4, <2>5
  <1>7. ASSUME NEW t \in Terminals \ T PROVE H[t] = hook[t] /\ HookFits(H[t], "automatic")
    <2>1. H[t] = hook[t]
      BY <1>3
    <2>2. HookFits(hook[t], "manual")
      BY <1>1, <1>4
    <2>3. HookFits(hook[t], "automatic")
      BY <2>2 DEF HookFits
    <2> QED BY <2>1, <2>3
  <1>8. H \in [Terminals -> Hooks]
    <2>1. \A t \in Terminals : H[t] \in Hooks
      BY <1>1, <1>6, <1>7 DEF HookIsFree
    <2> HIDE DEF R
    <2> QED BY <1>3, <2>1
  <1> HIDE DEF R
  <1>9. JoinFits(H, connection)
    <2>1. /\ \A t \in Terminals : H[t].sock = hook[t].sock
          /\ \A t \in Terminals : H[t].status = "connected" => hook[t].status = "connected"
      BY <1>6, <1>7 DEF HookIsFree
    <2> QED BY <1>1, <2>1, SameSocketsFit
  <1>10. /\ \A t \in T : f[t] \in BrowserSockets \cup {NoSocket}
         /\ \A t \in T : f[t] # NoSocket => connection[f[t]].st = "none"
    BY <1>5 DEF Offers
  <1>11. PICK b : b = "automatic"
    OBVIOUS
  <1>12. /\ b \in {"automatic", "manual"} /\ Connecting(H, connection, T, b, f)
         /\ \A t \in T : HookIsFree(H[t], b)
         /\ \A t \in Terminals \ T : HookFits(H[t], b)
    BY <1>4, <1>6, <1>7, <1>11
  <1>13. /\ SocketsFit(hook', connection', b)
         /\ \A t \in Terminals : hook'[t] = IF t \in T THEN Connect(H[t], b, f[t]) ELSE H[t]
         /\ \A s \in BrowserSockets :
                connection[s].st = "none" /\ connection'[s].st = "connecting" =>
                connection'[s].tab \in T /\ Connects(H[connection'[s].tab])
    BY <1>1, <1>4, <1>5, <1>8, <1>9, <1>10, <1>12, ConnectingFits
  <1>14. SocketsFit(hook', connection', behavior')
    BY <1>4, <1>11, <1>13
  <1>15. \A t \in T : t \notin halted
    BY <1>1, <1>5 DEF HaltFits
  <1>16. HaltFits(halted', hook')
    BY <1>1, <1>4, <1>7, <1>13, <1>15 DEF HaltFits
  <1>17. ASSUME NEW t \in Terminals, ~hook[t].mounted PROVE hook'[t] = hook[t]
    <2>1. t \notin T
      BY <1>5, <1>17
    <2> QED BY <1>7, <1>13, <2>1
  <1>18. AwayFits(suspended', away', authentication', hook')
    <2>1. \A t \in away' : t \in away /\ hook'[t] = hook[t]
      BY <1>1, <1>4, <1>17 DEF Mounted
    <2> QED BY <1>1, <1>4, <2>1 DEF AwayFits
  <1>19. RestFits(suspended', authentication', halted', away', hook')
    BY <1>1, <1>4, <1>16, <1>18 DEF RestFits
  <1>20. HaltedStaysHalted
    <2> SUFFICES ASSUME NEW x \in BrowserSockets, connection[x].st = "none",
                        connection'[x].st = "connecting"
                 PROVE  connection'[x].tab \notin halted
      BY DEF HaltedStaysHalted
    <2> QED BY <1>13, <1>15
  <1>21. RoomForAll => AwayStaysAway
    BY <1>17 DEF AwayStaysAway, Mounted
  <1> QED BY <1>14, <1>19, <1>20, <1>21, SocketStepFromParts

\* suspendTerminalAuthLifecycle changes what the registration of a hook is to keep.
LEMMA SuspendFits ==
    ASSUME NEW b, NEW H, NEW C, SocketsFit(H, C, b), NEW T \in SUBSET Terminals,
           \A t \in T : H[t].mounted, NEW G, G = Suspend(H, T)
    PROVE  /\ SocketsFit(G, C, b)
           /\ \A t \in T : G[t].preserve
           /\ \A t \in Terminals \ T : G[t] = H[t]
           /\ \A t \in Terminals : /\ G[t].mounted = H[t].mounted /\ G[t].stopped = H[t].stopped
                                   /\ G[t].manualSuspended = H[t].manualSuspended
  <1>1. /\ H \in [Terminals -> Hooks] /\ C \in [BrowserSockets -> Connections]
        /\ b \in {"automatic", "manual"} /\ JoinFits(H, C)
        /\ \A t \in Terminals : HookFits(H[t], b)
    BY DEF SocketsFit
  <1>2. G = [t \in Terminals |-> IF t \in T THEN [H[t] EXCEPT !.restored = TRUE, !.preserve = TRUE]
                                 ELSE H[t]]
    BY DEF Suspend
  <1>3. ASSUME NEW t \in T
        PROVE  /\ HookFits(G[t], b) /\ G[t].preserve /\ G[t].sock = H[t].sock
               /\ G[t].status = H[t].status /\ G[t].mounted = H[t].mounted
               /\ G[t].stopped = H[t].stopped /\ G[t].manualSuspended = H[t].manualSuspended
    <2>1. PICK h, g : h = H[t] /\ g = [h EXCEPT !.restored = TRUE, !.preserve = TRUE]
      OBVIOUS
    <2>2. h \in Hooks /\ HookFits(h, b) /\ h.mounted
      BY <1>1, <2>1
    <2>3. /\ g \in Hooks /\ g.preserve /\ g.sock = h.sock /\ g.current = h.current
          /\ g.status = h.status /\ g.mounted = h.mounted /\ g.stopped = h.stopped
          /\ g.manualSuspended = h.manualSuspended /\ g.authSuspended = h.authSuspended
          /\ g.timer = h.timer
      BY <2>1, <2>2 DEF Hooks
    <2>4. HookFits(g, b)
      BY <2>2, <2>3 DEF HookFits
    <2>5. G[t] = g
      BY <1>2, <2>1
    <2> QED BY <2>1, <2>3, <2>4, <2>5
  <1>4. \A t \in Terminals \ T : G[t] = H[t]
    BY <1>2
  <1>5. \A t \in Terminals : HookFits(G[t], b)
    BY <1>1, <1>3, <1>4
  <1>6. G \in [Terminals -> Hooks]
    <2>1. \A t \in Terminals : G[t] \in Hooks
      BY <1>5 DEF HookFits
    <2> QED BY <1>2, <2>1
  <1>7. JoinFits(G, C)
    <2>1. /\ \A t \in Terminals : G[t].sock = H[t].sock
          /\ \A t \in Terminals : G[t].status = "connected" => H[t].status = "connected"
      BY <1>3, <1>4
    <2> QED BY <1>1, <2>1, SameSocketsFit
  <1>8. SocketsFit(G, C, b)
    BY <1>1, <1>5, <1>6, <1>7 DEF SocketsFit
  <1> QED BY <1>3, <1>4, <1>8

\* An order of terminals is a sequence of all of them.
LEMMA OrdersAreComplete ==
    ASSUME SocketConstants, NEW T \in SUBSET Terminals, NEW q \in Orders(T)
    PROVE  q \in Seq(Terminals) /\ \A x \in T : In(x, q)
  <1>1. IsFiniteSet(T)
    BY FS_Subset DEF SocketConstants, TerminalsAssumption
  <1>2. PICK n \in Nat : n = Cardinality(T)
    BY <1>1, FS_CardinalityType
  <1>3. q \in [1 .. n -> T] /\ ToSet(q) = T
    BY <1>2 DEF Orders
  <1>4. q \in Seq(Terminals)
    BY <1>3
  <1>5. \A x \in T : In(x, q)
    BY <1>3 DEF ToSet, In
  <1> QED BY <1>4, <1>5

LEMMA AuthenticationLostIsSafe ==
    ASSUME SocketConstants, NoSocketLeaks, AuthenticationLost
    PROVE  SocketStepIsSafe
  <1>0. /\ SocketsFit(hook, connection, behavior)
        /\ RestFits(suspended, authentication, halted, away, hook)
    BY LeaksToParts
  <1>1. /\ GoodIds(suspended) /\ halted \subseteq Terminals /\ away \subseteq Terminals
        /\ HaltFits(halted, hook) /\ AwayFits(suspended, away, authentication, hook)
    BY <1>0 DEF RestFits
  <1>2. PICK T, G : T = Mounted /\ G = hook'
    OBVIOUS
  <1>3. /\ authentication = "in" /\ authentication' = "lost" /\ G = Suspend(hook, T)
        /\ away' = away \cup T /\ connection' = connection /\ behavior' = behavior
        /\ halted' = halted
    BY <1>2 DEF AuthenticationLost
  <1>4. T \in SUBSET Terminals /\ \A t \in T : hook[t].mounted
    BY <1>2 DEF Mounted
  <1>5. PICK q \in Orders(T) : suspended' = RememberAll(suspended, q)
    BY <1>2 DEF AuthenticationLost
  <1>6. q \in Seq(Terminals) /\ \A x \in T : In(x, q)
    BY <1>4, OrdersAreComplete
  <1>7. /\ GoodIds(suspended')
        /\ RoomForAll => \A x : In(x, suspended) \/ In(x, q) => In(x, suspended')
    BY <1>1, <1>5, <1>6, RemembersAll
  <1>8. /\ SocketsFit(G, connection, behavior)
        /\ \A t \in T : G[t].preserve
        /\ \A t \in Terminals : /\ G[t].mounted = hook[t].mounted /\ G[t].stopped = hook[t].stopped
                                /\ G[t].manualSuspended = hook[t].manualSuspended
    BY <1>0, <1>3, <1>4, SuspendFits
  <1>9. SocketsFit(hook', connection', behavior')
    BY <1>2, <1>3, <1>8
  <1>10. HaltFits(halted', hook')
    BY <1>1, <1>2, <1>3, <1>8 DEF HaltFits
  <1>11. AwayFits(suspended', away', authentication', hook')
    <2> SUFFICES ASSUME RoomForAll, NEW t \in away'
                 PROVE  In(t, suspended') /\ (hook'[t].mounted => hook'[t].preserve)
      BY DEF AwayFits
    <2>1. In(t, suspended')
      BY <1>1, <1>3, <1>6, <1>7 DEF AwayFits
    <2>2. ASSUME hook'[t].mounted PROVE hook'[t].preserve
      <3>1. t \in Terminals /\ hook[t].mounted
        BY <1>1, <1>2, <1>3, <1>4, <1>8, <2>2
      <3>2. t \in T
        BY <1>2, <3>1 DEF Mounted
      <3> QED BY <1>2, <1>8, <3>2
    <2> QED BY <2>1, <2>2
  <1>12. RestFits(suspended', authentication', halted', away', hook')
    BY <1>1, <1>3, <1>4, <1>7, <1>10, <1>11 DEF RestFits
  <1>13. \A x \in BrowserSockets : connection[x].st = "none" => connection'[x].st # "connecting"
    BY <1>3
  <1>14. \A u \in Terminals : hook'[u].mounted => hook[u].mounted
    BY <1>2, <1>8
  <1> QED BY <1>9, <1>12, <1>13, <1>14, QuietSocketStep

LEMMA UnmountAllIsSafe ==
    ASSUME SocketConstants, NoSocketLeaks, UnmountAll
    PROVE  SocketStepIsSafe
  <1>0. /\ SocketsFit(hook, connection, behavior)
        /\ RestFits(suspended, authentication, halted, away, hook)
    BY LeaksToParts
  <1>1. /\ hook \in [Terminals -> Hooks] /\ behavior \in {"automatic", "manual"}
        /\ JoinFits(hook, connection) /\ \A u \in Terminals : HookFits(hook[u], behavior)
        /\ GoodIds(suspended) /\ away \subseteq Terminals
        /\ AwayFits(suspended, away, authentication, hook)
    BY <1>0 DEF SocketsFit, RestFits
  <1>2. PICK T, S, X : /\ T = Mounted /\ S = {hook[t].sock : t \in T}
                       /\ X = {u \in T : hook[u].restored /\ ~hook[u].preserve}
    OBVIOUS
  <1>3. /\ authentication = "lost" /\ authentication' = "out"
        /\ hook' = [t \in Terminals |-> Unmounted]
        /\ connection' = Abandon(S) /\ suspended' = ForgetAll(suspended, X)
        /\ halted' = {} /\ away' = away /\ behavior' = behavior
    BY <1>2 DEF UnmountAll, Unregistered
  <1>4. /\ Unmounted \in Hooks /\ HookFits(Unmounted, behavior) /\ Unmounted.sock = NoSocket
        /\ Unmounted.status # "connected" /\ ~Unmounted.mounted
    <2>1. Unmounted.sock = NoSocket /\ Unmounted.status # "connected" /\ ~Unmounted.mounted
      BY DEF Unmounted
    <2> QED BY <2>1, UnmountedFits
  <1>5. PICK H, C : H = hook' /\ C = connection'
    OBVIOUS
  <1>6. /\ H \in [Terminals -> Hooks] /\ \A t \in Terminals : H[t] = Unmounted
        /\ C = Abandon(S) /\ T \in SUBSET Terminals
    BY <1>2, <1>3, <1>4, <1>5 DEF Mounted
  <1>7. /\ \A t \in T : hook[t].sock \in S
        /\ \A s \in S : \E t \in T : hook[t].sock = s
        /\ \A t \in T : H[t].sock = NoSocket /\ H[t].status # "connected"
        /\ \A t \in Terminals \ T : H[t] = hook[t]
    <2>1. \A t \in Terminals \ T : hook[t] = Unmounted
      BY <1>1, <1>2 DEF HookFits, Mounted
    <2>2. \A t \in T : H[t].sock = NoSocket /\ H[t].status # "connected"
      BY <1>4, <1>6
    <2>3. \A t \in Terminals \ T : H[t] = hook[t]
      BY <1>6, <2>1
    <2> QED BY <1>2, <2>2, <2>3
  <1>8. C \in [BrowserSockets -> Connections] /\ JoinFits(H, C)
    BY <1>0, <1>6, <1>7, AbandonFits
  <1>9. ASSUME NEW x \in BrowserSockets, connection[x].st = "none" PROVE C[x].st = "none"
    <2>1. x # NoSocket
      BY DEF SocketConstants, TerminalsAssumption
    <2>2. x \notin S
      BY <1>1, <1>6, <1>7, <1>9, <2>1 DEF JoinFits
    <2>3. C[x] = connection[x]
      BY <1>6, <2>2 DEF Abandon
    <2> QED BY <1>9, <2>3
  <1>10. SocketsFit(hook', connection', behavior')
    BY <1>1, <1>3, <1>4, <1>5, <1>6, <1>8 DEF SocketsFit
  <1>11. PICK q : q = ForgetAll(suspended, X)
    OBVIOUS
  <1>12. /\ q \in Seq(Terminals) /\ Once(q) /\ Len(q) <= Len(suspended)
         /\ \A x : In(x, q) <=> In(x, suspended) /\ x \notin X
    BY <1>1, <1>11, ForgetsAll DEF GoodIds
  <1>13. GoodIds(q) /\ suspended' = q
    BY <1>1, <1>3, <1>11, <1>12 DEF GoodIds, SocketConstants, LimitsAssumption
  <1>14. AwayFits(suspended', away', authentication', hook')
    <2> SUFFICES ASSUME RoomForAll, NEW t \in away' PROVE In(t, suspended')
      BY <1>3 DEF AwayFits
    <2>1. In(t, suspended) /\ (hook[t].mounted => hook[t].preserve)
      BY <1>1, <1>3 DEF AwayFits
    <2>2. t \notin X
      BY <1>2, <2>1 DEF Mounted
    <2> QED BY <1>12, <1>13, <2>1, <2>2
  <1>15. HaltFits(halted', hook')
    BY <1>3 DEF HaltFits
  <1>16. RestFits(suspended', authentication', halted', away', hook')
    BY <1>1, <1>3, <1>13, <1>14, <1>15 DEF RestFits
  <1>17. \A x \in BrowserSockets : connection[x].st = "none" => connection'[x].st # "connecting"
    BY <1>5, <1>9
  <1>18. \A u \in Terminals : hook'[u].mounted => hook[u].mounted
    BY <1>4, <1>5, <1>6
  <1> QED BY <1>10, <1>16, <1>17, <1>18, QuietSocketStep

LEMMA SignInIsSafe ==
    ASSUME SocketConstants, NoSocketLeaks, SignIn
    PROVE  SocketStepIsSafe
  <1>0. /\ SocketsFit(hook, connection, behavior)
        /\ RestFits(suspended, authentication, halted, away, hook)
    BY LeaksToParts
  <1>1. /\ hook' = hook /\ connection' = connection /\ suspended' = suspended /\ away' = away
        /\ behavior' = behavior /\ halted' = halted /\ authentication' = "in"
    BY DEF SignIn
  <1>2. SocketsFit(hook', connection', behavior')
    BY <1>0, <1>1
  <1>3. RestFits(suspended', authentication', halted', away', hook')
    BY <1>0, <1>1 DEF RestFits, AwayFits
  <1> QED BY <1>1, <1>2, <1>3, QuietSocketStep

\* The socket whose event is heard is the one of a mounted terminal that is not stopped.
LEMMA HeardIsKnown ==
    ASSUME SocketConstants, SocketsFit(hook, connection, behavior), NEW s \in BrowserSockets,
           IsCurrent(s), NEW t, t = connection[s].tab
    PROVE  /\ t \in Terminals /\ hook[t].sock = s /\ hook[t].current = s /\ hook[t].mounted
           /\ ~hook[t].stopped /\ ~hook[t].timer /\ s # NoSocket /\ connection[s].heard
           /\ HookFits(hook[t], behavior) /\ hook[t] \in Hooks /\ connection[s] \in Connections
           /\ ~hook[t].manualSuspended /\ ~hook[t].authSuspended
  <1>1. connection[s].heard /\ t \in Terminals /\ hook[t].sock = s /\ s # NoSocket
    BY DEF IsCurrent, SocketsFit, JoinFits, SocketConstants, TerminalsAssumption
  <1>2. HookFits(hook[t], behavior) /\ hook[t] \in Hooks /\ connection[s] \in Connections
    BY <1>1 DEF SocketsFit
  <1>3. hook[t].mounted
    BY <1>1, <1>2 DEF HookFits, Unmounted
  <1> QED BY <1>1, <1>2, <1>3 DEF HookFits

\* An event changes one socket and the hook that knows it.
LEMMA EventFits ==
    ASSUME SocketConstants, NEW b, SocketsFit(hook, connection, b), NEW t \in Terminals,
           NEW s \in BrowserSockets, hook[t].sock = s,
           NEW m, HookFits(m, b), NEW c \in Connections,
           m.sock \in {s, NoSocket},
           m.sock = s => c.tab = t /\ c.heard /\ c.st # "none",
           m.status = "connected" => m.sock = s /\ c.st = "open",
           c.heard => m.sock = s /\ c.tab = t,
           c.st \in {"connecting", "open"} => c.heard,
           NEW H \in [Terminals -> Hooks], H[t] = m, \A u \in Terminals \ {t} : H[u] = hook[u],
           NEW C \in [BrowserSockets -> Connections], C[s] = c,
           \A x \in BrowserSockets \ {s} : C[x] = connection[x]
    PROVE  SocketsFit(H, C, b)
  <1>1. /\ hook \in [Terminals -> Hooks] /\ connection \in [BrowserSockets -> Connections]
        /\ b \in {"automatic", "manual"} /\ JoinFits(hook, connection)
        /\ \A u \in Terminals : HookFits(hook[u], b)
    BY DEF SocketsFit
  <1>2. /\ H[t] = m /\ (\A u \in Terminals \ {t} : H[u] = hook[u]) /\ H \in [Terminals -> Hooks]
    OBVIOUS
  <1>3. /\ C[s] = c /\ (\A x \in BrowserSockets \ {s} : C[x] = connection[x])
        /\ C \in [BrowserSockets -> Connections]
    OBVIOUS
  <1>4. \A u \in Terminals : HookFits(H[u], b)
    BY <1>1, <1>2
  <1>5. s # NoSocket /\ connection[s].tab = t
    BY <1>1 DEF JoinFits, SocketConstants, TerminalsAssumption
  <1>6. ASSUME NEW u \in Terminals \ {t}, hook[u].sock # NoSocket
        PROVE  hook[u].sock \in BrowserSockets \ {s}
    <2>1. hook[u].sock \in BrowserSockets
      BY <1>1, <1>6 DEF Hooks
    <2>2. connection[hook[u].sock].tab = u
      BY <1>1, <1>6 DEF JoinFits
    <2> QED BY <1>5, <2>1, <2>2
  <1>7. ASSUME NEW u \in Terminals, H[u].sock # NoSocket
        PROVE  C[H[u].sock].tab = u /\ C[H[u].sock].heard /\ C[H[u].sock].st # "none"
    <2>1. CASE u = t
      BY <1>2, <1>3, <1>7, <2>1
    <2>2. CASE u # t
      <3>1. H[u] = hook[u] /\ C[hook[u].sock] = connection[hook[u].sock]
        BY <1>2, <1>3, <1>6, <1>7, <2>2
      <3> QED BY <1>1, <1>7, <3>1 DEF JoinFits
    <2> QED BY <2>1, <2>2
  <1>8. ASSUME NEW u \in Terminals, H[u].status = "connected"
        PROVE  H[u].sock # NoSocket /\ C[H[u].sock].st = "open"
    <2>1. CASE u = t
      BY <1>2, <1>3, <1>5, <1>8, <2>1
    <2>2. CASE u # t
      <3>1. hook[u].sock # NoSocket /\ connection[hook[u].sock].st = "open"
        BY <1>1, <1>2, <1>8, <2>2 DEF JoinFits
      <3>2. H[u] = hook[u] /\ C[hook[u].sock] = connection[hook[u].sock]
        BY <1>2, <1>3, <1>6, <2>2, <3>1
      <3> QED BY <3>1, <3>2
    <2> QED BY <2>1, <2>2
  <1>9. ASSUME NEW x \in BrowserSockets
        PROVE  /\ C[x].heard => C[x].tab \in Terminals /\ H[C[x].tab].sock = x
               /\ C[x].st \in {"connecting", "open"} => C[x].heard
    <2>1. CASE x = s
      BY <1>2, <1>3, <2>1
    <2>2. CASE x # s
      <3>1. C[x] = connection[x]
        BY <1>3, <2>2
      <3>2. connection[x].heard => /\ connection[x].tab \in Terminals
                                   /\ hook[connection[x].tab].sock = x
        BY <1>1 DEF JoinFits
      <3>3. connection[x].heard => connection[x].tab # t
        BY <2>2, <3>2
      <3> QED BY <1>1, <1>2, <3>1, <3>2, <3>3 DEF JoinFits
    <2> QED BY <2>1, <2>2
  <1>10. JoinFits(H, C)
    BY <1>7, <1>8, <1>9 DEF JoinFits
  <1> QED BY <1>1, <1>2, <1>3, <1>4, <1>10 DEF SocketsFit

\* An event after which the socket is still the one of its terminal
LEMMA KeptSocketIsSafe ==
    ASSUME SocketConstants, NoSocketLeaks, NEW s \in BrowserSockets, IsCurrent(s),
           connection[s].st # "none", NEW t, t = connection[s].tab, NEW m \in Hooks,
           m.mounted = hook[t].mounted, m.stopped = hook[t].stopped, m.timer = hook[t].timer,
           m.sock = hook[t].sock, m.current = hook[t].current,
           m.authSuspended = hook[t].authSuspended, m.preserve = hook[t].preserve,
           m.manualSuspended = hook[t].manualSuspended, m.status # "disconnected",
           NEW c \in Connections, c.tab = t, c.heard, c.st # "none",
           m.status = "connected" => c.st = "open",
           hook' = [hook EXCEPT ![t] = m], connection' = [connection EXCEPT ![s] = c],
           suspended' = suspended, behavior' = behavior, authentication' = authentication,
           halted' = halted, away' = away
    PROVE  SocketStepIsSafe
  <1>0. /\ SocketsFit(hook, connection, behavior)
        /\ RestFits(suspended, authentication, halted, away, hook)
    BY LeaksToParts
  <1>1. /\ hook \in [Terminals -> Hooks] /\ connection \in [BrowserSockets -> Connections]
    BY <1>0 DEF SocketsFit
  <1>2. /\ t \in Terminals /\ hook[t].sock = s /\ hook[t].current = s /\ hook[t].mounted
        /\ ~hook[t].stopped /\ ~hook[t].timer /\ s # NoSocket
        /\ HookFits(hook[t], behavior) /\ hook[t] \in Hooks
    BY <1>0, HeardIsKnown
  <1>3. HookFits(m, behavior)
    BY <1>2 DEF HookFits
  <1>4. PICK H, C : H = hook' /\ C = connection'
    OBVIOUS
  <1>5. H \in [Terminals -> Hooks] /\ H[t] = m /\ \A u \in Terminals \ {t} : H[u] = hook[u]
    BY <1>1, <1>2, <1>4
  <1>6. /\ C \in [BrowserSockets -> Connections] /\ C[s] = c
        /\ \A x \in BrowserSockets \ {s} : C[x] = connection[x]
    BY <1>1, <1>4
  <1>7. /\ m.sock \in {s, NoSocket}
        /\ m.sock = s => c.tab = t /\ c.heard /\ c.st # "none"
        /\ m.status = "connected" => m.sock = s /\ c.st = "open"
        /\ c.heard => m.sock = s /\ c.tab = t
        /\ c.st \in {"connecting", "open"} => c.heard
    BY <1>2
  <1>8. SocketsFit(H, C, behavior)
    BY ONLY SocketConstants, c \in Connections, <1>0, <1>2, <1>3, <1>5, <1>6, <1>7,
            s \in BrowserSockets, EventFits
  <1>9. SocketsFit(hook', connection', behavior')
    BY <1>4, <1>8
  <1>10. \A u \in Terminals : /\ hook'[u].mounted = hook[u].mounted
                               /\ hook'[u].stopped = hook[u].stopped
                               /\ hook'[u].manualSuspended = hook[u].manualSuspended
                               /\ hook'[u].preserve = hook[u].preserve
    BY <1>4, <1>5
  <1>11. RestFits(suspended', authentication', halted', away', hook')
    BY <1>0, <1>10 DEF RestFits, HaltFits, AwayFits
  <1>12. \A x \in BrowserSockets : connection[x].st = "none" => connection'[x].st # "connecting"
    BY <1>4, <1>6
  <1>13. \A u \in Terminals : hook'[u].mounted => hook[u].mounted
    BY <1>10
  <1> QED BY <1>9, <1>11, <1>12, <1>13, QuietSocketStep

LEMMA OpenedIsSafe ==
    ASSUME SocketConstants, NoSocketLeaks, NEW s \in BrowserSockets, Opened(s)
    PROVE  SocketStepIsSafe
  <1>0. SocketsFit(hook, connection, behavior)
    BY LeaksToParts
  <1>1. hook \in [Terminals -> Hooks] /\ connection \in [BrowserSockets -> Connections]
    BY <1>0 DEF SocketsFit
  <1>2. PICK t : t = connection[s].tab
    OBVIOUS
  <1>3. IsCurrent(s)
    <2>1. connection[s].st = "connecting"
      BY DEF Opened
    <2>2. connection[s].heard /\ t \in Terminals /\ hook[t].sock = s
      BY <1>0, <1>2, <2>1 DEF SocketsFit, JoinFits
    <2>3. hook[t].current = s
      BY <1>0, <2>2 DEF SocketsFit, HookFits
    <2> QED BY <1>2, <2>2, <2>3 DEF IsCurrent
  <1>4. /\ t \in Terminals /\ hook[t] \in Hooks /\ connection[s] \in Connections
        /\ connection[s].heard /\ ~hook[t].stopped /\ HookFits(hook[t], behavior)
        /\ hook[t].mounted
    BY <1>0, <1>2, <1>3, HeardIsKnown
  <1>5. PICK h, d : h = hook[t] /\ d = connection[s]
    OBVIOUS
  <1>6. PICK m, c : m = [h EXCEPT !.attempt = 0] /\ c = [d EXCEPT !.st = "open"]
    OBVIOUS
  <1>7. /\ connection[s].st # "none" /\ hook' = [hook EXCEPT ![t] = m]
        /\ connection' = [connection EXCEPT ![s] = c]
        /\ suspended' = suspended /\ behavior' = behavior /\ authentication' = authentication
        /\ halted' = halted /\ away' = away
    BY <1>1, <1>2, <1>3, <1>5, <1>6 DEF Opened
  <1>8. /\ m \in Hooks /\ m.mounted = h.mounted /\ m.stopped = h.stopped /\ m.timer = h.timer
        /\ m.sock = h.sock /\ m.current = h.current /\ m.status = h.status
        /\ m.authSuspended = h.authSuspended /\ m.manualSuspended = h.manualSuspended
        /\ m.preserve = h.preserve
    <2>1. 0 \in 0 .. RetrySteps /\ h \in Hooks
      BY <1>4, <1>5 DEF SocketConstants, LimitsAssumption
    <2> QED BY <1>6, <2>1 DEF Hooks
  <1>9. c \in Connections /\ c.st = "open" /\ c.tab = d.tab /\ c.heard = d.heard
    BY <1>4, <1>5, <1>6, <1>7 DEF Connections
  <1>10. /\ c.tab = t /\ c.heard /\ c.st # "none" /\ m.status # "disconnected"
         /\ m.status = "connected" => c.st = "open"
    BY <1>2, <1>4, <1>5, <1>8, <1>9 DEF HookFits
  <1> QED BY <1>2, <1>3, <1>5, <1>7, <1>8, <1>9, <1>10, KeptSocketIsSafe, Zenon

LEMMA ReadyIsSafe ==
    ASSUME SocketConstants, NoSocketLeaks, NEW s \in BrowserSockets, Ready(s)
    PROVE  SocketStepIsSafe
  <1>0. SocketsFit(hook, connection, behavior)
    BY LeaksToParts
  <1>1. hook \in [Terminals -> Hooks] /\ connection \in [BrowserSockets -> Connections]
    BY <1>0 DEF SocketsFit
  <1>2. PICK t : t = connection[s].tab
    OBVIOUS
  <1>3. IsCurrent(s)
    BY DEF Ready
  <1>4. /\ t \in Terminals /\ hook[t] \in Hooks /\ connection[s] \in Connections
        /\ connection[s].heard /\ ~hook[t].stopped /\ HookFits(hook[t], behavior)
        /\ hook[t].mounted
    BY <1>0, <1>2, <1>3, HeardIsKnown
  <1>5. PICK h, d : h = hook[t] /\ d = connection[s]
    OBVIOUS
  <1>6. PICK m, c : m = [h EXCEPT !.attempt = 0, !.status = "connected"] /\ c = d
    OBVIOUS
  <1>7. /\ connection[s].st # "none" /\ d.st = "open" /\ hook' = [hook EXCEPT ![t] = m]
        /\ connection' = [connection EXCEPT ![s] = c]
        /\ suspended' = suspended /\ behavior' = behavior /\ authentication' = authentication
        /\ halted' = halted /\ away' = away
    BY <1>1, <1>2, <1>3, <1>5, <1>6 DEF Ready
  <1>8. /\ m \in Hooks /\ m.mounted = h.mounted /\ m.stopped = h.stopped /\ m.timer = h.timer
        /\ m.sock = h.sock /\ m.current = h.current /\ m.status = "connected"
        /\ m.authSuspended = h.authSuspended /\ m.manualSuspended = h.manualSuspended
        /\ m.preserve = h.preserve
    <2>1. 0 \in 0 .. RetrySteps /\ h \in Hooks
      BY <1>4, <1>5 DEF SocketConstants, LimitsAssumption
    <2> QED BY <1>6, <2>1 DEF Hooks
  <1>9. c \in Connections /\ c.st = "open" /\ c.tab = d.tab /\ c.heard = d.heard
    BY <1>4, <1>5, <1>6, <1>7 DEF Connections
  <1>10. /\ c.tab = t /\ c.heard /\ c.st # "none" /\ m.status # "disconnected"
         /\ m.status = "connected" => c.st = "open"
    BY <1>2, <1>4, <1>5, <1>8, <1>9 DEF HookFits
  <1> QED BY <1>2, <1>3, <1>5, <1>7, <1>8, <1>9, <1>10, KeptSocketIsSafe, Zenon

LEMMA BadMessageIsSafe ==
    ASSUME SocketConstants, NoSocketLeaks, NEW s \in BrowserSockets, BadMessage(s)
    PROVE  SocketStepIsSafe
  <1>0. SocketsFit(hook, connection, behavior)
    BY LeaksToParts
  <1>1. hook \in [Terminals -> Hooks] /\ connection \in [BrowserSockets -> Connections]
    BY <1>0 DEF SocketsFit
  <1>2. PICK t : t = connection[s].tab
    OBVIOUS
  <1>3. IsCurrent(s)
    BY DEF BadMessage
  <1>4. /\ t \in Terminals /\ hook[t] \in Hooks /\ connection[s] \in Connections
        /\ connection[s].heard /\ ~hook[t].stopped /\ HookFits(hook[t], behavior)
        /\ hook[t].mounted
    BY <1>0, <1>2, <1>3, HeardIsKnown
  <1>5. PICK h, d : h = hook[t] /\ d = connection[s]
    OBVIOUS
  <1>6. PICK m, c : m = [h EXCEPT !.status = "error"] /\ c = [d EXCEPT !.st = "closing"]
    OBVIOUS
  <1>7. /\ connection[s].st # "none" /\ hook' = [hook EXCEPT ![t] = m]
        /\ connection' = [connection EXCEPT ![s] = c]
        /\ suspended' = suspended /\ behavior' = behavior /\ authentication' = authentication
        /\ halted' = halted /\ away' = away
    BY <1>1, <1>2, <1>3, <1>5, <1>6 DEF BadMessage
  <1>8. /\ m \in Hooks /\ m.mounted = h.mounted /\ m.stopped = h.stopped /\ m.timer = h.timer
        /\ m.sock = h.sock /\ m.current = h.current /\ m.status = "error"
        /\ m.authSuspended = h.authSuspended /\ m.manualSuspended = h.manualSuspended
        /\ m.preserve = h.preserve
    <2>1. 0 \in 0 .. RetrySteps /\ h \in Hooks
      BY <1>4, <1>5 DEF SocketConstants, LimitsAssumption
    <2> QED BY <1>6, <2>1 DEF Hooks
  <1>9. c \in Connections /\ c.st = "closing" /\ c.tab = d.tab /\ c.heard = d.heard
    BY <1>4, <1>5, <1>6, <1>7 DEF Connections
  <1>10. /\ c.tab = t /\ c.heard /\ c.st # "none" /\ m.status # "disconnected"
         /\ m.status = "connected" => c.st = "open"
    BY <1>2, <1>4, <1>5, <1>8, <1>9 DEF HookFits
  <1> QED BY <1>2, <1>3, <1>5, <1>7, <1>8, <1>9, <1>10, KeptSocketIsSafe, Zenon

\* A socket that nobody hears ends.
LEMMA ClosedUnheardIsSafe ==
    ASSUME SocketConstants, NoSocketLeaks, NEW s \in BrowserSockets, ClosedUnheard(s)
    PROVE  SocketStepIsSafe
  <1>0. /\ SocketsFit(hook, connection, behavior)
        /\ RestFits(suspended, authentication, halted, away, hook)
    BY LeaksToParts
  <1>1. /\ hook \in [Terminals -> Hooks] /\ connection \in [BrowserSockets -> Connections]
        /\ JoinFits(hook, connection) /\ behavior \in {"automatic", "manual"}
        /\ \A t \in Terminals : HookFits(hook[t], behavior)
    BY <1>0 DEF SocketsFit
  <1>2. PICK c : c = Unused
    OBVIOUS
  <1>3. /\ c \in Connections /\ c.st = "none" /\ ~c.heard
    BY <1>2 DEF Connections, Unused
  <1>4. /\ ~IsCurrent(s) /\ hook' = hook /\ connection' = [connection EXCEPT ![s] = c]
        /\ suspended' = suspended /\ behavior' = behavior /\ authentication' = authentication
        /\ halted' = halted /\ away' = away
    BY <1>2 DEF ClosedUnheard
  <1>5. ~connection[s].heard
    BY <1>1, <1>4 DEF IsCurrent, JoinFits, HookFits
  <1>6. PICK C : C = connection'
    OBVIOUS
  <1>7. /\ C \in [BrowserSockets -> Connections] /\ C[s] = c
        /\ \A x \in BrowserSockets \ {s} : C[x] = connection[x]
    BY <1>1, <1>3, <1>4, <1>6
  <1>8. ASSUME NEW t \in Terminals, hook[t].sock # NoSocket
        PROVE  C[hook[t].sock] = connection[hook[t].sock]
    <2>1. hook[t].sock \in BrowserSockets
      BY <1>1, <1>8 DEF Hooks
    <2>2. connection[hook[t].sock].heard
      BY <1>1, <1>8 DEF JoinFits
    <2> QED BY <1>5, <1>7, <2>1, <2>2
  <1>9. JoinFits(hook, C)
    <2>1. ASSUME NEW t \in Terminals, hook[t].sock # NoSocket
          PROVE  C[hook[t].sock].tab = t /\ C[hook[t].sock].heard /\ C[hook[t].sock].st # "none"
      BY <1>1, <1>8, <2>1 DEF JoinFits
    <2>2. ASSUME NEW t \in Terminals, hook[t].status = "connected"
          PROVE  hook[t].sock # NoSocket /\ C[hook[t].sock].st = "open"
      BY <1>1, <1>8, <2>2 DEF JoinFits
    <2>3. ASSUME NEW x \in BrowserSockets
          PROVE  /\ C[x].heard => C[x].tab \in Terminals /\ hook[C[x].tab].sock = x
                 /\ C[x].st \in {"connecting", "open"} => C[x].heard
      <3>1. CASE x = s
        BY <1>3, <1>7, <3>1
      <3>2. CASE x # s
        BY <1>1, <1>7, <3>2 DEF JoinFits
      <3> QED BY <3>1, <3>2
    <2> QED BY <2>1, <2>2, <2>3 DEF JoinFits
  <1>10. SocketsFit(hook', connection', behavior')
    BY <1>1, <1>4, <1>6, <1>7, <1>9 DEF SocketsFit
  <1>11. RestFits(suspended', authentication', halted', away', hook')
    BY <1>0, <1>4
  <1>12. \A x \in BrowserSockets : connection[x].st = "none" => connection'[x].st # "connecting"
    BY <1>3, <1>6, <1>7
  <1>13. \A u \in Terminals : hook'[u].mounted => hook[u].mounted
    BY <1>4
  <1> QED BY <1>10, <1>11, <1>12, <1>13, QuietSocketStep

\* The hook whose socket has ended, before it decides what to do
LEMMA DroppedFits ==
    ASSUME NEW h \in Hooks, NEW d, d = Dropped(h)
    PROVE  /\ d \in Hooks /\ d.sock = NoSocket /\ d.current = NoSocket
           /\ d.mounted = h.mounted /\ d.stopped = h.stopped /\ d.timer = h.timer
           /\ d.authSuspended = h.authSuspended /\ d.manualSuspended = h.manualSuspended
           /\ d.preserve = h.preserve
  BY DEF Dropped, Hooks

LEMMA StoppedFits ==
    ASSUME NEW d \in Hooks, NEW m, m = Stopped(d)
    PROVE  /\ m \in Hooks /\ m.sock = d.sock /\ m.current = d.current
           /\ m.mounted = d.mounted /\ m.stopped /\ ~m.timer /\ m.status = "disconnected"
           /\ m.authSuspended = d.authSuspended /\ m.manualSuspended = d.manualSuspended
           /\ m.preserve = d.preserve
  BY DEF Stopped, Hooks

LEMMA ClosedWithIsSafe ==
    ASSUME SocketConstants, NoSocketLeaks, NEW s \in BrowserSockets, NEW code \in Codes,
           ClosedWith(s, code)
    PROVE  SocketStepIsSafe
  <1>0. /\ SocketsFit(hook, connection, behavior)
        /\ RestFits(suspended, authentication, halted, away, hook)
    BY LeaksToParts
  <1>1. /\ hook \in [Terminals -> Hooks] /\ connection \in [BrowserSockets -> Connections]
        /\ behavior \in {"automatic", "manual"}
        /\ GoodIds(suspended) /\ halted \subseteq Terminals /\ away \subseteq Terminals
        /\ authentication \in {"in", "lost", "out"}
        /\ HaltFits(halted, hook) /\ AwayFits(suspended, away, authentication, hook)
    BY <1>0 DEF SocketsFit, RestFits
  <1>2. PICK t : t = connection[s].tab
    OBVIOUS
  <1>3. PICK h, d : h = hook[t] /\ d = Dropped(h)
    OBVIOUS
  <1>4. PICK m, c : m = (IF code \in Final THEN Stopped(d) ELSE ScheduleRetry(d, behavior))
                    /\ c = Unused
    OBVIOUS
  <1>5. /\ IsCurrent(s) /\ hook' = [hook EXCEPT ![t] = m]
        /\ connection' = [connection EXCEPT ![s] = c]
        /\ halted' = IF code \in Final THEN halted \cup {t} ELSE halted
        /\ suspended' = suspended /\ behavior' = behavior /\ authentication' = authentication
        /\ away' = away
    BY <1>2, <1>3, <1>4 DEF ClosedWith
  <1>6. /\ t \in Terminals /\ hook[t].sock = s /\ hook[t].mounted /\ s # NoSocket
        /\ ~hook[t].stopped /\ ~hook[t].timer /\ hook[t] \in Hooks
        /\ ~hook[t].manualSuspended /\ ~hook[t].authSuspended
    BY <1>0, <1>2, <1>5, HeardIsKnown
  <1>7. /\ d \in Hooks /\ d.sock = NoSocket /\ d.current = NoSocket /\ d.mounted
        /\ ~d.stopped /\ ~d.timer /\ ~d.manualSuspended /\ ~d.authSuspended
        /\ d.preserve = h.preserve
    BY <1>3, <1>6, DroppedFits
  <1>8. c \in Connections /\ c.st = "none" /\ ~c.heard
    BY <1>4 DEF Connections, Unused
  <1>9. /\ m \in Hooks /\ HookFits(m, behavior) /\ m.sock = NoSocket /\ m.status # "connected"
        /\ m.mounted /\ m.preserve = h.preserve
        /\ code \in Final => m.stopped /\ ~m.manualSuspended
    <2>1. CASE code \in Final
      <3>1. m = Stopped(d)
        BY <1>4, <2>1
      <3>2. /\ m \in Hooks /\ m.sock = d.sock /\ m.current = d.current
            /\ m.mounted = d.mounted /\ m.stopped /\ ~m.timer /\ m.status = "disconnected"
            /\ m.authSuspended = d.authSuspended /\ m.manualSuspended = d.manualSuspended
            /\ m.preserve = d.preserve
        BY <1>7, <3>1, StoppedFits
      <3>3. HookFits(m, behavior)
        BY <1>7, <3>2 DEF HookFits
      <3> QED BY <1>7, <3>2, <3>3
    <2>2. CASE code \notin Final
      <3>1. m = ScheduleRetry(d, behavior)
        BY <1>4, <2>2
      <3>2. /\ HookFits(ScheduleRetry(d, behavior), behavior)
            /\ ScheduleRetry(d, behavior).sock = NoSocket
            /\ ScheduleRetry(d, behavior).status # "connected"
            /\ ScheduleRetry(d, behavior).mounted
            /\ ScheduleRetry(d, behavior).preserve = d.preserve
        BY <1>1, <1>7, RetryFits
      <3>3. m \in Hooks
        BY <3>1, <3>2 DEF HookFits
      <3> QED BY <1>7, <2>2, <3>1, <3>2, <3>3
    <2> QED BY <2>1, <2>2
  <1>10. PICK H, C : H = hook' /\ C = connection'
    OBVIOUS
  <1>11. H \in [Terminals -> Hooks] /\ H[t] = m /\ \A u \in Terminals \ {t} : H[u] = hook[u]
    BY <1>1, <1>5, <1>6, <1>9, <1>10
  <1>12. /\ C \in [BrowserSockets -> Connections] /\ C[s] = c
         /\ \A x \in BrowserSockets \ {s} : C[x] = connection[x]
    BY <1>1, <1>5, <1>8, <1>10
  <1>13. /\ m.sock \in {s, NoSocket}
         /\ m.sock = s => c.tab = t /\ c.heard /\ c.st # "none"
         /\ m.status = "connected" => m.sock = s /\ c.st = "open"
         /\ c.heard => m.sock = s /\ c.tab = t
         /\ c.st \in {"connecting", "open"} => c.heard
    BY <1>6, <1>8, <1>9
  <1>14. SocketsFit(H, C, behavior)
    BY <1>0, <1>6, <1>8, <1>9, <1>11, <1>12, <1>13, EventFits
  <1>15. SocketsFit(hook', connection', behavior')
    BY <1>5, <1>10, <1>14
  <1>16. t \notin halted
    BY <1>1, <1>6 DEF HaltFits
  <1>17. HaltFits(halted', hook')
    BY <1>1, <1>5, <1>9, <1>10, <1>11, <1>16 DEF HaltFits
  <1>18. AwayFits(suspended', away', authentication', hook')
    BY <1>1, <1>3, <1>5, <1>6, <1>9, <1>10, <1>11 DEF AwayFits
  <1>19. RestFits(suspended', authentication', halted', away', hook')
    BY <1>1, <1>5, <1>6, <1>17, <1>18 DEF RestFits
  <1>20. \A x \in BrowserSockets : connection[x].st = "none" => connection'[x].st # "connecting"
    BY <1>8, <1>10, <1>12
  <1>21. \A u \in Terminals : hook'[u].mounted => hook[u].mounted
    BY <1>6, <1>10, <1>11
  <1> QED BY <1>15, <1>19, <1>20, <1>21, QuietSocketStep

LEMMA ClosedUnauthorizedIsSafe ==
    ASSUME SocketConstants, NoSocketLeaks, NEW s \in BrowserSockets, ClosedUnauthorized(s)
    PROVE  SocketStepIsSafe
  <1>0. /\ SocketsFit(hook, connection, behavior)
        /\ RestFits(suspended, authentication, halted, away, hook)
    BY LeaksToParts
  <1>1. /\ hook \in [Terminals -> Hooks] /\ connection \in [BrowserSockets -> Connections]
        /\ behavior \in {"automatic", "manual"}
        /\ GoodIds(suspended) /\ halted \subseteq Terminals /\ away \subseteq Terminals
        /\ authentication \in {"in", "lost", "out"}
        /\ HaltFits(halted, hook) /\ AwayFits(suspended, away, authentication, hook)
    BY <1>0 DEF SocketsFit, RestFits
  <1>2. PICK t, told : /\ t = connection[s].tab
                       /\ told = IF authentication = "in" THEN Mounted ELSE {}
    OBVIOUS
  <1>3. PICK h, d : h = hook[t] /\ d = Dropped(h)
    OBVIOUS
  <1>4. PICK p, c : p = Stopped(d) /\ c = Unused
    OBVIOUS
  <1>5. PICK m : m = [p EXCEPT !.authSuspended = TRUE]
    OBVIOUS
  <1>6. PICK H, T : H = [hook EXCEPT ![t] = m] /\ T = {t} \cup told
    OBVIOUS
  <1>7. /\ IsCurrent(s) /\ hook' = Suspend(H, T)
        /\ connection' = [connection EXCEPT ![s] = c]
        /\ halted' = halted \cup {t} /\ away' = away \cup {t} \cup told /\ behavior' = behavior
        /\ authentication' = IF authentication = "in" THEN "lost" ELSE authentication
    BY <1>2, <1>3, <1>4, <1>5, <1>6 DEF ClosedUnauthorized
  <1>8. PICK q \in Orders(told) : suspended' = RememberAll(suspended, <<t>> \o q)
    BY <1>2 DEF ClosedUnauthorized
  <1>9. /\ t \in Terminals /\ hook[t].sock = s /\ hook[t].mounted /\ s # NoSocket
        /\ ~hook[t].stopped /\ ~hook[t].timer /\ hook[t] \in Hooks
        /\ ~hook[t].manualSuspended /\ ~hook[t].authSuspended
    BY <1>0, <1>2, <1>7, HeardIsKnown
  <1>10. /\ d \in Hooks /\ d.sock = NoSocket /\ d.current = NoSocket /\ d.mounted
         /\ ~d.manualSuspended
    BY <1>3, <1>9, DroppedFits
  <1>11. /\ p \in Hooks /\ p.sock = d.sock /\ p.current = d.current
         /\ p.mounted = d.mounted /\ p.stopped /\ ~p.timer /\ p.status = "disconnected"
         /\ p.manualSuspended = d.manualSuspended
    BY <1>4, <1>10, StoppedFits
  <1>12. /\ m \in Hooks /\ m.sock = NoSocket /\ m.current = NoSocket /\ m.mounted
         /\ m.stopped /\ ~m.timer /\ m.status = "disconnected" /\ ~m.manualSuspended
    BY <1>5, <1>10, <1>11 DEF Hooks
  <1>13. HookFits(m, behavior)
    BY <1>12 DEF HookFits
  <1>14. c \in Connections /\ c.st = "none" /\ ~c.heard
    BY <1>4 DEF Connections, Unused
  <1>15. PICK C : C = connection'
    OBVIOUS
  <1>16. H \in [Terminals -> Hooks] /\ H[t] = m /\ \A u \in Terminals \ {t} : H[u] = hook[u]
    BY <1>1, <1>6, <1>9, <1>12
  <1>17. /\ C \in [BrowserSockets -> Connections] /\ C[s] = c
         /\ \A x \in BrowserSockets \ {s} : C[x] = connection[x]
    BY <1>1, <1>7, <1>14, <1>15
  <1>18. /\ m.sock \in {s, NoSocket}
         /\ m.sock = s => c.tab = t /\ c.heard /\ c.st # "none"
         /\ m.status = "connected" => m.sock = s /\ c.st = "open"
         /\ c.heard => m.sock = s /\ c.tab = t
         /\ c.st \in {"connecting", "open"} => c.heard
    BY <1>9, <1>12, <1>14
  <1>19. SocketsFit(H, C, behavior)
    BY <1>0, <1>9, <1>13, <1>14, <1>16, <1>17, <1>18, EventFits
  <1>20. /\ told \in SUBSET Terminals /\ \A u \in told : hook[u].mounted
         /\ authentication = "in" => \A u \in Terminals : hook[u].mounted => u \in told
    BY <1>2 DEF Mounted
  <1>21. T \in SUBSET Terminals /\ \A u \in T : H[u].mounted
    BY <1>6, <1>9, <1>12, <1>16, <1>20
  <1>22. PICK G : G = hook'
    OBVIOUS
  <1>23. G = Suspend(H, T)
    BY <1>7, <1>22
  <1>24. /\ SocketsFit(G, C, behavior)
         /\ \A u \in T : G[u].preserve
         /\ \A u \in Terminals \ T : G[u] = H[u]
         /\ \A u \in Terminals : /\ G[u].mounted = H[u].mounted /\ G[u].stopped = H[u].stopped
                                 /\ G[u].manualSuspended = H[u].manualSuspended
    BY <1>19, <1>21, <1>23, SuspendFits
  <1>25. SocketsFit(hook', connection', behavior')
    BY <1>7, <1>15, <1>22, <1>24
  <1>26. q \in Seq(Terminals) /\ \A x \in told : In(x, q)
    BY <1>20, OrdersAreComplete
  <1>27. PICK r : r = <<t>> \o q
    OBVIOUS
  <1>28. r \in Seq(Terminals) /\ In(t, r) /\ \A x \in told : In(x, r)
    <2>1. /\ r \in Seq(Terminals) /\ Len(r) = 1 + Len(q) /\ r[1] = t /\ Len(q) \in Nat
          /\ \A i \in 1 .. Len(q) : r[i + 1] = q[i]
      BY <1>9, <1>26, <1>27
    <2>2. DOMAIN r = 1 .. 1 + Len(q) /\ DOMAIN q = 1 .. Len(q)
      BY <1>26, <2>1
    <2>3. In(t, r)
      BY <2>1, <2>2 DEF In
    <2>4. ASSUME NEW x \in told PROVE In(x, r)
      <3>1. PICK i \in 1 .. Len(q) : q[i] = x
        BY <1>26, <2>2 DEF In
      <3>2. i + 1 \in DOMAIN r /\ r[i + 1] = x
        BY <2>1, <2>2, <3>1
      <3> QED BY <3>2 DEF In
    <2> QED BY <2>1, <2>3, <2>4
  <1>29. /\ GoodIds(suspended')
         /\ RoomForAll => \A x : In(x, suspended) \/ In(x, r) => In(x, suspended')
    <2>1. suspended' = RememberAll(suspended, r)
      BY <1>8, <1>27
    <2> QED BY <1>1, <1>28, <2>1, RemembersAll
  <1>30. HaltFits(halted', hook')
    BY <1>1, <1>7, <1>9, <1>12, <1>16, <1>22, <1>24 DEF HaltFits
  <1>31. AwayFits(suspended', away', authentication', hook')
    <2> SUFFICES ASSUME RoomForAll, NEW u \in away'
                 PROVE  /\ In(u, suspended')
                        /\ authentication' = "lost" /\ hook'[u].mounted => hook'[u].preserve
      BY DEF AwayFits
    <2>1. In(u, suspended')
      BY <1>1, <1>7, <1>28, <1>29 DEF AwayFits
    <2>2. ASSUME authentication' = "lost", hook'[u].mounted PROVE hook'[u].preserve
      <3>0. u \in Terminals
        BY <1>1, <1>7, <1>9, <1>20
      <3>1. CASE u \in T
        BY <1>22, <1>24, <3>1
      <3>2. CASE u \notin T
        <4>1. u # t /\ u \notin told /\ u \in away
          BY <1>6, <1>7, <3>2
        <4>2. hook'[u] = hook[u]
          BY <1>16, <1>22, <1>24, <3>0, <3>2, <4>1
        <4>3. authentication # "in"
          BY <1>20, <2>2, <3>0, <4>1, <4>2
        <4>4. authentication = "lost"
          BY <1>7, <2>2, <4>3
        <4> QED BY <1>1, <2>2, <4>1, <4>2, <4>4 DEF AwayFits
      <3> QED BY <3>1, <3>2
    <2> QED BY <2>1, <2>2
  <1>32. RestFits(suspended', authentication', halted', away', hook')
    <2>1. halted' \subseteq Terminals /\ away' \subseteq Terminals
      BY <1>1, <1>7, <1>9, <1>20
    <2>2. authentication' \in {"in", "lost", "out"}
      BY <1>1, <1>7
    <2> QED BY <1>29, <1>30, <1>31, <2>1, <2>2 DEF RestFits
  <1>33. \A x \in BrowserSockets : connection[x].st = "none" => connection'[x].st # "connecting"
    BY <1>14, <1>15, <1>17
  <1>34. \A u \in Terminals : hook'[u].mounted => hook[u].mounted
    BY <1>9, <1>16, <1>22, <1>24
  <1> QED BY <1>25, <1>32, <1>33, <1>34, QuietSocketStep

LEMMA SocketInitIsSafe ==
    ASSUME SocketConstants, SocketInit
    PROVE  NoSocketLeaks
  <1>1. /\ hook = [t \in Terminals |-> Unmounted] /\ connection = [s \in BrowserSockets |-> Unused]
        /\ suspended = <<>> /\ behavior \in {"automatic", "manual"}
        /\ authentication = "in" /\ halted = {} /\ away = {}
    BY DEF SocketInit
  <1>2. /\ Unmounted \in Hooks /\ HookFits(Unmounted, behavior) /\ Unmounted.sock = NoSocket
        /\ Unmounted.status # "connected"
    <2>1. Unmounted.sock = NoSocket /\ Unmounted.status # "connected"
      BY DEF Unmounted
    <2> QED BY <2>1, UnmountedFits
  <1>3. Unused \in Connections /\ Unused.st = "none" /\ ~Unused.heard
    BY DEF Connections, Unused
  <1>4. hook \in [Terminals -> Hooks] /\ connection \in [BrowserSockets -> Connections]
    BY <1>1, <1>2, <1>3
  <1>5. /\ \A t \in Terminals : hook[t] = Unmounted
        /\ \A s \in BrowserSockets : connection[s] = Unused
    BY <1>1
  <1>6. SocketsFit(hook, connection, behavior)
    BY <1>1, <1>2, <1>3, <1>4, <1>5 DEF SocketsFit, JoinFits
  <1>7. GoodIds(suspended)
    <2>1. suspended \in Seq(Terminals) /\ Len(suspended) = 0 /\ DOMAIN suspended = {}
      BY <1>1
    <2>2. Once(suspended)
      BY <2>1 DEF Once
    <2>3. Len(suspended) <= MaxIds
      BY <2>1 DEF SocketConstants, LimitsAssumption
    <2> QED BY <2>1, <2>2, <2>3 DEF GoodIds
  <1>8. RestFits(suspended, authentication, halted, away, hook)
    BY <1>1, <1>7 DEF RestFits, HaltFits, AwayFits
  <1> QED BY <1>6, <1>8, LeaksFromParts

LEMMA SocketStepsAreSafe ==
    ASSUME SocketConstants, NoSocketLeaks, SocketNext
    PROVE  SocketStepIsSafe
  <1>1. ASSUME NEW t \in Terminals, NEW s \in BrowserSockets \cup {NoSocket},
               Mount(t, s) \/ RestartClient(t, s) \/ Reconnect(t, s) \/ RetryTimer(t, s)
        PROVE  SocketStepIsSafe
    BY <1>1, MountIsSafe, RestartClientIsSafe, ReconnectIsSafe, RetryTimerIsSafe
  <1>2. ASSUME NEW t \in Terminals, Unmount(t) \/ Disconnect(t) PROVE SocketStepIsSafe
    BY <1>2, UnmountIsSafe, DisconnectIsSafe
  <1>3. ASSUME NEW f \in [Terminals -> Offers], SetAutomatic(f) PROVE SocketStepIsSafe
    BY <1>3, SetAutomaticIsSafe
  <1>4. ASSUME SetManual \/ AuthenticationLost \/ UnmountAll \/ SignIn PROVE SocketStepIsSafe
    BY <1>4, SetManualIsSafe, AuthenticationLostIsSafe, UnmountAllIsSafe, SignInIsSafe
  <1>5. ASSUME NEW s \in BrowserSockets, Opened(s) \/ Ready(s) \/ BadMessage(s)
        PROVE  SocketStepIsSafe
    BY <1>5, OpenedIsSafe, ReadyIsSafe, BadMessageIsSafe
  <1>6. ASSUME NEW s \in BrowserSockets, SocketEnds(s) PROVE SocketStepIsSafe
    <2>1. CASE ClosedUnheard(s)
      BY <2>1, ClosedUnheardIsSafe
    <2>2. CASE ClosedUnauthorized(s)
      BY <2>2, ClosedUnauthorizedIsSafe
    <2>3. ASSUME NEW code \in Codes, ClosedWith(s, code) PROVE SocketStepIsSafe
      BY <2>3, ClosedWithIsSafe
    <2> QED BY <1>6, <2>1, <2>2, <2>3 DEF SocketEnds
  <1> QED BY <1>1, <1>2, <1>3, <1>4, <1>5, <1>6 DEF SocketNext

\* useTerminalSocket.ts, for any number of terminals and sockets: every connection is the
\* one a mounted terminal knows, and a mounted terminal is connected, waits for a retry,
\* or says that the user must reconnect.
THEOREM SocketsNeverLeak ==
    ASSUME SocketConstants
    PROVE  SocketSpec => []NoSocketLeaks
  <1>1. SocketInit => NoSocketLeaks
    BY SocketInitIsSafe
  <1>2. NoSocketLeaks /\ [SocketNext]_socketVars => NoSocketLeaks'
    <2> SUFFICES ASSUME NoSocketLeaks, [SocketNext]_socketVars PROVE NoSocketLeaks'
      OBVIOUS
    <2>1. CASE SocketNext
      BY <2>1, SocketStepsAreSafe DEF SocketStepIsSafe
    <2>2. CASE UNCHANGED socketVars
      <3>1. /\ hook' = hook /\ connection' = connection /\ suspended' = suspended
            /\ behavior' = behavior /\ authentication' = authentication /\ halted' = halted
            /\ away' = away
        BY <2>2 DEF socketVars
      <3>2. /\ SocketsFit(hook, connection, behavior)
            /\ RestFits(suspended, authentication, halted, away, hook)
        BY LeaksToParts
      <3>3. /\ SocketsFit(hook', connection', behavior')
            /\ RestFits(suspended', authentication', halted', away', hook')
        BY <3>1, <3>2
      <3>4. SocketStepIsSafe
        BY <3>1, <3>3, QuietSocketStep
      <3> QED BY <3>4 DEF SocketStepIsSafe
    <2> QED BY <2>1, <2>2
  <1> QED BY <1>1, <1>2, PTL DEF SocketSpec

\* useTerminalSocket.ts, for any number of terminals and sockets: no timer, late event or
\* changed setting connects a terminal that was detached, taken over or stopped, and with
\* manual reconnecting one that was signed out waits for the user.
THEOREM HaltStaysObeyed ==
    ASSUME SocketConstants
    PROVE  SocketSpec => HaltIsObeyed
  <1>1. NoSocketLeaks /\ [SocketNext]_socketVars =>
            [HaltedStaysHalted /\ (RoomForAll => AwayStaysAway)]_socketVars
    BY SocketStepsAreSafe DEF SocketStepIsSafe
  <1>2. SocketSpec => []NoSocketLeaks
    BY SocketsNeverLeak
  <1> QED BY <1>1, <1>2, PTL DEF SocketSpec, HaltIsObeyed

-----------------------------------------------------------------------------
(***************************************************************************)
(* The administrator's view: busy sessions, polling and the snapshot.      *)
(*                                                                         *)
(* The argument: a hook has one request of its epoch, and an abort reaches *)
(* all others (RequestIsOwn), so the answers that count come one after the *)
(* other.  The server builds one snapshot at a time, and one that begins   *)
(* is not older than those that were built before (VersionsFit).  The      *)
(* count of a session is the number of its actions, by cardinality.        *)
(***************************************************************************)
ViewConstants == MaxChangesAssumption /\ TasksAssumption

LoadSet == [st : {"free", "sent", "building", "served"}, v : 0..MaxChanges,
            mine : BOOLEAN, joined : BOOLEAN]
TaskSet == [st : {"free", "queued", "calling", "applied", "waiting", "loading"},
            subject : Subjects \cup {Null}, v : 0..MaxChanges, mine : BOOLEAN,
            load : Loads \cup {Null}]

\* The numbers of the view
LEMMA ViewNumbers ==
    ASSUME ViewConstants, ViewTypeOK
    PROVE  /\ MaxChanges \in Nat /\ asked \in Nat /\ version \in Nat /\ snapshot \in Nat
           /\ asked <= MaxChanges /\ version <= MaxChanges /\ snapshot <= version
           /\ inFlight # Null => inFlight \in Nat /\ inFlight <= version
           /\ \A s \in Subjects : busy[s] \in Nat
           /\ load \in [Loads -> LoadSet] /\ task \in [Tasks -> TaskSet]
           /\ Null \notin Loads /\ Null \notin Subjects /\ Null \notin Nat
           /\ IsFiniteSet(Tasks) /\ request \in Loads \cup {Null}
           /\ \A l \in Loads : load[l].v \in Nat /\ load[l].v <= MaxChanges
           /\ \A t \in Tasks : task[t].v \in Nat /\ task[t].v <= MaxChanges
  <1>1. MaxChanges \in Nat
    BY DEF ViewConstants, MaxChangesAssumption
  <1>2. /\ asked \in Nat /\ version \in Nat /\ asked <= MaxChanges /\ version <= MaxChanges
    BY <1>1 DEF ViewTypeOK
  <1>3. /\ snapshot \in Nat /\ snapshot <= version
        /\ inFlight # Null => inFlight \in Nat /\ inFlight <= version
    BY <1>2 DEF ViewTypeOK
  <1>4. \A s \in Subjects : busy[s] \in Nat
    BY <1>1 DEF ViewTypeOK
  <1>5. load \in [Loads -> LoadSet] /\ task \in [Tasks -> TaskSet] /\ request \in Loads \cup {Null}
    BY DEF ViewTypeOK, LoadSet, TaskSet
  <1>6. Null \notin Loads /\ Null \notin Subjects /\ Null \notin Nat /\ IsFiniteSet(Tasks)
    BY DEF ViewConstants, TasksAssumption
  <1>7. ASSUME NEW l \in Loads PROVE load[l].v \in Nat /\ load[l].v <= MaxChanges
    <2>1. load[l] \in LoadSet
      BY <1>5
    <2> QED BY <1>1, <2>1 DEF LoadSet
  <1>8. ASSUME NEW t \in Tasks PROVE task[t].v \in Nat /\ task[t].v <= MaxChanges
    <2>1. task[t] \in TaskSet
      BY <1>5
    <2> QED BY <1>1, <2>1 DEF TaskSet
  <1> QED BY <1>1, <1>2, <1>3, <1>4, <1>5, <1>6, <1>7, <1>8

\* Fewer tasks are not counted more often.
LEMMA FewerTasks ==
    ASSUME ViewConstants, NEW A \in SUBSET Tasks, NEW B \in SUBSET A
    PROVE  /\ IsFiniteSet(A) /\ IsFiniteSet(B)
           /\ Cardinality(A) \in Nat /\ Cardinality(B) \in Nat
           /\ Cardinality(B) <= Cardinality(A)
           /\ Cardinality(A \ B) = Cardinality(A) - Cardinality(B)
  <1>1. IsFiniteSet(A) /\ IsFiniteSet(B)
    BY FS_Subset DEF ViewConstants, TasksAssumption
  <1>2. Cardinality(A) \in Nat /\ Cardinality(B) \in Nat /\ Cardinality(B) <= Cardinality(A)
    BY <1>1, FS_CardinalityType, FS_Subset
  <1>3. Cardinality(A \ B) = Cardinality(A) - Cardinality(A \cap B) /\ A \cap B = B
    BY <1>1, FS_Difference
  <1> QED BY <1>1, <1>2, <1>3

\* One task more
LEMMA OneTaskMore ==
    ASSUME ViewConstants, NEW A \in SUBSET Tasks, NEW t \in Tasks, t \notin A
    PROVE  Cardinality(A \cup {t}) = Cardinality(A) + 1 /\ Cardinality(A) \in Nat
  <1>1. IsFiniteSet(A)
    BY FS_Subset DEF ViewConstants, TasksAssumption
  <1> QED BY <1>1, FS_AddElement, FS_CardinalityType

\* What is owned, and what may still change the server, stays or becomes less.
LEMMA SameCounts ==
    ASSUME ViewConstants, ViewIInv,
           \A t \in Tasks : task'[t].mine = task[t].mine /\ task'[t].subject = task[t].subject,
           \A t \in Tasks : task'[t].st \in {"queued", "calling"} =>
               task[t].st \in {"queued", "calling"},
           UNCHANGED <<busy, asked, version>>
    PROVE  ChangesFit' /\ BusyIsCounted'
  <1>0. /\ asked \in Nat /\ version \in Nat
        /\ version + Cardinality(Outstanding) <= asked /\ \A s \in Subjects : busy[s] <= asked
        /\ \A s \in Subjects : busy[s] = Cardinality(OwnedOf(s))
    BY ViewNumbers DEF ViewIInv, ChangesFit, BusyIsCounted
  <1>1. Outstanding \in SUBSET Tasks /\ Outstanding' \in SUBSET Outstanding
    BY DEF Outstanding
  <1>2. Cardinality(Outstanding) \in Nat /\ Cardinality(Outstanding') \in Nat
        /\ Cardinality(Outstanding') <= Cardinality(Outstanding)
    BY <1>1, FewerTasks
  <1>3. version + Cardinality(Outstanding') <= asked
    BY <1>0, <1>2
  <1>4. ChangesFit'
    BY <1>0, <1>3 DEF ChangesFit
  <1>5. ASSUME NEW s \in Subjects PROVE OwnedOf(s)' = OwnedOf(s)
    BY DEF OwnedOf, Owned
  <1>6. BusyIsCounted'
    BY <1>0, <1>5 DEF BusyIsCounted
  <1> QED BY <1>4, <1>6

\* stopOwnership: nothing is left of the epoch but what was already sent.
LEMMA StopKeeps ==
    ASSUME ViewConstants, ViewIInv, NEW done, StopOwnership(done),
           UNCHANGED <<snapshot, version, asked, inFlight>>,
           open' \in BOOLEAN, visible' \in BOOLEAN, lost' \in BOOLEAN
    PROVE  ViewIInv'
  <1>0. /\ own' = FALSE /\ pollTimer' = FALSE /\ request' = Null
        /\ busy' = [s \in Subjects |-> 0]
    BY DEF StopOwnership
  <1>1. ASSUME NEW l \in Loads
        PROVE  /\ load'[l] \in LoadSet /\ load'[l].mine = FALSE
               /\ load'[l].st = "building" => load[l].st = "building"
               /\ load'[l].st = "served" => load[l].st = "served" /\ load'[l].v = load[l].v
    <2>0. load[l] \in LoadSet /\ MaxChanges \in Nat
      BY ViewNumbers DEF ViewIInv
    <2>1. load'[l] = IF l \in done THEN NoLoad ELSE [load[l] EXCEPT !.mine = FALSE]
      BY DEF StopOwnership
    <2>2. CASE l \in done
      BY <2>0, <2>1, <2>2 DEF NoLoad, LoadSet
    <2>3. CASE l \notin done
      BY <2>0, <2>1, <2>3 DEF LoadSet
    <2> QED BY <2>2, <2>3
  <1>2. ASSUME NEW t \in Tasks
        PROVE  /\ task'[t] \in TaskSet /\ task'[t].mine = FALSE
               /\ task'[t].st \in {"free", "calling", "applied"}
               /\ task'[t].st = "calling" => task[t].st = "calling"
               /\ task'[t].v = task[t].v \/ task'[t].v = 0
    <2>0. task[t] \in TaskSet /\ MaxChanges \in Nat
      BY ViewNumbers DEF ViewIInv
    <2>1. task'[t] = IF t \notin done /\ task[t].st \in {"calling", "applied"}
                     THEN [task[t] EXCEPT !.mine = FALSE] ELSE NoTask
      BY DEF StopOwnership
    <2>2. CASE t \notin done /\ task[t].st \in {"calling", "applied"}
      BY <2>0, <2>1, <2>2 DEF TaskSet
    <2>3. CASE ~(t \notin done /\ task[t].st \in {"calling", "applied"})
      <3>1. task'[t] = NoTask
        BY <2>1, <2>3
      <3> QED BY <2>0, <3>1 DEF NoTask, TaskSet
    <2> QED BY <2>2, <2>3
  <1>3. load' \in [Loads -> LoadSet] /\ task' \in [Tasks -> TaskSet]
    <2>1. load' = [l \in Loads |-> load'[l]] /\ task' = [t \in Tasks |-> task'[t]]
      BY DEF StopOwnership
    <2> QED BY <1>1, <1>2, <2>1
  <1>4. /\ asked \in Nat /\ version \in Nat /\ MaxChanges \in Nat
        /\ \A t \in Tasks : task[t].v \in Nat
    BY ViewNumbers DEF ViewIInv
  <1>5. ViewTypeOK'
    <2>1. busy' \in [Subjects -> 0..MaxChanges]
      BY <1>0, <1>4
    <2> QED BY <1>0, <1>3, <2>1 DEF ViewIInv, ViewTypeOK, LoadSet, TaskSet
  <1>6. RequestIsOwn'
    BY <1>0, <1>1, <1>2 DEF RequestIsOwn
  <1>7. VersionsFit'
    <2>1. ASSUME NEW t \in Tasks PROVE task'[t].v <= version'
      <3>1. task[t].v <= version /\ (task'[t].v = task[t].v \/ task'[t].v = 0)
        BY <1>2 DEF ViewIInv, VersionsFit
      <3> QED BY <1>4, <3>1
    <2>2. ASSUME NEW l \in Loads, load'[l].st = "served"
          PROVE  load'[l].v <= version' /\ (inFlight' # Null => load'[l].v <= inFlight')
      BY <1>1, <2>2 DEF ViewIInv, VersionsFit
    <2>3. ASSUME NEW l \in Loads, load'[l].st = "building" PROVE inFlight' # Null
      BY <1>1, <2>3 DEF ViewIInv, VersionsFit
    <2>4. inFlight' # Null => snapshot' <= inFlight'
      BY DEF ViewIInv, VersionsFit
    <2> QED BY <1>1, <1>2, <2>1, <2>2, <2>3, <2>4 DEF VersionsFit
  <1>8. ChangesFit'
    <2>1. Outstanding \in SUBSET Tasks /\ Outstanding' \in SUBSET Outstanding
      BY <1>2 DEF Outstanding
    <2>2. Cardinality(Outstanding) \in Nat /\ Cardinality(Outstanding') \in Nat
          /\ Cardinality(Outstanding') <= Cardinality(Outstanding)
      BY <2>1, FewerTasks
    <2>3. version + Cardinality(Outstanding) <= asked
      BY DEF ViewIInv, ChangesFit
    <2>4. version' + Cardinality(Outstanding') <= asked'
      BY <1>4, <2>2, <2>3
    <2> QED BY <1>0, <1>4, <2>4 DEF ChangesFit
  <1>9. BusyIsCounted'
    <2>1. ASSUME NEW s \in Subjects PROVE OwnedOf(s)' = {}
      BY <1>2 DEF OwnedOf, Owned
    <2>2. Cardinality({}) = 0
      BY FS_EmptySet
    <2> QED BY <1>0, <2>1, <2>2 DEF BusyIsCounted
  <1> QED BY <1>0, <1>5, <1>6, <1>7, <1>8, <1>9 DEF ViewIInv, PollingGoesOn

\* startRefresh: the request is the one of the epoch; at most one task waits for it.
LEMMA StartKeeps ==
    ASSUME ViewConstants, ViewIInv, NEW l \in Loads, StartRefresh(l), request = Null,
           own' = TRUE, open' = TRUE, visible' = TRUE, lost' \in BOOLEAN,
           task' \in [Tasks -> TaskSet],
           \A t \in Tasks : /\ task'[t].mine = task[t].mine /\ task'[t].subject = task[t].subject
                            /\ task'[t].v = task[t].v
                            /\ task'[t].st = task[t].st
                               \/ (task'[t].st = "loading" /\ task'[t].load = l),
           UNCHANGED <<busy, snapshot, version, asked, inFlight>>
    PROVE  ViewIInv'
  <1>0. /\ load[l] = NoLoad /\ pollTimer' = FALSE /\ request' = l
        /\ load' = [load EXCEPT ![l] = [NoLoad EXCEPT !.st = "sent", !.mine = TRUE]]
    BY DEF StartRefresh
  <1>1. /\ load \in [Loads -> LoadSet] /\ MaxChanges \in Nat /\ Null \notin Loads
        /\ request \in Loads \cup {Null}
    BY ViewNumbers DEF ViewIInv
  <1>2. load'[l].st = "sent" /\ load'[l].mine = TRUE /\ load'[l] \in LoadSet
    BY <1>0, <1>1 DEF NoLoad, LoadSet
  <1>3. /\ load' \in [Loads -> LoadSet]
        /\ \A m \in Loads : m # l => load'[m] = load[m]
    BY <1>0, <1>1, <1>2
  <1>4. \A m \in Loads : load[m].mine => FALSE
    BY <1>1 DEF ViewIInv, RequestIsOwn
  <1>5. \A t \in Tasks : task[t].st # "loading"
    BY DEF ViewIInv, RequestIsOwn
  <1>6. ViewTypeOK'
    BY <1>0, <1>3 DEF ViewIInv, ViewTypeOK, LoadSet, TaskSet
  <1>7. RequestIsOwn'
    <2>1. \A t \in Tasks : task'[t].st = "waiting" => task'[t].mine
      BY DEF ViewIInv, RequestIsOwn
    <2> QED BY <1>0, <1>1, <1>2, <1>3, <1>4, <1>5, <2>1 DEF RequestIsOwn
  <1>8. VersionsFit'
    <2>1. ASSUME NEW m \in Loads, load'[m].st = "building" PROVE inFlight' # Null
      BY <1>2, <1>3, <2>1 DEF ViewIInv, VersionsFit
    <2>2. ASSUME NEW m \in Loads, load'[m].st = "served"
          PROVE  load'[m].v <= version' /\ (inFlight' # Null => load'[m].v <= inFlight')
      BY <1>2, <1>3, <2>2 DEF ViewIInv, VersionsFit
    <2>3. ASSUME NEW m \in Loads, load'[m].mine, load'[m].st = "served" PROVE FALSE
      BY <1>2, <1>3, <1>4, <2>3
    <2>4. ASSUME NEW t \in Tasks PROVE task'[t].v <= version'
      BY DEF ViewIInv, VersionsFit
    <2>5. ASSUME NEW t \in Tasks, task'[t].st = "loading"
          PROVE  load'[task'[t].load].st = "sent"
      BY <1>2, <1>5, <2>5
    <2>6. inFlight' # Null => snapshot' <= inFlight'
      BY DEF ViewIInv, VersionsFit
    <2> QED BY <2>1, <2>2, <2>3, <2>4, <2>5, <2>6 DEF VersionsFit
  <1>9. ChangesFit' /\ BusyIsCounted'
    <2>1. \A t \in Tasks : task'[t].st \in {"queued", "calling"} =>
              task[t].st \in {"queued", "calling"}
      OBVIOUS
    <2> QED BY <2>1, SameCounts
  <1> QED BY <1>0, <1>1, <1>6, <1>7, <1>8, <1>9 DEF ViewIInv, PollingGoesOn

\* The server takes the request: it begins a snapshot, or joins the one in flight.
LEMMA ServeLoadKeeps ==
    ASSUME ViewConstants, ViewIInv, NEW l \in Loads, ServeLoad(l)
    PROVE  ViewIInv'
  <1>0. /\ load[l].st = "sent"
        /\ load' = [load EXCEPT ![l].st = "building", ![l].joined = (inFlight # Null)]
        /\ inFlight' = IF inFlight = Null THEN version ELSE inFlight
        /\ UNCHANGED <<open, visible, own, lost, pollTimer, request, task, busy, snapshot>>
        /\ UNCHANGED <<version, asked>>
    BY DEF ServeLoad, pageVars
  <1>1. /\ load \in [Loads -> LoadSet] /\ version \in Nat /\ snapshot \in Nat
        /\ snapshot <= version /\ Null \notin Nat /\ Null \notin Loads
        /\ inFlight # Null => inFlight \in Nat /\ inFlight <= version
        /\ \A m \in Loads : load[m].v \in Nat
        /\ task \in [Tasks -> TaskSet] /\ \A t \in Tasks : task[t].v \in Nat
    BY ViewNumbers DEF ViewIInv
  <1>2. /\ load'[l].st = "building" /\ load'[l].mine = load[l].mine /\ load'[l].v = load[l].v
        /\ load'[l].joined = (inFlight # Null) /\ load'[l] \in LoadSet
        /\ \A m \in Loads : m # l => load'[m] = load[m]
        /\ load' \in [Loads -> LoadSet]
    <2>1. load[l] \in LoadSet
      BY <1>1
    <2>2. load'[l] = [load[l] EXCEPT !.st = "building", !.joined = (inFlight # Null)]
      BY <1>0, <1>1
    <2>3. /\ load'[l].st = "building" /\ load'[l].mine = load[l].mine /\ load'[l].v = load[l].v
          /\ load'[l].joined = (inFlight # Null) /\ load'[l] \in LoadSet
      BY <2>1, <2>2 DEF LoadSet
    <2> QED BY <1>0, <1>1, <2>3
  <1>3. inFlight' \in Nat /\ inFlight' <= version /\ inFlight' # Null
    BY <1>0, <1>1
  <1>4. ViewTypeOK'
    BY <1>0, <1>1, <1>2, <1>3 DEF ViewIInv, ViewTypeOK, LoadSet, TaskSet
  <1>5. RequestIsOwn'
    <2>1. request # Null => load'[request].mine /\ load'[request].st # "free"
      BY <1>0, <1>2 DEF ViewIInv, RequestIsOwn, ViewTypeOK
    <2> QED BY <1>0, <1>2, <2>1 DEF ViewIInv, RequestIsOwn
  <1>6. VersionsFit'
    <2>1. ASSUME NEW m \in Loads, load'[m].st = "served"
          PROVE  /\ load'[m].v <= version' /\ load'[m].v <= inFlight'
                 /\ load'[m].mine => snapshot' <= load'[m].v
      <3>1. m # l /\ load'[m] = load[m]
        BY <1>2, <2>1
      <3>2. /\ load[m].v <= version /\ (inFlight # Null => load[m].v <= inFlight)
            /\ load[m].mine => snapshot <= load[m].v
        BY <2>1, <3>1 DEF ViewIInv, VersionsFit
      <3> QED BY <1>0, <3>1, <3>2
    <2>2. snapshot' <= inFlight'
      BY <1>0, <1>1 DEF ViewIInv, VersionsFit
    <2>3. ASSUME NEW t \in Tasks PROVE task'[t].v <= version'
      BY <1>0 DEF ViewIInv, VersionsFit
    <2>4. ASSUME NEW t \in Tasks, task'[t].st = "loading", ~load'[task'[t].load].joined
          PROVE  /\ load'[task'[t].load].st = "building" => task'[t].v <= inFlight'
                 /\ load'[task'[t].load].st = "served" => task'[t].v <= load'[task'[t].load].v
      <3>1. task'[t] = task[t] /\ task[t].load = request /\ request # Null /\ request \in Loads
        BY <1>0, <2>4 DEF ViewIInv, RequestIsOwn, ViewTypeOK
      <3>2. CASE request = l
        <4>1. inFlight = Null /\ inFlight' = version
          BY <1>0, <1>2, <2>4, <3>1, <3>2
        <4>2. task[t].v <= version
          BY DEF ViewIInv, VersionsFit
        <4> QED BY <1>2, <3>1, <3>2, <4>1, <4>2
      <3>3. CASE request # l
        <4>1. load'[request] = load[request]
          BY <1>2, <3>1, <3>3
        <4>2. /\ load[request].st = "building" => task[t].v <= inFlight /\ inFlight # Null
              /\ load[request].st = "served" => task[t].v <= load[request].v
          BY <2>4, <3>1, <4>1 DEF ViewIInv, VersionsFit
        <4> QED BY <1>0, <3>1, <4>1, <4>2
      <3> QED BY <3>2, <3>3
    <2> QED BY <1>3, <2>1, <2>2, <2>3, <2>4 DEF VersionsFit
  <1>7. ChangesFit' /\ BusyIsCounted'
    BY <1>0, SameCounts
  <1> QED BY <1>0, <1>4, <1>5, <1>6, <1>7 DEF ViewIInv, PollingGoesOn

\* A snapshot begins for another browser.
LEMMA AskedElsewhereKeeps ==
    ASSUME ViewConstants, ViewIInv, AskedElsewhere
    PROVE  ViewIInv'
  <1>0. /\ inFlight = Null /\ inFlight' = version
        /\ UNCHANGED <<open, visible, own, lost, pollTimer, request, load, task, busy, snapshot>>
        /\ UNCHANGED <<version, asked>>
    BY DEF AskedElsewhere, pageVars
  <1>1. /\ version \in Nat /\ snapshot \in Nat /\ snapshot <= version /\ Null \notin Nat
        /\ \A m \in Loads : load[m].v \in Nat
    BY ViewNumbers DEF ViewIInv
  <1>2. ViewTypeOK' /\ RequestIsOwn'
    BY <1>0, <1>1 DEF ViewIInv, ViewTypeOK, RequestIsOwn
  <1>3. VersionsFit'
    <2>1. \A m \in Loads : load[m].st # "building"
      BY <1>0 DEF ViewIInv, VersionsFit
    <2>2. ASSUME NEW t \in Tasks, task[t].st = "loading"
          PROVE  load[task[t].load].st # "building"
      BY <2>1, <2>2 DEF ViewIInv, RequestIsOwn, ViewTypeOK
    <2> QED BY <1>0, <1>1, <2>1, <2>2 DEF ViewIInv, VersionsFit
  <1>4. ChangesFit' /\ BusyIsCounted'
    BY <1>0, SameCounts
  <1> QED BY <1>0, <1>2, <1>3, <1>4 DEF ViewIInv, PollingGoesOn

\* The snapshot is ready for everybody who asked or joined.
LEMMA BuiltKeeps == ASSUME ViewConstants, ViewIInv, Built PROVE ViewIInv'
  <1>0. /\ inFlight # Null /\ inFlight' = Null
        /\ UNCHANGED <<open, visible, own, lost, pollTimer, request, task, busy, snapshot>>
        /\ UNCHANGED <<version, asked>>
    BY DEF Built, pageVars
  <1>9. PICK v \in inFlight..version :
           load' = [l \in Loads |-> IF load[l].st = "building"
                                   THEN [load[l] EXCEPT !.st = "served", !.v = v] ELSE load[l]]
    BY DEF Built
  <1>1. /\ load \in [Loads -> LoadSet] /\ version \in Nat /\ snapshot \in Nat
        /\ version <= MaxChanges /\ MaxChanges \in Nat /\ inFlight \in Nat
        /\ task \in [Tasks -> TaskSet] /\ \A t \in Tasks : task[t].v \in Nat
    BY <1>0, ViewNumbers DEF ViewIInv
  <1>2. v \in Nat /\ inFlight <= v /\ v <= version /\ v \in 0..MaxChanges
    BY <1>1
  <1>3. ASSUME NEW l \in Loads
        PROVE  /\ load'[l] \in LoadSet /\ load'[l].mine = load[l].mine
               /\ load'[l].joined = load[l].joined /\ load'[l].st # "building"
               /\ load[l].st # "building" => load'[l] = load[l]
               /\ load[l].st = "building" => load'[l].st = "served" /\ load'[l].v = v
               /\ load[l].st # "free" => load'[l].st # "free"
    <2>0. load[l] \in LoadSet
      BY <1>1
    <2>1. CASE load[l].st = "building"
      <3>1. load'[l] = [load[l] EXCEPT !.st = "served", !.v = v]
        BY <1>9, <2>1
      <3> QED BY <1>2, <2>0, <2>1, <3>1 DEF LoadSet
    <2>2. CASE load[l].st # "building"
      BY <1>9, <2>0, <2>2
    <2> QED BY <2>1, <2>2
  <1>4. load' \in [Loads -> LoadSet]
    <2>1. load' = [l \in Loads |-> load'[l]]
      BY <1>9
    <2> QED BY <1>3, <2>1
  <1>5. ViewTypeOK'
    BY <1>0, <1>4 DEF ViewIInv, ViewTypeOK, LoadSet, TaskSet
  <1>6. RequestIsOwn'
    <2>1. request # Null => load'[request].mine /\ load'[request].st # "free"
      BY <1>0, <1>3 DEF ViewIInv, RequestIsOwn, ViewTypeOK
    <2> QED BY <1>0, <1>3, <2>1 DEF ViewIInv, RequestIsOwn
  <1>7. VersionsFit'
    <2>1. ASSUME NEW m \in Loads, load'[m].st = "served"
          PROVE  load'[m].v <= version' /\ (load'[m].mine => snapshot' <= load'[m].v)
      <3>1. CASE load[m].st = "building"
        <4>1. load'[m].v = v /\ snapshot <= inFlight
          BY <1>0, <1>3, <3>1 DEF ViewIInv, VersionsFit
        <4>2. v <= version /\ snapshot <= v
          BY <1>1, <1>2, <4>1
        <4> QED BY <1>0, <4>1, <4>2
      <3>2. CASE load[m].st # "building"
        <4>1. load'[m] = load[m]
          BY <1>3, <3>2
        <4> QED BY <1>0, <2>1, <4>1 DEF ViewIInv, VersionsFit
      <3> QED BY <3>1, <3>2
    <2>2. ASSUME NEW t \in Tasks PROVE task'[t].v <= version'
      BY <1>0 DEF ViewIInv, VersionsFit
    <2>3. ASSUME NEW t \in Tasks, task'[t].st = "loading", ~load'[task'[t].load].joined,
                 load'[task'[t].load].st = "served"
          PROVE  task'[t].v <= load'[task'[t].load].v
      <3>1. task'[t] = task[t] /\ task[t].load = request /\ request \in Loads
        BY <1>0, <2>3 DEF ViewIInv, RequestIsOwn, ViewTypeOK
      <3>2. task[t].st = "loading" /\ ~load[request].joined
        BY <1>3, <2>3, <3>1
      <3>3. CASE load[request].st = "building"
        <4>1. load'[request].v = v /\ task[t].v \in Nat
          BY <1>1, <1>3, <3>1, <3>3
        <4>2. task[t].v <= inFlight
          BY <3>1, <3>2, <3>3 DEF ViewIInv, VersionsFit
        <4>3. task[t].v <= v
          BY <1>1, <1>2, <4>1, <4>2
        <4> QED BY <3>1, <4>1, <4>3
      <3>4. CASE load[request].st # "building"
        <4>1. load'[request] = load[request]
          BY <1>3, <3>1, <3>4
        <4>2. load[request].st = "served"
          BY <2>3, <3>1, <4>1
        <4>3. task[t].v <= load[request].v
          BY <3>1, <3>2, <4>2 DEF ViewIInv, VersionsFit
        <4> QED BY <3>1, <4>1, <4>3
      <3> QED BY <3>3, <3>4
    <2>4. ASSUME NEW t \in Tasks, task'[t].st = "loading"
          PROVE  load'[task'[t].load].st # "building"
      BY <1>0, <1>3, <2>4 DEF ViewIInv, RequestIsOwn, ViewTypeOK
    <2> QED BY <1>0, <1>3, <2>1, <2>2, <2>3, <2>4 DEF VersionsFit
  <1>8. ChangesFit' /\ BusyIsCounted'
    BY <1>0, SameCounts
  <1> QED BY <1>0, <1>5, <1>6, <1>7, <1>8 DEF ViewIInv, PollingGoesOn

\* Actions that end leave the counts they are in.
LEMMA SettleCounts ==
    ASSUME ViewConstants, ViewIInv, NEW K \in SUBSET Tasks, Settle(K), UNCHANGED <<version, asked>>
    PROVE  /\ task' \in [Tasks -> TaskSet] /\ busy' \in [Subjects -> 0..MaxChanges]
           /\ \A t \in Tasks : IF t \in K THEN task'[t] = NoTask ELSE task'[t] = task[t]
           /\ ChangesFit' /\ BusyIsCounted'
  <1>0. /\ task \in [Tasks -> TaskSet] /\ MaxChanges \in Nat /\ asked \in Nat /\ version \in Nat
        /\ asked <= MaxChanges /\ \A s \in Subjects : busy[s] \in Nat
    BY ViewNumbers DEF ViewIInv
  <1>1. \A t \in Tasks : IF t \in K THEN task'[t] = NoTask ELSE task'[t] = task[t]
    BY DEF Settle
  <1>2. NoTask \in TaskSet /\ NoTask.mine = FALSE /\ NoTask.st = "free"
    BY <1>0 DEF NoTask, TaskSet
  <1>3. task' \in [Tasks -> TaskSet]
    <2>1. task' = [t \in Tasks |-> task'[t]]
      BY DEF Settle
    <2>2. \A t \in Tasks : task'[t] \in TaskSet
      BY <1>0, <1>1, <1>2
    <2> QED BY <2>1, <2>2
  <1>4. ASSUME NEW s \in Subjects
        PROVE  /\ busy'[s] = Cardinality(OwnedOf(s)') /\ busy'[s] \in Nat
               /\ busy'[s] <= busy[s] /\ busy[s] <= asked
    <2> DEFINE G == {k \in Counted(K) : task[k].subject = s}
    <2>1. OwnedOf(s) \in SUBSET Tasks /\ G \in SUBSET OwnedOf(s)
      BY DEF OwnedOf, Counted
    <2>2. /\ Cardinality(OwnedOf(s)) \in Nat /\ Cardinality(G) \in Nat
          /\ Cardinality(G) <= Cardinality(OwnedOf(s))
          /\ Cardinality(OwnedOf(s) \ G) = Cardinality(OwnedOf(s)) - Cardinality(G)
      <3> HIDE DEF G
      <3> QED BY <2>1, FewerTasks
    <2>3. OwnedOf(s)' = OwnedOf(s) \ G
      <3>1. ASSUME NEW t \in Tasks PROVE t \in OwnedOf(s)' <=> t \in OwnedOf(s) /\ t \notin G
        BY <1>1, <1>2 DEF OwnedOf, Owned, Counted
      <3>2. OwnedOf(s)' \subseteq Tasks
        BY DEF OwnedOf
      <3> QED BY <2>1, <3>1, <3>2
    <2>4. busy[s] = Cardinality(OwnedOf(s)) /\ busy[s] <= asked
      BY DEF ViewIInv, BusyIsCounted, ChangesFit
    <2>5. busy'[s] = IF Cardinality(G) > busy[s] THEN 0 ELSE busy[s] - Cardinality(G)
      BY DEF Settle
    <2> HIDE DEF G
    <2> QED BY <2>2, <2>3, <2>4, <2>5
  <1>5. BusyIsCounted'
    BY <1>4 DEF BusyIsCounted
  <1>6. busy' \in [Subjects -> 0..MaxChanges]
    <2>1. busy' = [s \in Subjects |-> busy'[s]]
      BY DEF Settle
    <2>2. \A s \in Subjects : busy'[s] \in 0..MaxChanges
      BY <1>0, <1>4
    <2> QED BY <2>1, <2>2
  <1>7. ChangesFit'
    <2>1. Outstanding \in SUBSET Tasks /\ Outstanding' \in SUBSET Outstanding
      BY <1>1, <1>2 DEF Outstanding
    <2>2. Cardinality(Outstanding) \in Nat /\ Cardinality(Outstanding') \in Nat
          /\ Cardinality(Outstanding') <= Cardinality(Outstanding)
      BY <2>1, FewerTasks
    <2>3. version + Cardinality(Outstanding) <= asked
      BY DEF ViewIInv, ChangesFit
    <2>4. version' + Cardinality(Outstanding') <= asked'
      BY <1>0, <2>2, <2>3
    <2>5. \A s \in Subjects : busy'[s] <= asked'
      BY <1>0, <1>4
    <2> QED BY <2>4, <2>5 DEF ChangesFit
  <1> QED BY <1>1, <1>3, <1>5, <1>6, <1>7

\* What the answer of a request leaves of the others
LEMMA LoadAnswered ==
    ASSUME ViewConstants, ViewIInv, NEW l \in Loads, NEW ok \in BOOLEAN, LoadAnswer(l, ok)
    PROVE  /\ load' \in [Loads -> LoadSet] /\ load'[l] = NoLoad /\ load[l].st # "free"
           /\ \A m \in Loads : m # l => load'[m] = load[m]
           /\ NoLoad.mine = FALSE /\ NoLoad.st = "free"
           /\ snapshot' \in Nat /\ snapshot <= snapshot' /\ snapshot' <= version
           /\ inFlight # Null => snapshot' <= inFlight
           /\ load[l].mine => request = l
           /\ ~load[l].mine => snapshot' = snapshot
  <1>0. /\ load \in [Loads -> LoadSet] /\ MaxChanges \in Nat /\ version \in Nat
        /\ snapshot \in Nat /\ snapshot <= version
        /\ \A m \in Loads : load[m].v \in Nat
    BY ViewNumbers DEF ViewIInv
  <1>1. /\ load' = [load EXCEPT ![l] = NoLoad] /\ load[l].st # "free"
        /\ snapshot' = IF ok /\ Mine(l) THEN load[l].v ELSE snapshot
        /\ ok => load[l].st = "served"
    BY DEF LoadAnswer
  <1>2. NoLoad \in LoadSet /\ NoLoad.mine = FALSE /\ NoLoad.st = "free"
    BY <1>0 DEF NoLoad, LoadSet
  <1>3. /\ load' \in [Loads -> LoadSet] /\ load'[l] = NoLoad
        /\ \A m \in Loads : m # l => load'[m] = load[m]
    BY <1>0, <1>1, <1>2
  <1>4. load[l].mine => request = l
    BY DEF ViewIInv, RequestIsOwn
  <1>5. CASE ok /\ load[l].mine
    <2>1. snapshot' = load[l].v /\ load[l].st = "served"
      BY <1>1, <1>5 DEF Mine
    <2>2. /\ snapshot <= load[l].v /\ load[l].v <= version
          /\ inFlight # Null => load[l].v <= inFlight
      BY <1>5, <2>1 DEF ViewIInv, VersionsFit
    <2> QED BY <1>0, <1>1, <1>2, <1>3, <1>4, <1>5, <2>1, <2>2
  <1>6. CASE ~(ok /\ load[l].mine)
    <2>1. snapshot' = snapshot
      BY <1>1, <1>6 DEF Mine
    <2>2. inFlight # Null => snapshot <= inFlight
      BY DEF ViewIInv, VersionsFit
    <2> QED BY <1>0, <1>1, <1>2, <1>3, <1>4, <2>1, <2>2
  <1> QED BY <1>5, <1>6

\* The answer to the request of this epoch, or to one that was aborted
LEMMA LoadAnswerKeeps ==
    ASSUME ViewConstants, ViewIInv, NEW l \in Loads, NEW ok \in BOOLEAN, LoadAnswer(l, ok)
    PROVE  ViewIInv'
  <1>0. /\ load' \in [Loads -> LoadSet] /\ load'[l] = NoLoad
        /\ \A m \in Loads : m # l => load'[m] = load[m]
        /\ NoLoad.mine = FALSE /\ NoLoad.st = "free"
        /\ snapshot' \in Nat /\ snapshot <= snapshot' /\ snapshot' <= version
        /\ inFlight # Null => snapshot' <= inFlight
        /\ load[l].mine => request = l
        /\ ~load[l].mine => snapshot' = snapshot
    BY LoadAnswered
  <1>1. UNCHANGED <<open, visible, own, lost, version, asked, inFlight>>
    BY DEF LoadAnswer, pageVars, serverVars
  <1>2. /\ task \in [Tasks -> TaskSet] /\ version \in Nat /\ request \in Loads \cup {Null}
        /\ Null \notin Loads /\ MaxChanges \in Nat /\ \A t \in Tasks : task[t].v \in Nat
    BY ViewNumbers DEF ViewIInv
  <1>3. NoTask \in TaskSet /\ NoTask.mine = FALSE /\ NoTask.st = "free" /\ NoTask.v = 0
    BY <1>2 DEF NoTask, TaskSet
  <1>4. /\ task' \in [Tasks -> TaskSet] /\ busy' \in [Subjects -> 0..MaxChanges]
        /\ \A t \in Tasks : task'[t] = task[t] \/ task'[t] = NoTask
        /\ \A t \in Tasks : load[l].mine /\ task'[t].st = "loading" => FALSE
        /\ ChangesFit' /\ BusyIsCounted'
    <2>1. CASE load[l].mine
      <3>1. Settle(Waiters(l)) /\ Waiters(l) \in SUBSET Tasks
        BY <2>1 DEF LoadAnswer, Waiters
      <3>2. /\ task' \in [Tasks -> TaskSet] /\ busy' \in [Subjects -> 0..MaxChanges]
            /\ \A t \in Tasks : IF t \in Waiters(l) THEN task'[t] = NoTask ELSE task'[t] = task[t]
            /\ ChangesFit' /\ BusyIsCounted'
        BY <1>1, <3>1, SettleCounts
      <3>3. ASSUME NEW t \in Tasks, task'[t].st = "loading" PROVE FALSE
        <4>1. task'[t] = task[t] /\ t \notin Waiters(l)
          BY <1>3, <3>2, <3>3
        <4>2. task[t].load = request /\ request = l
          BY <1>0, <2>1, <3>3, <4>1 DEF ViewIInv, RequestIsOwn
        <4> QED BY <3>3, <4>1, <4>2 DEF Waiters
      <3> QED BY <3>2, <3>3
    <2>2. CASE ~load[l].mine
      <3>1. UNCHANGED <<pollTimer, request, task, busy>>
        BY <2>2 DEF LoadAnswer
      <3>2. ChangesFit' /\ BusyIsCounted'
        BY <1>1, <3>1, SameCounts
      <3> QED BY <1>2, <2>2, <3>1, <3>2 DEF ViewIInv, ViewTypeOK
    <2> QED BY <2>1, <2>2
  <1>5. /\ pollTimer' \in BOOLEAN /\ request' \in {request, Null}
        /\ load[l].mine => pollTimer' = TRUE /\ request' = Null
        /\ ~load[l].mine => pollTimer' = pollTimer /\ request' = request
    BY <1>0 DEF LoadAnswer, Schedule, ClearRequest, ViewIInv, ViewTypeOK
  <1>6. ViewTypeOK'
    <2>1. snapshot' \in 0..version
      BY <1>0, <1>2
    <2> QED BY <1>0, <1>1, <1>4, <1>5, <2>1 DEF ViewIInv, ViewTypeOK, LoadSet, TaskSet
  <1>7. RequestIsOwn'
    <2>1. CASE load[l].mine
      <3>1. \A m \in Loads : ~load'[m].mine
        BY <1>0, <2>1 DEF ViewIInv, RequestIsOwn
      <3>2. \A t \in Tasks : (task'[t].mine => own) /\ (task'[t].st = "waiting" => task'[t].mine)
        BY <1>3, <1>4 DEF ViewIInv, RequestIsOwn
      <3> QED BY <1>1, <1>4, <1>5, <2>1, <3>1, <3>2 DEF ViewIInv, RequestIsOwn
    <2>2. CASE ~load[l].mine
      <3>1. request' = request /\ task' = task
        BY <2>2 DEF LoadAnswer
      <3>2. request # Null => request \in Loads /\ request # l /\ load'[request] = load[request]
        BY <1>0, <1>2, <2>2 DEF ViewIInv, RequestIsOwn
      <3>3. \A m \in Loads : load'[m].mine => load[m].mine
        BY <1>0
      <3> QED BY <1>1, <3>1, <3>2, <3>3 DEF ViewIInv, RequestIsOwn
    <2> QED BY <2>1, <2>2
  <1>8. VersionsFit'
    <2>1. ASSUME NEW m \in Loads, load'[m].st # "free" PROVE m # l /\ load'[m] = load[m]
      BY <1>0, <2>1
    <2>2. ASSUME NEW m \in Loads, load'[m].st = "building" PROVE inFlight' # Null
      BY <1>1, <2>1, <2>2 DEF ViewIInv, VersionsFit
    <2>3. ASSUME NEW m \in Loads, load'[m].st = "served"
          PROVE  load'[m].v <= version' /\ (inFlight' # Null => load'[m].v <= inFlight')
      BY <1>1, <2>1, <2>3 DEF ViewIInv, VersionsFit
    <2>4. ASSUME NEW m \in Loads, load'[m].mine, load'[m].st = "served"
          PROVE  snapshot' <= load'[m].v
      <3>1. m # l /\ load'[m] = load[m] /\ request = m
        BY <2>1, <2>4 DEF ViewIInv, RequestIsOwn
      <3>2. snapshot' = snapshot
        BY <1>0, <3>1
      <3> QED BY <2>4, <3>1, <3>2 DEF ViewIInv, VersionsFit
    <2>5. ASSUME NEW t \in Tasks PROVE task'[t].v <= version'
      <3>1. task[t].v <= version /\ (task'[t].v = task[t].v \/ task'[t].v = 0)
        BY <1>3, <1>4 DEF ViewIInv, VersionsFit
      <3> QED BY <1>1, <1>2, <3>1
    <2>6. ASSUME NEW t \in Tasks, task'[t].st = "loading", ~load'[task'[t].load].joined
          PROVE  /\ load'[task'[t].load].st = "building" => task'[t].v <= inFlight'
                 /\ load'[task'[t].load].st = "served" => task'[t].v <= load'[task'[t].load].v
      <3>1. task'[t] = task[t] /\ ~load[l].mine
        BY <1>3, <1>4, <2>6
      <3>2. task[t].load = request /\ request # Null /\ request \in Loads /\ request # l
        BY <1>2, <2>6, <3>1 DEF ViewIInv, RequestIsOwn
      <3>3. load'[request] = load[request]
        BY <1>0, <3>2
      <3> QED BY <1>1, <2>6, <3>1, <3>2, <3>3 DEF ViewIInv, VersionsFit
    <2>7. inFlight' # Null => snapshot' <= inFlight'
      BY <1>0, <1>1
    <2> QED BY <2>2, <2>3, <2>4, <2>5, <2>6, <2>7 DEF VersionsFit
  <1>9. PollingGoesOn'
    BY <1>1, <1>5 DEF ViewIInv, PollingGoesOn
  <1> QED BY <1>4, <1>6, <1>7, <1>8, <1>9 DEF ViewIInv

\* A step that changes nothing but tasks, their counts and the server's state.
LEMMA TaskStepKeeps ==
    ASSUME ViewConstants, ViewIInv,
           UNCHANGED <<open, visible, own, lost, pollTimer, request, load, snapshot, inFlight>>,
           task' \in [Tasks -> TaskSet], busy' \in [Subjects -> 0..MaxChanges],
           asked' \in 0..MaxChanges, version' \in 0..MaxChanges, version <= version',
           \A t \in Tasks : task'[t].mine => own,
           \A t \in Tasks : task'[t].st = "waiting" => task'[t].mine,
           \A t \in Tasks : task'[t].v <= version',
           \A t \in Tasks : task'[t].st = "loading" => task'[t] = task[t],
           ChangesFit', BusyIsCounted'
    PROVE  ViewIInv'
  <1>0. /\ MaxChanges \in Nat /\ version \in Nat /\ version' \in Nat /\ snapshot \in Nat
        /\ snapshot <= version /\ Null \notin Nat
        /\ inFlight # Null => inFlight \in Nat /\ inFlight <= version
        /\ \A l \in Loads : load[l].v \in Nat
    BY ViewNumbers DEF ViewIInv
  <1>1. ViewTypeOK'
    <2>1. snapshot' \in 0..version' /\ inFlight' \in 0..version' \cup {Null}
      BY <1>0
    <2> QED BY <2>1 DEF ViewIInv, ViewTypeOK, LoadSet, TaskSet
  <1>2. RequestIsOwn'
    BY DEF ViewIInv, RequestIsOwn
  <1>3. VersionsFit'
    <2>1. ASSUME NEW l \in Loads, load[l].st = "served" PROVE load[l].v <= version'
      <3>1. load[l].v <= version
        BY <2>1 DEF ViewIInv, VersionsFit
      <3> QED BY <1>0, <3>1
    <2>2. ASSUME NEW t \in Tasks, task'[t].st = "loading", ~load[task'[t].load].joined
          PROVE  /\ load[task'[t].load].st = "building" => task'[t].v <= inFlight
                 /\ load[task'[t].load].st = "served" => task'[t].v <= load[task'[t].load].v
      BY <2>2 DEF ViewIInv, VersionsFit
    <2> QED BY <2>1, <2>2 DEF ViewIInv, VersionsFit
  <1> QED BY <1>1, <1>2, <1>3 DEF ViewIInv, PollingGoesOn

\* runSessionAction and runCleanup
LEMMA RunActionKeeps ==
    ASSUME ViewConstants, ViewIInv, NEW k \in Tasks, NEW s \in Subjects, RunAction(k, s)
    PROVE  ViewIInv'
  <1>0. /\ own /\ task[k] = NoTask /\ asked < MaxChanges /\ asked' = asked + 1
        /\ task' = [task EXCEPT ![k] = [NoTask EXCEPT !.st = "queued", !.subject = s, !.mine = TRUE]]
        /\ busy' = [busy EXCEPT ![s] = @ + 1]
        /\ UNCHANGED <<open, visible, own, lost, pollTimer, request, load, snapshot, inFlight>>
        /\ version' = version
    BY DEF RunAction, pageVars
  <1>1. /\ task \in [Tasks -> TaskSet] /\ MaxChanges \in Nat /\ asked \in Nat /\ version \in Nat
        /\ asked <= MaxChanges /\ version <= MaxChanges
        /\ \A u \in Subjects : busy[u] \in Nat
        /\ busy \in [Subjects -> 0..MaxChanges]
    BY ViewNumbers DEF ViewIInv, ViewTypeOK
  <1>2. /\ task'[k] \in TaskSet /\ task'[k].st = "queued" /\ task'[k].subject = s
        /\ task'[k].mine = TRUE /\ task'[k].v = 0
    BY <1>0, <1>1 DEF NoTask, TaskSet
  <1>3. /\ task' \in [Tasks -> TaskSet]
        /\ \A t \in Tasks : t # k => task'[t] = task[t]
    BY <1>0, <1>1, <1>2
  <1>4. task[k].st = "free" /\ task[k].mine = FALSE
    BY <1>0 DEF NoTask
  <1>5. /\ version + Cardinality(Outstanding) <= asked
        /\ \A u \in Subjects : busy[u] <= asked /\ busy[u] = Cardinality(OwnedOf(u))
    BY DEF ViewIInv, ChangesFit, BusyIsCounted
  <1>6. busy' \in [Subjects -> 0..MaxChanges]
        /\ busy'[s] = busy[s] + 1 /\ \A u \in Subjects : u # s => busy'[u] = busy[u]
    <2>1. busy[s] + 1 \in 0..MaxChanges
      BY <1>0, <1>1, <1>5
    <2> QED BY <1>0, <1>1, <2>1
  <1>7. ChangesFit'
    <2>1. Outstanding \in SUBSET Tasks /\ k \notin Outstanding
      BY <1>4 DEF Outstanding
    <2>2. Outstanding' = Outstanding \cup {k}
      BY <1>2, <1>3 DEF Outstanding
    <2>3. Cardinality(Outstanding \cup {k}) = Cardinality(Outstanding) + 1 /\ Cardinality(Outstanding) \in Nat
      BY <2>1, OneTaskMore
    <2>4. version' + Cardinality(Outstanding') <= asked'
      BY <1>0, <1>1, <1>5, <2>2, <2>3
    <2>5. \A u \in Subjects : busy'[u] <= asked'
      BY <1>0, <1>1, <1>5, <1>6
    <2> QED BY <2>4, <2>5 DEF ChangesFit
  <1>8. BusyIsCounted'
    <2>1. OwnedOf(s) \in SUBSET Tasks /\ k \notin OwnedOf(s)
      BY <1>4 DEF OwnedOf, Owned
    <2>2. OwnedOf(s)' = OwnedOf(s) \cup {k}
      BY <1>2, <1>3 DEF OwnedOf, Owned
    <2>3. Cardinality(OwnedOf(s) \cup {k}) = Cardinality(OwnedOf(s)) + 1
      BY <2>1, OneTaskMore
    <2>4. ASSUME NEW u \in Subjects, u # s PROVE OwnedOf(u)' = OwnedOf(u)
      BY <1>2, <1>3, <1>4, <2>4 DEF OwnedOf, Owned
    <2> QED BY <1>5, <1>6, <2>2, <2>3, <2>4 DEF BusyIsCounted
  <1>9. /\ \A t \in Tasks : task'[t].mine => own
        /\ \A t \in Tasks : task'[t].st = "waiting" => task'[t].mine
        /\ \A t \in Tasks : task'[t].st = "loading" => task'[t] = task[t]
        /\ \A t \in Tasks : task'[t].v <= version'
    <2>1. ASSUME NEW t \in Tasks, t # k
          PROVE  /\ task'[t].mine => own
                 /\ task'[t].st = "waiting" => task'[t].mine
                 /\ task'[t] = task[t] /\ task'[t].v <= version'
      BY <1>0, <1>3, <2>1 DEF ViewIInv, VersionsFit, RequestIsOwn
    <2>2. /\ task'[k].mine => own
          /\ task'[k].st # "waiting" /\ task'[k].st # "loading" /\ task'[k].v <= version'
      BY <1>0, <1>1, <1>2
    <2>3. ASSUME NEW t \in Tasks
          PROVE  /\ task'[t].mine => own
                 /\ task'[t].st = "waiting" => task'[t].mine
                 /\ task'[t].st = "loading" => task'[t] = task[t]
                 /\ task'[t].v <= version'
      <3>1. CASE t = k
        BY <2>2, <3>1
      <3>2. CASE t # k
        BY <2>1, <3>2
      <3> QED BY <3>1, <3>2
    <2> QED BY <2>3
  <1>10. asked' \in 0..MaxChanges /\ version' \in 0..MaxChanges /\ version <= version'
    BY <1>0, <1>1
  <1> QED BY <1>0, <1>3, <1>6, <1>7, <1>8, <1>9, <1>10, TaskStepKeeps

\* The request of an action is sent.
LEMMA CallKeeps ==
    ASSUME ViewConstants, ViewIInv, NEW k \in Tasks, Call(k)
    PROVE  ViewIInv'
  <1>0. /\ task[k].st = "queued" /\ task' = [task EXCEPT ![k].st = "calling"]
        /\ UNCHANGED <<open, visible, own, lost, pollTimer, request, load, snapshot, inFlight>>
        /\ UNCHANGED <<busy, asked, version>>
    BY DEF Call, pageVars, serverVars
  <1>1. /\ task \in [Tasks -> TaskSet] /\ version \in Nat /\ asked \in Nat
        /\ busy \in [Subjects -> 0..MaxChanges]
        /\ asked' \in 0..MaxChanges /\ version' \in 0..MaxChanges /\ version <= version'
    BY <1>0, ViewNumbers DEF ViewIInv, ViewTypeOK
  <1>2. /\ task'[k] \in TaskSet /\ task'[k].st = "calling" /\ task'[k].mine = task[k].mine
        /\ task'[k].subject = task[k].subject /\ task'[k].v = task[k].v
    <2>1. task[k] \in TaskSet /\ task'[k] = [task[k] EXCEPT !.st = "calling"]
      BY <1>0, <1>1
    <2> QED BY <2>1 DEF TaskSet
  <1>3. /\ task' \in [Tasks -> TaskSet]
        /\ \A t \in Tasks : t # k => task'[t] = task[t]
    BY <1>0, <1>1, <1>2
  <1>4. ChangesFit' /\ BusyIsCounted'
    <2>1. /\ \A t \in Tasks : task'[t].mine = task[t].mine /\ task'[t].subject = task[t].subject
          /\ \A t \in Tasks : task'[t].st \in {"queued", "calling"} =>
                 task[t].st \in {"queued", "calling"}
      BY <1>0, <1>2, <1>3
    <2> QED BY <1>0, <2>1, SameCounts
  <1>5. \A t \in Tasks : /\ task'[t].mine => own
                         /\ task'[t].st = "waiting" => task'[t].mine
                         /\ task'[t].v <= version'
                         /\ task'[t].st = "loading" => task'[t] = task[t]
    <2>1. \A t \in Tasks : /\ task[t].v <= version /\ (task[t].mine => own)
                           /\ task[t].st = "waiting" => task[t].mine
      BY DEF ViewIInv, VersionsFit, RequestIsOwn
    <2> QED BY <1>0, <1>2, <1>3, <2>1
  <1> QED BY <1>0, <1>1, <1>3, <1>4, <1>5, TaskStepKeeps

\* The server carries an action out.
LEMMA ServeTaskKeeps ==
    ASSUME ViewConstants, ViewIInv, NEW k \in Tasks, ServeTask(k)
    PROVE  ViewIInv'
  <1>0. /\ task[k].st = "calling" /\ version' = version + 1
        /\ task' = [task EXCEPT ![k].st = "applied", ![k].v = version + 1]
        /\ UNCHANGED <<open, visible, own, lost, pollTimer, request, load, snapshot, inFlight>>
        /\ UNCHANGED <<busy, asked>>
    BY DEF ServeTask, pageVars
  <1>1. /\ task \in [Tasks -> TaskSet] /\ version \in Nat /\ asked \in Nat /\ MaxChanges \in Nat
        /\ asked <= MaxChanges
        /\ busy \in [Subjects -> 0..MaxChanges] /\ \A t \in Tasks : task[t].v \in Nat
    BY ViewNumbers DEF ViewIInv, ViewTypeOK
  <1>2. Outstanding \in SUBSET Tasks /\ {k} \in SUBSET Outstanding
    BY <1>0 DEF Outstanding
  <1>3. /\ Cardinality(Outstanding) \in Nat /\ Cardinality({k}) = 1
        /\ Cardinality(Outstanding \ {k}) = Cardinality(Outstanding) - Cardinality({k})
        /\ Cardinality({k}) <= Cardinality(Outstanding)
    BY <1>2, FewerTasks, FS_Singleton
  <1>4. /\ version + Cardinality(Outstanding) <= asked
        /\ \A s \in Subjects : busy[s] <= asked /\ busy[s] = Cardinality(OwnedOf(s))
    BY DEF ViewIInv, ChangesFit, BusyIsCounted
  <1>5. version' \in 0..MaxChanges /\ version + 1 \in 0..MaxChanges /\ version <= version'
    BY <1>0, <1>1, <1>3, <1>4
  <1>6. /\ task'[k] \in TaskSet /\ task'[k].st = "applied" /\ task'[k].mine = task[k].mine
        /\ task'[k].subject = task[k].subject /\ task'[k].v = version + 1
    <2>1. task[k] \in TaskSet
          /\ task'[k] = [task[k] EXCEPT !.st = "applied", !.v = version + 1]
      BY <1>0, <1>1
    <2> QED BY <1>5, <2>1 DEF TaskSet
  <1>7. /\ task' \in [Tasks -> TaskSet]
        /\ \A t \in Tasks : t # k => task'[t] = task[t]
    BY <1>0, <1>1, <1>6
  <1>8. ChangesFit'
    <2>1. Outstanding' = Outstanding \ {k}
      BY <1>6, <1>7 DEF Outstanding
    <2>2. version' + Cardinality(Outstanding') <= asked'
      BY <1>0, <1>1, <1>3, <1>4, <2>1
    <2> QED BY <1>0, <1>4, <2>2 DEF ChangesFit
  <1>9. BusyIsCounted'
    <2>1. ASSUME NEW s \in Subjects PROVE OwnedOf(s)' = OwnedOf(s)
      BY <1>6, <1>7 DEF OwnedOf, Owned
    <2> QED BY <1>0, <1>4, <2>1 DEF BusyIsCounted
  <1>10. ASSUME NEW t \in Tasks
         PROVE  /\ task'[t].mine => own
                /\ task'[t].st = "waiting" => task'[t].mine
                /\ task'[t].v <= version'
                /\ task'[t].st = "loading" => task'[t] = task[t]
    <2>1. /\ task[t].v <= version /\ (task[t].mine => own) /\ task[t].v \in Nat
          /\ task[t].st = "waiting" => task[t].mine
      BY <1>1 DEF ViewIInv, VersionsFit, RequestIsOwn
    <2>2. CASE t = k
      BY <1>0, <1>1, <1>6, <2>1, <2>2
    <2>3. CASE t # k
      BY <1>0, <1>1, <1>7, <2>1, <2>3
    <2> QED BY <2>2, <2>3
  <1>11. asked' \in 0..MaxChanges /\ busy' \in [Subjects -> 0..MaxChanges]
    BY <1>0, <1>1
  <1> QED BY <1>0, <1>5, <1>7, <1>8, <1>9, <1>10, <1>11, TaskStepKeeps

\* The answer to an action: it waits for a snapshot, or just ends.
LEMMA TaskAnswerKeeps ==
    ASSUME ViewConstants, ViewIInv, NEW k \in Tasks, TaskAnswer(k)
    PROVE  ViewIInv'
  <1>0. /\ task[k].st \in {"calling", "applied"}
        /\ UNCHANGED <<open, visible, own, lost, pollTimer, request, load, snapshot, inFlight>>
        /\ UNCHANGED <<asked, version>>
    BY DEF TaskAnswer, pageVars, serverVars
  <1>1. /\ task \in [Tasks -> TaskSet] /\ version \in Nat /\ asked \in Nat /\ MaxChanges \in Nat
        /\ busy \in [Subjects -> 0..MaxChanges]
        /\ asked' \in 0..MaxChanges /\ version' \in 0..MaxChanges /\ version <= version'
    BY <1>0, ViewNumbers DEF ViewIInv, ViewTypeOK
  <1>2. \A t \in Tasks : /\ task[t].v <= version /\ (task[t].mine => own)
                         /\ task[t].st = "waiting" => task[t].mine
    BY DEF ViewIInv, VersionsFit, RequestIsOwn
  <1>3. CASE Owned(k)
    <2>1. task' = [task EXCEPT ![k].st = "waiting"] /\ busy' = busy
      BY <1>3 DEF TaskAnswer
    <2>2. /\ task'[k] \in TaskSet /\ task'[k].st = "waiting" /\ task'[k].mine = task[k].mine
          /\ task'[k].subject = task[k].subject /\ task'[k].v = task[k].v
      <3>1. task[k] \in TaskSet /\ task'[k] = [task[k] EXCEPT !.st = "waiting"]
        BY <1>1, <2>1
      <3> QED BY <3>1 DEF TaskSet
    <2>3. /\ task' \in [Tasks -> TaskSet]
          /\ \A t \in Tasks : t # k => task'[t] = task[t]
      BY <1>1, <2>1, <2>2
    <2>4. ChangesFit' /\ BusyIsCounted'
      <3>1. /\ \A t \in Tasks : task'[t].mine = task[t].mine /\ task'[t].subject = task[t].subject
            /\ \A t \in Tasks : task'[t].st \in {"queued", "calling"} =>
                   task[t].st \in {"queued", "calling"}
        BY <2>2, <2>3
      <3> QED BY <1>0, <2>1, <3>1, SameCounts
    <2>5. \A t \in Tasks : /\ task'[t].mine => own
                           /\ task'[t].st = "waiting" => task'[t].mine
                           /\ task'[t].v <= version'
                           /\ task'[t].st = "loading" => task'[t] = task[t]
      BY <1>0, <1>2, <1>3, <2>2, <2>3 DEF Owned
    <2> QED BY <1>0, <1>1, <2>1, <2>3, <2>4, <2>5, TaskStepKeeps
  <1>4. CASE ~Owned(k)
    <2>1. Settle({k}) /\ {k} \in SUBSET Tasks
      BY <1>4 DEF TaskAnswer
    <2>2. /\ task' \in [Tasks -> TaskSet] /\ busy' \in [Subjects -> 0..MaxChanges]
          /\ \A t \in Tasks : IF t \in {k} THEN task'[t] = NoTask ELSE task'[t] = task[t]
          /\ ChangesFit' /\ BusyIsCounted'
      BY <1>0, <2>1, SettleCounts
    <2>3. NoTask.mine = FALSE /\ NoTask.st = "free" /\ NoTask.v = 0
      BY DEF NoTask
    <2>4. \A t \in Tasks : /\ task'[t].mine => own
                           /\ task'[t].st = "waiting" => task'[t].mine
                           /\ task'[t].v <= version'
                           /\ task'[t].st = "loading" => task'[t] = task[t]
      BY <1>0, <1>1, <1>2, <2>2, <2>3
    <2> QED BY <1>0, <1>1, <2>2, <2>4, TaskStepKeeps
  <1> QED BY <1>3, <1>4

\* A snapshot is requested: by the view that is opened or shown, by the timer or the
\* user, or for the action that waits first.
LEMMA RequestKeeps ==
    ASSUME ViewConstants, ViewIInv, NEW l \in Loads,
           OpenView(l) \/ Show(l) \/ Refresh(l) \/ \E k \in Tasks : ForceRefresh(k, l)
    PROVE  ViewIInv'
  <1>0. /\ task \in [Tasks -> TaskSet] /\ own \in BOOLEAN /\ open \in BOOLEAN /\ visible \in BOOLEAN
        /\ lost \in BOOLEAN
    BY ViewNumbers DEF ViewIInv, ViewTypeOK
  <1>1. /\ own => open /\ visible
        /\ ~own => request = Null
    BY DEF ViewIInv, RequestIsOwn
  <1>2. CASE OpenView(l)
    <2>1. /\ StartRefresh(l) /\ own' = TRUE /\ open' = TRUE /\ visible' = visible /\ visible
          /\ lost' = FALSE /\ ~open /\ task' = task
          /\ UNCHANGED <<busy, snapshot, version, asked, inFlight>>
      BY <1>2 DEF OpenView, Own, serverVars
    <2>2. request = Null /\ visible' = TRUE /\ lost' \in BOOLEAN
      BY <1>0, <1>1, <2>1
    <2> QED BY <1>0, <2>1, <2>2, StartKeeps
  <1>3. CASE Show(l) /\ open /\ ~lost
    <2>1. /\ StartRefresh(l) /\ own' = TRUE /\ open' = open /\ visible' = TRUE /\ ~visible
          /\ lost' = lost /\ task' = task
          /\ UNCHANGED <<busy, snapshot, version, asked, inFlight>>
      BY <1>3 DEF Show, Own, serverVars
    <2>2. request = Null /\ open' = TRUE /\ lost' \in BOOLEAN
      BY <1>0, <1>1, <1>3, <2>1
    <2> QED BY <1>0, <2>1, <2>2, StartKeeps
  <1>4. CASE Show(l) /\ ~(open /\ ~lost)
    <2>1. /\ UNCHANGED <<open, own, lost, pollTimer, request, load, task, busy, snapshot, version>>
          /\ UNCHANGED <<asked, inFlight>> /\ visible' = TRUE /\ ~visible
      BY <1>4 DEF Show, serverVars
    <2>2. ViewTypeOK' /\ VersionsFit' /\ PollingGoesOn'
      BY <2>1 DEF ViewIInv, ViewTypeOK, VersionsFit, PollingGoesOn
    <2>3. RequestIsOwn'
      BY <2>1 DEF ViewIInv, RequestIsOwn
    <2>4. ChangesFit' /\ BusyIsCounted'
      BY <2>1, SameCounts
    <2> QED BY <2>2, <2>3, <2>4 DEF ViewIInv
  <1>5. CASE Refresh(l)
    <2>1. /\ StartRefresh(l) /\ own /\ request = Null
          /\ UNCHANGED <<open, visible, own, lost, task, busy, snapshot, version, asked, inFlight>>
      BY <1>5 DEF Refresh, pageVars, serverVars
    <2>2. own' = TRUE /\ open' = TRUE /\ visible' = TRUE /\ lost' \in BOOLEAN
      BY <1>0, <1>1, <2>1
    <2> QED BY <1>0, <2>1, <2>2, StartKeeps
  <1>6. ASSUME NEW k \in Tasks, ForceRefresh(k, l) PROVE ViewIInv'
    <2>1. /\ StartRefresh(l) /\ task[k].st = "waiting" /\ request = Null
          /\ task' = [task EXCEPT ![k].st = "loading", ![k].load = l]
          /\ UNCHANGED <<open, visible, own, lost, busy, snapshot, version, asked, inFlight>>
      BY <1>6 DEF ForceRefresh, pageVars, serverVars
    <2>2. /\ task'[k] \in TaskSet /\ task'[k].st = "loading" /\ task'[k].load = l
          /\ task'[k].mine = task[k].mine /\ task'[k].subject = task[k].subject
          /\ task'[k].v = task[k].v
      <3>1. task[k] \in TaskSet /\ task'[k] = [task[k] EXCEPT !.st = "loading", !.load = l]
        BY <1>0, <2>1
      <3> QED BY <3>1 DEF TaskSet
    <2>3. /\ task' \in [Tasks -> TaskSet]
          /\ \A t \in Tasks : t # k => task'[t] = task[t]
      BY <1>0, <2>1, <2>2
    <2>4. \A t \in Tasks : /\ task'[t].mine = task[t].mine /\ task'[t].subject = task[t].subject
                           /\ task'[t].v = task[t].v
                           /\ task'[t].st = task[t].st
                              \/ (task'[t].st = "loading" /\ task'[t].load = l)
      BY <2>2, <2>3
    <2>5. own' = TRUE /\ open' = TRUE /\ visible' = TRUE /\ lost' \in BOOLEAN
      <3>1. own
        BY <2>1 DEF ViewIInv, RequestIsOwn
      <3> QED BY <1>0, <1>1, <2>1, <3>1
    <2> QED BY <2>1, <2>3, <2>4, <2>5, StartKeeps
  <1> QED BY <1>2, <1>3, <1>4, <1>5, <1>6

\* The epoch ends: the view is closed or hidden, or an answer is 401.
LEMMA EpochEndKeeps ==
    ASSUME ViewConstants, ViewIInv,
           \/ CloseView \/ Hide
           \/ \E l \in Loads : LoadUnauthorized(l)
           \/ \E k \in Tasks : TaskUnauthorized(k)
    PROVE  ViewIInv'
  <1>0. open \in BOOLEAN /\ visible \in BOOLEAN /\ lost \in BOOLEAN
    BY DEF ViewIInv, ViewTypeOK
  <1>1. CASE CloseView
    <2>1. /\ StopOwnership({}) /\ open' = FALSE
          /\ UNCHANGED <<visible, lost, snapshot, version, asked, inFlight>>
      BY <1>1 DEF CloseView, serverVars
    <2> QED BY <1>0, <2>1, StopKeeps
  <1>2. CASE Hide
    <2>1. /\ StopOwnership({}) /\ visible' = FALSE
          /\ UNCHANGED <<open, lost, snapshot, version, asked, inFlight>>
      BY <1>2 DEF Hide, serverVars
    <2> QED BY <1>0, <2>1, StopKeeps
  <1>3. ASSUME NEW l \in Loads, LoadUnauthorized(l) PROVE ViewIInv'
    <2>1. /\ StopOwnership({l}) /\ lost' = TRUE
          /\ UNCHANGED <<open, visible, snapshot, version, asked, inFlight>>
      BY <1>3 DEF LoadUnauthorized, LoseAuthentication, pageVars, serverVars
    <2> QED BY <1>0, <2>1, StopKeeps
  <1>4. ASSUME NEW k \in Tasks, TaskUnauthorized(k) PROVE ViewIInv'
    <2>1. /\ StopOwnership({k}) /\ lost' = TRUE
          /\ UNCHANGED <<open, visible, snapshot, version, asked, inFlight>>
      BY <1>4 DEF TaskUnauthorized, LoseAuthentication, pageVars, serverVars
    <2> QED BY <1>0, <2>1, StopKeeps
  <1> QED BY <1>1, <1>2, <1>3, <1>4

\* Every step keeps the invariant.
LEMMA ViewStepKeeps == ASSUME ViewConstants, ViewIInv, [ViewNext]_viewVars PROVE ViewIInv'
  <1>1. CASE CloseView \/ Hide
    BY <1>1, EpochEndKeeps
  <1>2. CASE AskedElsewhere
    BY <1>2, AskedElsewhereKeeps
  <1>3. CASE Built
    BY <1>3, BuiltKeeps
  <1>4. ASSUME NEW l \in Loads, OpenView(l) \/ Show(l) \/ Refresh(l) PROVE ViewIInv'
    BY <1>4, RequestKeeps
  <1>5. ASSUME NEW l \in Loads, ServeLoad(l) PROVE ViewIInv'
    BY <1>5, ServeLoadKeeps
  <1>6. ASSUME NEW l \in Loads, Answered(l) PROVE ViewIInv'
    BY <1>6, LoadAnswerKeeps DEF Answered
  <1>7. ASSUME NEW l \in Loads, LoadUnauthorized(l) PROVE ViewIInv'
    BY <1>7, EpochEndKeeps
  <1>8. ASSUME NEW k \in Tasks, Call(k) \/ ServeTask(k) \/ TaskAnswer(k) \/ TaskUnauthorized(k)
        PROVE  ViewIInv'
    BY <1>8, CallKeeps, ServeTaskKeeps, TaskAnswerKeeps, EpochEndKeeps
  <1>9. ASSUME NEW k \in Tasks, NEW s \in Subjects, RunAction(k, s) PROVE ViewIInv'
    BY <1>9, RunActionKeeps
  <1>10. ASSUME NEW k \in Tasks, NEW l \in Loads, ForceRefresh(k, l) PROVE ViewIInv'
    BY <1>10, RequestKeeps
  <1>11. CASE UNCHANGED viewVars
    <2>1. UNCHANGED <<open, visible, own, lost, pollTimer, request, load, task, busy, snapshot,
                      version, asked, inFlight>>
      BY <1>11 DEF viewVars
    <2>2. ViewTypeOK' /\ VersionsFit' /\ PollingGoesOn' /\ RequestIsOwn'
      BY <2>1 DEF ViewIInv, ViewTypeOK, VersionsFit, PollingGoesOn, RequestIsOwn
    <2>3. ChangesFit' /\ BusyIsCounted'
      BY <2>1, SameCounts
    <2> QED BY <2>2, <2>3 DEF ViewIInv
  <1> QED
    BY <1>1, <1>2, <1>3, <1>4, <1>5, <1>6, <1>7, <1>8, <1>9, <1>10, <1>11 DEF ViewNext

\* The view begins closed, with nothing in flight.
LEMMA ViewBegins == ASSUME ViewConstants, ViewInit PROVE ViewIInv
  <1>0. MaxChanges \in Nat /\ Null \notin Nat /\ IsFiniteSet(Tasks)
    BY DEF ViewConstants, MaxChangesAssumption, TasksAssumption
  <1>1. /\ NoLoad \in LoadSet /\ NoLoad.mine = FALSE /\ NoLoad.st = "free"
        /\ NoTask \in TaskSet /\ NoTask.mine = FALSE /\ NoTask.st = "free" /\ NoTask.v = 0
    BY <1>0 DEF NoLoad, NoTask, LoadSet, TaskSet
  <1>2. /\ \A l \in Loads : load[l] = NoLoad
        /\ \A t \in Tasks : task[t] = NoTask
        /\ load \in [Loads -> LoadSet] /\ task \in [Tasks -> TaskSet]
    BY <1>1 DEF ViewInit
  <1>3. ViewTypeOK
    <2>1. busy \in [Subjects -> 0..MaxChanges]
      BY <1>0 DEF ViewInit
    <2>2. asked \in 0..MaxChanges /\ version \in 0..MaxChanges /\ snapshot \in 0..version
      BY <1>0 DEF ViewInit
    <2> QED BY <1>0, <1>2, <2>1, <2>2 DEF ViewInit, ViewTypeOK, LoadSet, TaskSet
  <1>4. RequestIsOwn /\ VersionsFit /\ PollingGoesOn
    BY <1>0, <1>1, <1>2 DEF ViewInit, RequestIsOwn, VersionsFit, PollingGoesOn
  <1>5. Cardinality({}) = 0
    BY FS_EmptySet
  <1>6. Outstanding = {}
    BY <1>1, <1>2 DEF Outstanding
  <1>7. \A s \in Subjects : OwnedOf(s) = {}
    BY <1>1, <1>2 DEF OwnedOf, Owned
  <1>8. ChangesFit /\ BusyIsCounted
    <2>1. asked = 0 /\ version = 0 /\ \A s \in Subjects : busy[s] = 0
      BY DEF ViewInit
    <2>2. ChangesFit
      BY <1>5, <1>6, <2>1 DEF ChangesFit
    <2>3. BusyIsCounted
      BY <1>5, <1>7, <2>1 DEF BusyIsCounted
    <2> QED BY <2>2, <2>3
  <1> QED BY <1>3, <1>4, <1>8 DEF ViewIInv

\* The snapshot that is shown changes only with the answer to a request.
LEMMA SnapshotChanges ==
    ASSUME ViewConstants, ViewIInv, [ViewNext]_viewVars
    PROVE  SnapshotGrows
  <1>1. CASE snapshot' = snapshot
    BY <1>1, ViewNumbers DEF ViewIInv, SnapshotGrows
  <1>2. ASSUME NEW l \in Loads, Answered(l) PROVE SnapshotGrows
    <2>1. PICK ok \in BOOLEAN : LoadAnswer(l, ok)
      BY <1>2 DEF Answered
    <2>2. snapshot' \in Nat /\ snapshot <= snapshot'
      BY <2>1, LoadAnswered
    <2>3. snapshot \in Nat
      BY ViewNumbers DEF ViewIInv
    <2> QED BY <2>2, <2>3 DEF SnapshotGrows
  <1>3. snapshot' = snapshot \/ \E l \in Loads : Answered(l)
    BY DEF ViewNext, viewVars, CloseView, Hide, AskedElsewhere, Built, OpenView, Show, Refresh,
           ServeLoad, LoadUnauthorized, Call, ServeTask, TaskAnswer, TaskUnauthorized, RunAction,
           ForceRefresh
  <1> QED BY <1>1, <1>2, <1>3

\* A snapshot that was begun for an action shows it.
LEMMA BuiltForItShowsIt ==
    ASSUME ViewConstants, ViewIInv
    PROVE  FreshUnlessJoined
  <1> SUFFICES ASSUME NEW k \in Tasks, NEW l \in Loads, EndsWith(k, l), ~load[l].joined
               PROVE  snapshot' >= task[k].v
    BY DEF FreshUnlessJoined
  <1>1. LoadAnswer(l, TRUE) /\ task[k].st = "loading" /\ task'[k] = NoTask /\ NoTask.st = "free"
    BY DEF EndsWith, NoTask
  <1>2. load[l].mine
    BY <1>1 DEF LoadAnswer
  <1>3. task[k].load = l
    BY <1>1, <1>2 DEF ViewIInv, RequestIsOwn
  <1>4. load[l].st = "served" /\ snapshot' = load[l].v
    BY <1>1, <1>2 DEF LoadAnswer, Mine
  <1>5. task[k].v <= load[l].v
    BY <1>1, <1>3, <1>4 DEF ViewIInv, VersionsFit
  <1>6. task[k].v \in Nat /\ load[l].v \in Nat
    BY ViewNumbers DEF ViewIInv
  <1> QED BY <1>4, <1>5, <1>6

\* useAdmin.ts: whatever order answers come in and however often the view is closed or
\* hidden meanwhile, a session is busy exactly while actions of this view are under way,
\* an open view has a timer or a request, and the snapshot that is shown never gets older
\* and shows the action it was begun for.
THEOREM ViewStaysKept == ASSUME ViewConstants PROVE ViewSpec => ViewIsKept
  <1>1. ViewInit => ViewIInv
    BY ViewBegins
  <1>2. ViewIInv /\ [ViewNext]_viewVars => ViewIInv'
    BY ViewStepKeeps
  <1>3. ViewIInv /\ [ViewNext]_viewVars => [SnapshotGrows /\ FreshUnlessJoined]_viewVars
    BY SnapshotChanges, BuiltForItShowsIt
  <1>4. ViewIInv => /\ ViewTypeOK /\ RequestIsOwn /\ VersionsFit /\ ChangesFit
                    /\ BusyIsCounted /\ PollingGoesOn
    BY DEF ViewIInv
  <1> QED BY <1>1, <1>2, <1>3, <1>4, PTL DEF ViewSpec, ViewIsKept

=============================================================================
