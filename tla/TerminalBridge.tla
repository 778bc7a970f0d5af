--------------------------- MODULE TerminalBridge ---------------------------
(***************************************************************************)
(* The data path of one terminal (terminal-bridge.ts): output of the pty   *)
(* goes to the browser through the send buffer of its WebSocket, input and *)
(* resizes go the other way, and the first thing that goes wrong ends both *)
(* sides.  SessionManager models how bridges are created and replaced.     *)
(*                                                                         *)
(* Output is a sequence of numbered chunks with a size in units of the     *)
(* buffer.  Handlers are synchronous, so each is one step; that a call     *)
(* they make throws is a choice of the environment.                        *)
(***************************************************************************)
EXTENDS Naturals, Sequences, SequencesExt, FiniteSetsExt

CONSTANTS MaxBufferedBytes,  \* maxBufferedBytes, in units
          Sizes,             \* sizes of a message, in units
          Listeners,         \* number of subscriptions the constructor makes
          MaxChunks          \* bound: chunks of output, and of input

SizesAssumption == Sizes \subseteq Nat \ {0} /\ MaxBufferedBytes \in Nat \ {0}
ChunksAssumption == MaxChunks \in Nat /\ Listeners \in Nat \ {0}

VARIABLES
    bridge,     \* not constructed yet, open, or closed
    listening,  \* disposables that were not disposed
    pty,        \* the process
    websocket,  \* readyState of the WebSocket
    produced,   \* chunks the pty has written so far
    buffer,     \* messages the WebSocket has not sent yet
    delivered,  \* history: messages the browser has received
    authority,  \* the session of the browser is authenticated
    written     \* history: chunks of input the pty has received

vars == <<bridge, listening, pty, websocket, produced, buffer, delivered, authority, written>>
streamVars == <<produced, buffer, delivered>>

ServerMessage(type, chunk, size) == [type |-> type, chunk |-> chunk, size |-> size]
Bytes(messages) ==
    LET upTo[n \in 0..Len(messages)] == IF n = 0 THEN 0 ELSE messages[n].size + upTo[n - 1]
    IN upTo[Len(messages)]
Sent == delivered \o buffer

Init ==
    /\ bridge = "new" /\ listening = 0 /\ pty = "running" /\ websocket = "open"
    /\ produced = 0 /\ buffer = <<>> /\ delivered = <<>> /\ authority = TRUE /\ written = 0

-----------------------------------------------------------------------------
(***************************************************************************)
(* shutdown: every listener is disposed, the pty killed and the socket     *)
(* closed, or terminated when close throws; each of them may throw.        *)
(***************************************************************************)
\* A subscription whose dispose throws may stay.
Dispose(n) == listening' \in 0..n

\* close sends what is buffered first; terminate drops it.
CloseSocket ==
    IF websocket = "open"
    THEN \/ websocket' = "closing" /\ UNCHANGED buffer
         \/ websocket' = "closed" /\ buffer' = <<>>
    ELSE UNCHANGED <<websocket, buffer>>

Kill == pty' = IF pty = "running" THEN "killed" ELSE pty

BridgeShutdown(n) == bridge' = "closed" /\ Dispose(n) /\ Kill /\ CloseSocket

\* The constructor subscribes to both sides, or fails on the way.
Construct(n) ==
    /\ bridge = "new" /\ n \in 0..Listeners
    /\ IF n = Listeners
       THEN bridge' = "open" /\ listening' = n /\ UNCHANGED <<pty, websocket, buffer>>
       ELSE BridgeShutdown(n)
    /\ UNCHANGED <<produced, delivered, authority, written>>

\* close, by the registry or the session manager
Close ==
    /\ bridge = "open" /\ BridgeShutdown(listening)
    /\ UNCHANGED <<produced, delivered, authority, written>>

-----------------------------------------------------------------------------
(***************************************************************************)
(* Output.                                                                 *)
(***************************************************************************)
\* The message does not fit below the limit.
Overflows(m) == Bytes(Append(buffer, m)) >= MaxBufferedBytes

\* A browser that does not keep up is disconnected, and so is one that the
\* message cannot be sent to.
SendOutput(m) ==
    IF Overflows(m) THEN BridgeShutdown(listening)
    ELSE \/ buffer' = Append(buffer, m) /\ UNCHANGED <<bridge, listening, pty, websocket>>
         \/ BridgeShutdown(listening)

\* Mutant: handlers rely on their listeners being disposed.
IgnoresNothing == FALSE

\* closed, at the top of every handler
Ignores == bridge = "closed"

\* handleOutput; what a killed pty had written may still be read.
HandleOutput(size) ==
    /\ listening > 0 /\ pty # "exited" /\ produced < MaxChunks
    /\ produced' = produced + 1
    /\ IF Ignores \/ websocket # "open" THEN UNCHANGED <<bridge, listening, pty, websocket, buffer>>
       ELSE SendOutput(ServerMessage("output", produced + 1, size))
    /\ UNCHANGED <<delivered, authority, written>>

\* sendLifecycleError: when it fits, and send does not throw
Told(size) ==
    LET m == ServerMessage("error", 0, size)
    IN \/ /\ websocket = "open" /\ ~Overflows(m)
          /\ buffer' = Append(buffer, m) /\ websocket' = "closing"
       \/ CloseSocket

\* onExit
HandleExit(size) ==
    /\ listening > 0 /\ pty # "exited" /\ pty' = "exited"
    /\ IF Ignores THEN UNCHANGED <<bridge, listening, websocket, buffer>>
       ELSE bridge' = "closed" /\ Dispose(listening) /\ Told(size)
    /\ UNCHANGED <<produced, delivered, authority, written>>

\* The network takes a message.
Receive ==
    /\ buffer # <<>> /\ websocket # "closed"
    /\ buffer' = Tail(buffer) /\ delivered' = Append(delivered, Head(buffer))
    /\ UNCHANGED <<bridge, listening, pty, websocket, produced, authority, written>>

-----------------------------------------------------------------------------
(***************************************************************************)
(* Input, and the end of the socket.                                       *)
(***************************************************************************)
\* handleMessage: a malformed message, input without authority and a pty that
\* cannot be written to or resized end the terminal.  Messages still arrive
\* while the socket closes.
HandleMessage(type) ==
    /\ listening > 0 /\ websocket # "closed" /\ written < MaxChunks
    /\ \/ /\ Ignores \/ type = "resize"
          /\ UNCHANGED <<bridge, listening, pty, websocket, buffer, written>>
       \/ /\ ~Ignores /\ type = "input" /\ authority
          /\ written' = written + 1 /\ UNCHANGED <<bridge, listening, pty, websocket, buffer>>
       \/ ~Ignores /\ BridgeShutdown(listening) /\ UNCHANGED written
    /\ UNCHANGED <<produced, delivered, authority>>

\* The session of the browser ends.
AuthorityRevoked ==
    /\ authority /\ authority' = FALSE
    /\ UNCHANGED <<bridge, listening, pty, websocket, streamVars, written>>

\* onClose and onError: the socket is gone, what it has not sent is lost.
HandleClose ==
    /\ bridge # "new" /\ websocket # "closed" /\ websocket' = "closed" /\ buffer' = <<>>
    /\ IF listening = 0 \/ Ignores THEN UNCHANGED <<bridge, listening, pty>>
       ELSE bridge' = "closed" /\ Dispose(listening) /\ Kill
    /\ UNCHANGED <<produced, delivered, authority, written>>

-----------------------------------------------------------------------------
Next ==
    \/ Close \/ Receive \/ AuthorityRevoked \/ HandleClose
    \/ \E n \in 0..Listeners : Construct(n)
    \/ \E size \in Sizes : HandleOutput(size) \/ HandleExit(size)
    \/ \E type \in {"input", "resize", "malformed"} : HandleMessage(type)

Spec == Init /\ [][Next]_vars

-----------------------------------------------------------------------------
(***************************************************************************)
(* Properties.                                                             *)
(***************************************************************************)
ServerMessages == [type : {"output", "error"}, chunk : 0..MaxChunks, size : Sizes]

\* Type correctness; an open bridge has all its listeners, one that is not
\* constructed none.
TypeOK ==
    /\ bridge \in {"new", "open", "closed"} /\ listening \in 0..Listeners
    /\ pty \in {"running", "exited", "killed"} /\ websocket \in {"open", "closing", "closed"}
    /\ produced \in 0..MaxChunks /\ written \in 0..MaxChunks /\ authority \in BOOLEAN
    /\ buffer \in Seq(ServerMessages) /\ delivered \in Seq(ServerMessages)
    /\ bridge = "open" => listening = Listeners
    /\ bridge = "new" => listening = 0

\* The send buffer of a slow browser stays below the limit, the message about
\* the end of the terminal included.
BufferIsBounded == Bytes(buffer) < MaxBufferedBytes

\* What a browser sees is the output from its beginning, without a gap or a
\* repetition, and an error message is the last: output is never skipped, the
\* terminal ends instead.
OutputHasNoGap ==
    \A n \in 1..Len(Sent) :
        IF Sent[n].type = "output" THEN Sent[n].chunk = n ELSE n = Len(Sent)

\* As long as the bridge lives the socket is open and has been sent all output.
EverythingIsSent ==
    bridge # "closed" =>
        /\ websocket = "open" /\ Len(Sent) = produced
        /\ \A n \in 1..Len(Sent) : Sent[n].type = "output"

\* Neither side outlives the bridge, however it ended and whatever threw on
\* the way.
EndsTogether == bridge = "closed" => pty # "running" /\ websocket # "open"

\* The inductive invariant of the bridge.
IInv == TypeOK /\ EverythingIsSent /\ OutputHasNoGap /\ EndsTogether

\* Nothing is sent or written once the bridge is closed, even when a listener
\* could not be disposed.
ClosedIsSilent ==
    bridge = "closed" => written' = written /\ IsPrefix(delivered' \o buffer', Sent)

\* The terminal that a browser shows is the one of the pty: all of its output,
\* in order and until one of the two ends, and nothing of it once the bridge is
\* closed; a browser that does not keep up ends it before the buffer is at its limit.
TerminalIsFaithful == []IInv /\ []BufferIsBounded /\ [][ClosedIsSilent]_vars

=============================================================================
