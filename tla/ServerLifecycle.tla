--------------------------- MODULE ServerLifecycle ---------------------------
(***************************************************************************)
(* Start and shutdown of the server (index.ts): createProductionRuntime    *)
(* with its rollback, the lifecycle, the signals, and the teardown that    *)
(* runs in phases against a deadline.                                      *)
(*                                                                         *)
(* The operations that the teardown calls belong to the other modules;     *)
(* here each may fail, and some hang: the cleaner and the bridges wait for *)
(* tmux commands, which have no timeout.  A step is the code between two   *)
(* awaits.                                                                 *)
(***************************************************************************)
EXTENDS Naturals, Sequences, SequencesExt

VARIABLES
    boot,       \* createProductionRuntime: a stage, "listening", "cleaning", "up", "failed"
    created,    \* resources that exist
    lifecycle,  \* state of createServerLifecycle
    listening,  \* the HTTP server is bound
    signals,    \* the signal handlers: none, registered, disposed
    teardown,   \* performBoundedTeardown
    called,     \* cleanup operations that were called
    op,         \* state of the asynchronous ones
    exitCode

vars == <<boot, created, lifecycle, listening, signals, teardown, called, op, exitCode>>

Stages == <<"config", "settings", "authentication", "tabs", "executables">>
Assembly == <<"services", "http", "websocket", "cleaner">>

Async == {"httpClose", "cleanerShutdown", "activityShutdown", "closeAll", "websocketClose"}
Sync == {"stopAccepting", "stopHeartbeat", "closeClients", "dispose"}

\* The resource an operation cleans up
Owner == [httpClose |-> "http", cleanerShutdown |-> "cleaner", activityShutdown |-> "services",
          closeAll |-> "services", dispose |-> "services", websocketClose |-> "websocket",
          stopAccepting |-> "websocket", stopHeartbeat |-> "websocket",
          closeClients |-> "websocket"]

\* The phases of the teardown
Phases == <<{"cleanerShutdown", "stopHeartbeat", "activityShutdown"}, {"closeClients", "closeAll"},
            {"websocketClose"}, {"dispose"}>>

Idle == [st |-> "none", next |-> 0, deadline |-> FALSE, errors |-> FALSE, runs |-> 0]

Init ==
    /\ boot = Stages[1] /\ created = {} /\ lifecycle = "none" /\ listening = FALSE
    /\ signals = "none" /\ teardown = Idle /\ called = {}
    /\ op = [o \in Async |-> "none"] /\ exitCode = 0

-----------------------------------------------------------------------------
(***************************************************************************)
(* performBoundedTeardown                                                  *)
(***************************************************************************)
Present(O) == {o \in O : Owner[o] \in created}

\* Calls of operations O are made, some of which throw.
Call(O, t) ==
    \E thrown \in SUBSET Present(O) :
        /\ called' = called \cup Present(O)
        /\ op' = [o \in Async |-> IF o \in Present(O) /\ o \in thrown THEN "failed"
                                  ELSE IF o \in Present(O) THEN "running" ELSE op[o]]
        /\ teardown' = [t EXCEPT !.errors = @ \/ thrown # {}]

\* The part before the first await: nothing new is accepted, the HTTP server
\* begins to close, the timer is set, and the first phase starts.
BeginTeardown ==
    Call({"stopAccepting", "httpClose"} \cup Phases[1],
         [Idle EXCEPT !.st = "running", !.next = 1, !.runs = teardown.runs + 1])

Settled(O) == \A o \in Present(O) \cap Async : op[o] \in {"done", "failed"}

\* Mutant: each phase starts without waiting for the one before it.
PhaseOverAlways == TRUE

PhaseOver == Settled(Phases[teardown.next])

\* The phase is over in time.
NextPhase ==
    /\ teardown.st = "running" /\ ~teardown.deadline /\ teardown.next < Len(Phases)
    /\ PhaseOver
    /\ Call(Phases[teardown.next + 1], [teardown EXCEPT !.next = @ + 1])
    /\ UNCHANGED <<boot, created, lifecycle, listening, signals, exitCode>>

\* An operation that the teardown started settles.  The close of an HTTP
\* server that does not listen fails.
Settle(o) ==
    /\ op[o] = "running"
    /\ \E result \in {"done", "failed"} :
          /\ o = "httpClose" /\ ~listening => result = "failed"
          /\ op' = [op EXCEPT ![o] = result]
          /\ teardown' = [teardown EXCEPT !.errors = @ \/ result = "failed"]
          /\ listening' = (listening /\ ~(o = "httpClose" /\ result = "done"))
    /\ UNCHANGED <<boot, created, lifecycle, signals, called, exitCode>>

\* The timer: the connections that are left are closed.
Deadline ==
    /\ teardown.st = "running" /\ ~teardown.deadline
    /\ teardown' = [teardown EXCEPT !.deadline = TRUE]
    /\ UNCHANGED <<boot, created, lifecycle, listening, signals, called, op, exitCode>>

\* Mutant: what the deadline cut off is not started any more.
RemainingNone == {}

\* The phases that have not begun
Remaining == UNION {Phases[i] : i \in (teardown.next + 1) .. Len(Phases)}

Failed(t) == t.errors \/ t.deadline

\* The shutdown promise settles: the lifecycle is stopped, the handler of a
\* signal sets the exit code, and a start that failed is over.
Over(t) ==
    /\ lifecycle' = IF lifecycle = "none" THEN "none" ELSE "stopped"
    /\ boot' = IF boot = "cleaning" THEN "failed" ELSE boot
    /\ exitCode' = IF boot = "cleaning" \/ (signals = "disposed" /\ Failed(t)) THEN 1 ELSE exitCode
    /\ UNCHANGED <<created, listening, signals>>

TimeIsUp == teardown.deadline

\* After the deadline everything left is started and nothing waited for.
EndLate ==
    /\ teardown.st = "running" /\ TimeIsUp
    /\ Call(Remaining, [teardown EXCEPT !.st = "over", !.next = Len(Phases)])
    /\ Over(teardown)

HttpIsClosed == Settled({"httpClose"})

EndInTime ==
    /\ teardown.st = "running" /\ ~teardown.deadline
    /\ teardown.next = Len(Phases) /\ PhaseOver /\ HttpIsClosed
    /\ teardown' = [teardown EXCEPT !.st = "over"]
    /\ Over(teardown)
    /\ UNCHANGED <<called, op>>

-----------------------------------------------------------------------------
(***************************************************************************)
(* The lifecycle and the start.                                            *)
(***************************************************************************)

\* shutdown: all callers share one promise.
FirstShutdown == teardown.runs = 0

Shutdown ==
    IF FirstShutdown THEN BeginTeardown ELSE UNCHANGED <<teardown, called, op>>

\* The file, the stores and the check of the executables, one await each
BootStage ==
    /\ boot \in Range(Stages)
    /\ \/ /\ boot # Last(Stages)
          /\ boot' = Stages[CHOOSE i \in 2 .. Len(Stages) : Stages[i - 1] = boot]
          /\ UNCHANGED exitCode
       \/ boot' = "failed" /\ exitCode' = 1
    /\ UNCHANGED <<created, lifecycle, listening, signals, teardown, called, op>>

\* The last stage: the services, the servers and the cleaner are made without
\* a pause.  If one throws, those made before it are rolled back.
Assemble ==
    /\ boot = Last(Stages)
    /\ \E n \in 0 .. Len(Assembly) :
          /\ created' = {Assembly[i] : i \in 1 .. n}
          /\ IF n = Len(Assembly)
             THEN /\ lifecycle' = "starting" /\ boot' = "listening"
                  /\ UNCHANGED exitCode
             ELSE /\ boot' = IF n = 0 THEN "failed" ELSE "rollback"
                  /\ exitCode' = IF n = 0 THEN 1 ELSE exitCode
                  /\ UNCHANGED lifecycle
    /\ UNCHANGED <<listening, signals, teardown, called, op>>

\* rollbackProductionResources
Rollback ==
    /\ boot = "rollback" /\ boot' = "cleaning"
    /\ BeginTeardown
    /\ UNCHANGED <<created, lifecycle, listening, signals, exitCode>>

\* The server listens, and the handlers of signals are registered, unless
\* that throws: then everything is shut down again.
Listening ==
    /\ boot = "listening"
    /\ listening' = TRUE
    /\ \/ /\ boot' = "up" /\ lifecycle' = "running" /\ signals' = "registered"
          /\ UNCHANGED <<teardown, called, op>>
       \/ /\ boot' = "cleaning" /\ lifecycle' = "stopping" /\ signals' = "disposed"
          /\ Shutdown
    /\ UNCHANGED <<created, exitCode>>

\* The address is taken: start shuts the lifecycle down and rejects.
ListenFails ==
    /\ boot = "listening" /\ boot' = "rejecting" /\ lifecycle' = "stopping"
    /\ Shutdown
    /\ UNCHANGED <<created, listening, signals, exitCode>>

\* start has rejected once that shutdown is over; createProductionRuntime
\* shuts down, too, and finds it done.
StartRejected ==
    /\ boot = "rejecting" /\ teardown.st = "over"
    /\ signals' = "disposed"
    /\ Shutdown
    /\ IF FirstShutdown THEN boot' = "cleaning" /\ UNCHANGED exitCode
       ELSE boot' = "failed" /\ exitCode' = 1
    /\ UNCHANGED <<created, lifecycle, listening>>

\* SIGTERM or SIGINT: the handlers are removed before the shutdown begins.
Signal ==
    /\ signals = "registered" /\ boot = "up"
    /\ signals' = "disposed" /\ lifecycle' = "stopping"
    /\ Shutdown
    /\ UNCHANGED <<boot, created, listening, exitCode>>

\* A signal without a handler ends the process at once.
Kill ==
    /\ signals = "disposed" /\ boot = "up" /\ teardown.st = "running"
    /\ boot' = "killed" /\ teardown' = [teardown EXCEPT !.st = "killed"]
    /\ op' = [o \in Async |-> IF op[o] = "running" THEN "none" ELSE op[o]]
    /\ listening' = FALSE
    /\ UNCHANGED <<created, lifecycle, signals, called, exitCode>>

BootStep == BootStage \/ Assemble \/ Rollback \/ Listening \/ ListenFails \/ StartRejected

TeardownStep == NextPhase \/ EndLate \/ EndInTime

Next ==
    \/ BootStep \/ TeardownStep \/ Deadline \/ Signal \/ Kill
    \/ \E o \in Async : Settle(o)

Spec == Init /\ [][Next]_vars

-----------------------------------------------------------------------------
TypeOK ==
    /\ boot \in Range(Stages) \cup {"listening", "rollback", "rejecting", "cleaning", "up",
                                    "failed", "killed"}
    /\ created \subseteq Range(Assembly)
    /\ lifecycle \in {"none", "starting", "running", "stopping", "stopped"}
    /\ listening \in BOOLEAN /\ signals \in {"none", "registered", "disposed"}
    /\ teardown \in [st : {"none", "running", "over", "killed"}, next : 0 .. Len(Phases),
                     deadline : BOOLEAN, errors : BOOLEAN, runs : 0 .. 1]
    /\ called \subseteq Async \cup Sync
    /\ op \in [Async -> {"none", "running", "done", "failed"}] /\ exitCode \in 0 .. 1

\* When a shutdown ends, or a start is reported to have failed, every resource
\* that was made has been told to go, although operations threw, hung, or were
\* cut off by the deadline.
EverythingIsReleased ==
    teardown.st = "over" \/ boot = "failed" => Present(Async \cup Sync) \subseteq called

\* A shutdown by signal ends with exit code 0 only if every operation was
\* waited for and succeeded.
FailureIsReported ==
    boot = "up" /\ teardown.st = "over" /\ exitCode = 0 =>
        \A o \in Async : op[o] = "done"

\* Clients are cut off, and bridges closed, only after the activity of the
\* tabs was saved and the cleaner has ended, or when time is up.
DurabilityFirst ==
    {"closeClients", "closeAll"} \cap (called' \ called) # {} =>
       teardown.deadline \/ \A o \in Present({"cleanerShutdown", "activityShutdown"}) :
                               op[o] \in {"done", "failed"}

=============================================================================
