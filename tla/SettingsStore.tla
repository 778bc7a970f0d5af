---------------------------- MODULE SettingsStore ----------------------------
(***************************************************************************)
(* The settings store (settings-store.ts) and its route, on top of the     *)
(* secure file: the start that creates or migrates settings.json, queued   *)
(* replacements, retries of the directory sync, and crashes in between.    *)
(*                                                                         *)
(* A value is a settings object that the parser accepts.  A caller is a    *)
(* PUT request; retryDurability has callers of its own.                    *)
(***************************************************************************)
EXTENDS SecureJsonFile

CONSTANTS Settings,     \* settings the parser accepts
          Defaults,     \* those a first start writes
          Legacy,       \* contents of an earlier release, without a palette
          Invalid,      \* contents the parser refuses
          Migrated,     \* the settings a legacy object is parsed to
          Retries       \* calls of retryDurability

SettingsAssumption ==
    /\ Defaults \in Settings /\ Migrated \in Settings
    /\ Legacy \notin Settings /\ Invalid \notin Settings \cup {Legacy}
    /\ None \notin Settings \cup {Legacy, Invalid} /\ Torn \notin Settings \cup {Legacy, Invalid}
CallsAssumption == None \notin Calls /\ Calls \cap Retries = {}

VARIABLES
    phase,      \* the process: down, starting or up
    current,    \* settings in memory
    ready,      \* durabilityReady
    queue,      \* operationTail
    wanted,     \* the settings a call wants
    status,     \* what a caller was told
    listener    \* settings a subscriber was last told

storeVars == <<phase, current, ready, queue, wanted, status, listener>>
vars == <<fileVars, storeVars>>

Init ==
    /\ \E initial \in Settings \cup {None, Legacy, Invalid} : FileInit(initial)
    /\ phase = "down" /\ current = None /\ ready = FALSE /\ queue = <<>>
    /\ wanted = [c \in Calls |-> None] /\ status = [c \in Calls \cup Retries |-> "unused"]
    /\ listener = None

-----------------------------------------------------------------------------
(***************************************************************************)
(* initialize                                                              *)
(***************************************************************************)
Start ==
    /\ phase = "down" /\ phase' = "starting"
    /\ Begin("read", None, None)
    /\ UNCHANGED <<versions, hostile, temp, litter, current, ready, queue, wanted, status, listener>>

\* The store has its settings; whoever subscribes reads the snapshot first.
Opened(settings, durable) ==
    /\ phase' = "up" /\ current' = settings /\ ready' = durable /\ listener' = settings
    /\ file' = IdleFile

DurableResult(result) == result = "committed"

Committed == file.result \in {"committed", "committed_durability_uncertain"}

\* The file was read: its settings are taken over, an earlier release's are
\* rewritten, and a missing file is created.
Loaded ==
    /\ phase = "starting" /\ At("done") /\ file.result = "read"
    /\ \/ Newest.doc \in Settings /\ Opened(Newest.doc, TRUE)
       \/ /\ Newest.doc = Legacy /\ Begin("replace", Migrated, None)
          /\ UNCHANGED <<phase, current, ready, listener>>
       \/ /\ Newest.doc = None /\ Begin("replace", Defaults, None)
          /\ UNCHANGED <<phase, current, ready, listener>>
    /\ UNCHANGED <<versions, hostile, temp, litter, queue, wanted, status>>

\* The file that the start writes is there.
Created ==
    /\ phase = "starting" /\ At("done") /\ Committed
    /\ Opened(file.value, DurableResult(file.result))
    /\ UNCHANGED <<versions, hostile, temp, litter, queue, wanted, status>>

\* Anything else stops the start.
StartFails ==
    /\ phase = "starting" /\ At("done")
    /\ \/ file.result \in {"threw", "not_committed"}
       \/ file.result = "read" /\ Newest.doc = Invalid
    /\ phase' = "down" /\ file' = IdleFile
    /\ UNCHANGED <<versions, hostile, temp, litter, current, ready, queue, wanted, status, listener>>

-----------------------------------------------------------------------------
(***************************************************************************)
(* replace, retryDurability and the queue they share.                      *)
(***************************************************************************)

\* PUT /settings with a valid body
Put(c) ==
    /\ phase = "up" /\ status[c] = "unused"
    /\ \E v \in Settings : wanted' = [wanted EXCEPT ![c] = v]
    /\ status' = [status EXCEPT ![c] = "queued"] /\ queue' = Append(queue, c)
    /\ UNCHANGED <<fileVars, phase, current, ready, listener>>

Retry(c) ==
    /\ phase = "up" /\ status[c] = "unused"
    /\ status' = [status EXCEPT ![c] = "queued"] /\ queue' = Append(queue, c)
    /\ UNCHANGED <<fileVars, phase, current, ready, wanted, listener>>

\* The head of the queue runs; a retry has nothing to do if all is durable.
Run ==
    /\ phase = "up" /\ queue # <<>> /\ At("idle")
    /\ \/ Head(queue) \in Calls /\ Begin("replace", wanted[Head(queue)], Head(queue))
          /\ UNCHANGED <<queue, status>>
       \/ Head(queue) \in Retries /\ ~ready /\ Begin("sync", None, None)
          /\ UNCHANGED <<queue, status>>
       \/ Head(queue) \in Retries /\ ready
          /\ status' = [status EXCEPT ![Head(queue)] = "synced"] /\ queue' = Tail(queue)
          /\ UNCHANGED file
    /\ UNCHANGED <<versions, hostile, temp, litter, phase, current, ready, wanted, listener>>

\* Mutant: an uncertain commit is answered like any other.
AnswerAlike(result) ==
    CASE result \in {"committed", "committed_durability_uncertain"} -> "durable"
      [] result \in {"threw", "not_committed"} -> "failed"
      [] result \in {"synced", "unsynced"} -> result

\* The answer of the route; an uncertain result is an error of its own.
Answer(result) ==
    CASE result = "committed" -> "durable"
      [] result = "committed_durability_uncertain" -> "uncertain"
      [] result \in {"threw", "not_committed"} -> "failed"
      [] result \in {"synced", "unsynced"} -> result

\* enqueue goes on after every outcome.
Releases(result) == TRUE

\* Mutant: the settings are taken over before the outcome is looked at.
AdoptsAlways == file.op = "replace"

Adopts == file.op = "replace" /\ Committed

\* The running operation is over.
Finish ==
    /\ phase = "up" /\ At("done") /\ queue # <<>>
    /\ current' = IF Adopts THEN file.value ELSE current
    /\ listener' = IF Adopts THEN file.value ELSE listener
    /\ ready' = IF Adopts THEN DurableResult(file.result) ELSE (ready \/ file.result = "synced")
    /\ file' = IdleFile
    /\ IF Releases(file.result)
       THEN /\ status' = [status EXCEPT ![Head(queue)] = Answer(file.result)]
            /\ queue' = Tail(queue)
       ELSE UNCHANGED <<status, queue>>
    /\ UNCHANGED <<versions, hostile, temp, litter, phase, wanted>>

-----------------------------------------------------------------------------
ProcessEnds ==
    /\ phase # "down" /\ phase' = "down"
    /\ current' = None /\ ready' = FALSE /\ queue' = <<>> /\ listener' = None
    /\ status' = [c \in Calls \cup Retries |-> IF status[c] = "queued" THEN "lost" ELSE status[c]]
    /\ UNCHANGED wanted
    /\ FileLost

Crash == ProcessEnds /\ UNCHANGED versions

PowerFailure == ProcessEnds /\ \E i \in DOMAIN versions : versions' = <<versions[i]>>

StoreStep ==
    \/ Loaded \/ Created \/ StartFails \/ Run \/ Finish
    \/ FileStep /\ UNCHANGED storeVars

Next ==
    \/ StoreStep
    \/ Start \/ Crash \/ PowerFailure
    \/ \E c \in Calls : Put(c)
    \/ \E c \in Retries : Retry(c)
    \/ Tamper /\ UNCHANGED storeVars

Spec == Init /\ [][Next]_vars

-----------------------------------------------------------------------------
Docs == Settings \cup {None, Legacy, Invalid}

TypeOK ==
    /\ FileTypeOK(Settings, Docs)
    /\ phase \in {"down", "starting", "up"} /\ (phase = "up") = (current \in Settings)
    /\ current \in Settings \cup {None} /\ ready \in BOOLEAN
    /\ queue \in Seq(Calls \cup Retries) /\ wanted \in [Calls -> Settings \cup {None}]
    /\ status \in [Calls \cup Retries -> {"unused", "queued", "durable", "uncertain", "failed",
                                          "synced", "unsynced", "lost"}]

\* A file operation belongs to the start, or to the head of the queue.
OperationHasOwner ==
    /\ phase = "down" => At("idle")
    /\ phase = "starting" => ~At("idle") /\ file.call = None /\ file.op \in {"read", "replace"}
    /\ phase # "up" => queue = <<>>
    /\ phase = "up" /\ ~At("idle") =>
          /\ queue # <<>>
          /\ \/ Head(queue) \in Calls /\ file.op = "replace" /\ file.call = Head(queue)
             \/ Head(queue) \in Retries /\ file.op = "sync" /\ file.call = None
    /\ ~At("idle") /\ file.op = "replace" => file.value \in Settings

\* A call waits in the queue exactly once, from its request to its answer.
QueueIsTheWaiting ==
    /\ \A i, j \in DOMAIN queue : queue[i] = queue[j] => i = j
    /\ \A i \in DOMAIN queue : status[queue[i]] = "queued"
    /\ \A c \in Calls \cup Retries : status[c] = "queued" => \E i \in DOMAIN queue : queue[i] = c
    /\ \A c \in Calls : status[c] = "queued" => wanted[c] \in Settings

\* No version of the file knows a call whose rename is still to come.
EffectsComeWithRename ==
    /\ \A c \in Calls :
          status[c] \in {"unused", "queued"} /\ ~(Renamed /\ file.call = c) =>
             \A i \in DOMAIN versions : c \notin versions[i].calls
    /\ Renamed => Newest.doc = file.value /\ (file.call # None => file.call \in Newest.calls)

\* The settings in memory are those of the file, but for a rename that was not
\* answered yet, and a subscriber knows them.
MemoryFollowsFile ==
    phase = "up" => listener = current /\ (~Renamed => current = Newest.doc)

\* All of it together is inductive.
IInv ==
    /\ TypeOK /\ FileInOrder /\ OperationHasOwner /\ QueueIsTheWaiting
    /\ EffectsComeWithRename /\ MemoryFollowsFile

\* The store implements the answered file: a PUT takes effect at most once and
\* as a whole, and what its caller is told about it is true, whatever fails.
Told == [c \in Calls |-> IF status[c] \in {"unused", "queued", "lost"} THEN "nothing" ELSE status[c]]

Answered == INSTANCE AnsweredFile
    WITH versions <- versions, told <- Told, Calls <- Calls, Values <- Settings

AnsweredInit == Answered!Init

AnsweredStep == Answered!Next \/ UNCHANGED <<versions, Told>>

AnswersAreTrue == Answered!Spec

\* Between operations the settings in memory, and those a subscriber was told
\* last, are those of the file: a failed replacement changes neither.
MemoryMatchesFile ==
    phase = "up" /\ At("idle") => current = Newest.doc /\ listener = current

\* The store becomes, or stays, ready by an operation that wrote or synced only
\* if a power failure can lose nothing any more.
ReadyIsEarned ==
    ready' /\ (~ready \/ current' # current) /\ file.op # "read" => Len(versions') = 1

\* An operation leaves no handle open, whatever fails.
HandlesAreClosed == file.pc \in {"idle", "done"} => file.open = {}

\* Both, with the invariant that makes them inductive
SettingsAreKept == IInv /\ MemoryMatchesFile /\ HandlesAreClosed

\* An operation that reports that nothing happened left nothing behind either:
\* only an operation that threw, or a crash, leaves a temporary file.
NothingIsLeft ==
    litter' /\ ~litter => file'.result = "threw" \/ phase' = "down"

\* A replacement never renames over something hostile that was there when it
\* looked at the target.
HostileIsKept == Len(versions') > Len(versions) => hostile # "early"

\* What a step of the store may never do.
StepsAreCareful == ReadyIsEarned /\ NothingIsLeft /\ HostileIsKept

=============================================================================
