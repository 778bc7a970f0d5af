------------------------------ MODULE TabStore ------------------------------
(***************************************************************************)
(* The tab store (tab-store.ts): operations on the tab document wait in    *)
(* one mutation queue; each writes a temporary file, syncs it, renames it  *)
(* over tabs.json and syncs the directory.  The process may be killed, or  *)
(* the machine lose power, at any await, and is started again.             *)
(*                                                                         *)
(* A step is the code between two awaits together with the file operation  *)
(* that it waited for.  initialize is the operation that runs while the    *)
(* queue is empty and the store is not idle.                               *)
(***************************************************************************)
EXTENDS TabDocument

CONSTANTS Calls,             \* calls of the store's operations
          Operations,        \* what they may ask for
          InitialDocuments,  \* what tabs.json may hold before the first start
          DirectorySync,     \* does the file system sync directories?
          None,              \* no file, no document, no call
          Torn               \* a file whose contents did not reach the disk

ASSUME OperationsAssumption == Operations \subseteq Operation
ASSUME InitialAssumption ==
    \A d \in InitialDocuments : d = None \/ ValidDocument(d)
ASSUME DirectorySyncAssumption == DirectorySync \in BOOLEAN

VARIABLES
    versions,   \* what tabs.json may be after a power failure, newest last
    temp,       \* temporary file of the running write
    orphans,    \* temporary files nobody uses are lying around
    document,   \* document of the running process
    ready,      \* durabilityReady
    pc,         \* what the head of the mutation queue is waiting for
    next,       \* document being written
    queue,      \* mutationTail
    call,       \* what was asked for, and what the caller had seen
    status      \* outcome of a call

memoryVars == <<document, ready, next>>
fileVars   == <<versions, temp, orphans>>
callVars   == <<queue, call, status>>
vars == <<versions, temp, orphans, document, ready, pc, next, queue, call, status>>

Newest == versions[Len(versions)]

\* What a client is shown of the tabs, their activity aside.
Structure(d) ==
    [i \in DOMAIN d.tabs |-> <<d.tabs[i].id, d.tabs[i].name, d.tabs[i].desired>>]

Stages == {"down", "reading", "idle", "opening", "writing", "discarding",
           "syncingDirectory", "cleaning"}
Outcomes == {"unused", "queued", "refused", "failed", "unchanged", "committed",
             "durable", "lost", "uncertain"}
Version == [doc : Document \cup {None, Torn}, calls : SUBSET Calls]
Request == [o : Operations, revision : Nat, seen : Seq(Ids \X Names \X {"active", "stopped"})]

ASSUME NoneAssumption ==
    None \notin Document \cup Request /\ Torn \notin Document /\ Torn # None

TypeOK ==
    /\ versions \in Seq(Version) /\ versions # <<>>
    /\ temp \in {"none", "created", "written", "synced"}
    /\ orphans \in BOOLEAN
    /\ document \in Document \cup {None}
    /\ ready \in BOOLEAN
    /\ pc \in Stages
    /\ next \in Document \cup {None}
    /\ queue \in Seq(Calls)
    /\ call \in [Calls -> Request \cup {None}]
    /\ status \in [Calls -> Outcomes]

Init ==
    /\ versions \in {<<[doc |-> d, calls |-> {}]>> : d \in InitialDocuments}
    /\ temp = "none"
    /\ orphans = FALSE
    /\ document = None
    /\ ready = FALSE
    /\ pc = "down"
    /\ next = None
    /\ queue = <<>>
    /\ call = [c \in Calls |-> None]
    /\ status = [c \in Calls |-> "unused"]

-----------------------------------------------------------------------------
(***************************************************************************)
(* The mutation queue.                                                     *)
(***************************************************************************)
Booting == queue = <<>> /\ pc # "idle"

\* Mutant: a call that fails leaves the tail of the queue rejected.
SettleOnlySuccess(outcome) ==
    /\ pc' = "idle"
    /\ status' = [status EXCEPT ![Head(queue)] = outcome]
    /\ queue' = IF outcome = "failed" THEN queue ELSE Tail(queue)
    /\ next' = None

\* The running call settles, whatever its outcome the next one may run.
Settle(outcome) ==
    /\ pc' = "idle"
    /\ status' = [status EXCEPT ![Head(queue)] = outcome]
    /\ queue' = Tail(queue)
    /\ next' = None

\* The write of the running operation is over.
Resume(outcome) ==
    \/ Booting /\ pc' = "cleaning" /\ next' = None /\ UNCHANGED <<queue, status>>
    \/ ~Booting /\ Settle(outcome)

\* It failed; a failed initialize ends the process.
Abort ==
    \/ Booting /\ pc' = "down" /\ next' = None /\ UNCHANGED <<queue, status>>
    \/ ~Booting /\ Settle("failed")

\* randomUUID never returns an identifier again.
Fresh(o) ==
    o \in Creation =>
        /\ \A i \in DOMAIN versions :
              versions[i].doc \in Document => o.id \notin IdsOf(versions[i].doc)
        /\ next # None => o.id \notin IdsOf(next)
        /\ \A c \in Calls : call[c] # None /\ call[c].o \in Creation => call[c].o.id # o.id

\* A caller looks at the store and enqueues an operation.
Enqueue(c, o) ==
    /\ status[c] = "unused"
    /\ pc = "idle" \/ queue # <<>>
    /\ Fresh(o)
    /\ call' = [call EXCEPT ![c] = [o |-> o, revision |-> document.revision,
                                    seen |-> Structure(document)]]
    /\ status' = [status EXCEPT ![c] = "queued"]
    /\ queue' = Append(queue, c)
    /\ UNCHANGED <<fileVars, memoryVars, pc>>

\* mutate: the operation is applied to the current document.
Mutate ==
    LET c == Head(queue) IN
    /\ pc = "idle" /\ queue # <<>>
    /\ \/ /\ Mutation(call[c].o, call[c].revision, document, next')
          /\ pc' = "opening"
          /\ UNCHANGED <<queue, status>>
       \/ /\ Refused(call[c].o, call[c].revision, document)
          /\ Settle("refused")
       \/ /\ ~Refused(call[c].o, call[c].revision, document)
          /\ Idle(call[c].o, document)
          /\ Settle("unchanged")
    /\ UNCHANGED <<fileVars, document, ready, call>>

-----------------------------------------------------------------------------
(***************************************************************************)
(* persist.                                                                *)
(***************************************************************************)

\* A name for the temporary file is tried up to eight times.
OpenTemp ==
    /\ pc = "opening"
    /\ \/ /\ temp' = "created" /\ pc' = "writing"
          /\ UNCHANGED <<next, queue, status>>
       \/ Abort /\ UNCHANGED temp
    /\ UNCHANGED <<versions, orphans, document, ready, call>>

Discard == pc' = "discarding"

\* writeFile, then sync and close of the handle.
WriteTemp ==
    /\ pc = "writing" /\ temp = "created"
    /\ \/ temp' = "written" /\ UNCHANGED pc
       \/ Discard /\ UNCHANGED temp
    /\ UNCHANGED <<versions, orphans, memoryVars, callVars>>

SyncTemp ==
    /\ pc = "writing" /\ temp = "written"
    /\ \/ temp' = "synced" /\ UNCHANGED pc
       \/ Discard /\ UNCHANGED temp
    /\ UNCHANGED <<versions, orphans, memoryVars, callVars>>

\* What the renamed file holds should the power fail.
Contents(d) == IF temp = "synced" THEN d ELSE Torn

\* The rename is the commit: memory follows the file at once.
CommitTemp ==
    /\ pc = "writing" /\ temp = "synced"
    /\ \/ /\ versions' = Append(versions,
                [doc |-> Contents(next),
                 calls |-> Newest.calls \cup (IF Booting THEN {} ELSE {Head(queue)})])
          /\ document' = next
          /\ temp' = "none" /\ pc' = "syncingDirectory"
       \/ Discard /\ UNCHANGED <<versions, document, temp>>
    /\ UNCHANGED <<orphans, ready, next, callVars>>

\* The error path unlinks the temporary file, if it can.
DiscardTemp ==
    /\ pc = "discarding"
    /\ temp' = "none"
    /\ orphans' \in {orphans, TRUE}
    /\ Abort
    /\ UNCHANGED <<versions, document, ready, call>>

\* Mutant: a failed directory sync is not remembered.
SyncDirectoryOptimistic ==
    /\ pc = "syncingDirectory"
    /\ \/ /\ DirectorySync
          /\ versions' = <<Newest>>
          /\ ready' = TRUE
          /\ Resume("durable")
       \/ /\ ready' = TRUE
          /\ Resume("committed") /\ UNCHANGED versions
    /\ UNCHANGED <<temp, orphans, document, call>>

\* The directory is synced, or cannot be on this file system, or the sync
\* fails: then the operation is committed and its durability uncertain.
SyncDirectory ==
    /\ pc = "syncingDirectory"
    /\ \/ /\ DirectorySync
          /\ versions' = <<Newest>>
          /\ ready' = TRUE
          /\ Resume("durable")
       \/ /\ ~DirectorySync
          /\ ready' = TRUE
          /\ Resume("committed") /\ UNCHANGED versions
       \/ /\ ready' = FALSE
          /\ Resume("committed") /\ UNCHANGED versions
    /\ UNCHANGED <<temp, orphans, document, call>>

-----------------------------------------------------------------------------
(***************************************************************************)
(* Start, initialize, and the two kinds of crash.                          *)
(***************************************************************************)
Start ==
    /\ pc = "down"
    /\ pc' = "reading"
    /\ UNCHANGED <<fileVars, memoryVars, callVars>>

\* Mutant: every error is taken for a missing file.
ReadPrimaryFallsBack ==
    /\ pc = "reading"
    /\ \/ /\ Newest.doc \notin {None, Torn}
          /\ document' = Newest.doc /\ ready' = TRUE
          /\ pc' = "cleaning" /\ UNCHANGED next
       \/ /\ next' = EmptyDocument
          /\ pc' = "opening" /\ UNCHANGED <<document, ready>>
    /\ UNCHANGED <<fileVars, callVars>>

\* readPrimary: a valid document is taken over, a missing file is created
\* from the empty document, anything else stops the start.
ReadPrimary ==
    /\ pc = "reading"
    /\ \/ /\ Newest.doc \notin {None, Torn}
          /\ document' = Newest.doc /\ ready' = TRUE
          /\ pc' = "cleaning" /\ UNCHANGED next
       \/ /\ Newest.doc = None
          /\ next' = EmptyDocument
          /\ pc' = "opening" /\ UNCHANGED <<document, ready>>
       \/ pc' = "down" /\ UNCHANGED memoryVars
    /\ UNCHANGED <<fileVars, callVars>>

\* cleanupTemps ignores what it cannot remove.
CleanupTemps ==
    /\ pc = "cleaning"
    /\ orphans' \in {FALSE, orphans}
    /\ pc' = "idle"
    /\ UNCHANGED <<versions, temp, memoryVars, callVars>>

\* The process ends: what is in memory is lost, and so are the answers.
ProcessEnds ==
    /\ pc # "down"
    /\ pc' = "down"
    /\ document' = None /\ ready' = FALSE /\ next' = None
    /\ temp' = "none"
    /\ orphans' = (orphans \/ temp # "none")
    /\ queue' = <<>>
    /\ status' = [c \in Calls |->
                    IF status[c] = "queued" THEN "lost"
                    ELSE IF status[c] = "committed" THEN "uncertain" ELSE status[c]]
    /\ UNCHANGED call

Crash == ProcessEnds /\ UNCHANGED versions

PowerFailure ==
    /\ ProcessEnds
    /\ \E i \in DOMAIN versions : versions' = <<versions[i]>>

-----------------------------------------------------------------------------
\* The next step of the running operation.
StoreStep ==
    \/ Mutate \/ OpenTemp \/ WriteTemp \/ SyncTemp \/ CommitTemp \/ DiscardTemp
    \/ SyncDirectory \/ ReadPrimary \/ CleanupTemps

Next ==
    \/ \E c \in Calls, o \in Operations : Enqueue(c, o)
    \/ StoreStep
    \/ Start \/ Crash \/ PowerFailure

Spec == Init /\ [][Next]_vars

-----------------------------------------------------------------------------
(***************************************************************************)
(* Properties.                                                             *)
(***************************************************************************)

\* The store implements the durable document: whatever crashes in between,
\* tabs.json changes by whole operations, each at most once.
Durable == INSTANCE DurableDocument
    WITH versions <- versions, Calls <- Calls, Operations <- Operations, None <- None,
         Ids <- Ids, Names <- Names, MaxCount <- MaxCount

DurableSpec == Durable!Spec

\* Whatever a restart can find is a document that readPrimary accepts: no
\* crash leaves a torn file, a hole in the positions, a double identifier or
\* more tabs than the limit.  The candidate of a write is valid as well, so
\* the parse in front of every write never rejects one.
RestartFindsValidDocument ==
    /\ \A i \in DOMAIN versions : versions[i].doc = None \/ ValidDocument(versions[i].doc)
    /\ next = None \/ ValidDocument(next)

\* A reader of the store sees the newest version on disk, also after a failed
\* write, a failed directory sync or a restart.
MemoryMatchesFile ==
    document = None \/ document = Newest.doc

\* A call that was refused or failed has changed nothing that can ever be read
\* again; one that succeeded has changed the document.  A failed directory sync
\* must not turn a committed operation into an error.
OutcomeIsHonest ==
    \A c \in Calls :
        /\ status[c] \in {"unused", "refused", "failed", "unchanged"} =>
              \A i \in DOMAIN versions : c \notin versions[i].calls
        /\ status[c] = "committed" => c \in Newest.calls

\* An operation whose directory sync succeeded survives every later crash; as
\* long as the process lives and reports itself ready, so do all the others.
AcknowledgedSurvives ==
    \A c \in Calls :
        status[c] = "durable" \/ (status[c] = "committed" /\ ready /\ DirectorySync) =>
            \A i \in DOMAIN versions : c \in versions[i].calls

\* A reorder is carried out only on the tabs its caller had seen: no create,
\* remove, rename or change of state that was queued in between is lost on it.
ReorderSeesNoOtherChange ==
    queue # <<>> /\ pc = "opening" =>
        LET request == call[Head(queue)] IN
        request.o.op = "reorder" => Structure(document) = request.seen

-----------------------------------------------------------------------------
(***************************************************************************)
(* Why these hold: what the running operation, the queue and the process   *)
(* know of each other at every await.                                      *)
(***************************************************************************)

\* What is being written is what the running operation makes of the document
\* in memory, which no other step has changed since; initialize alone writes
\* while there is no document, and only to create a missing file.
WriterIsCurrent ==
    /\ pc \in {"down", "reading", "cleaning"} => queue = <<>>
    /\ pc \in {"down", "reading"} => document = None
    /\ pc \in {"idle", "cleaning", "syncingDirectory"} \/ queue # <<>> => document # None
    /\ pc \in {"down", "reading", "idle", "cleaning"} => next = None
    /\ pc \in {"opening", "writing", "discarding"} =>
          IF queue = <<>>
          THEN document = None /\ Newest.doc = None /\ next = EmptyDocument
          ELSE next # None /\ Mutation(call[Head(queue)].o, call[Head(queue)].revision, document, next)

\* The mutation queue holds each call without an answer once; a process that
\* starts owes no answer.
QueueHoldsTheUnanswered ==
    /\ \A i, j \in DOMAIN queue : queue[i] = queue[j] => i = j
    /\ \A c \in Calls : status[c] = "queued" <=> \E i \in DOMAIN queue : queue[i] = c
    /\ \A c \in Calls : status[c] # "unused" => call[c] \in Request
    /\ Booting => \A c \in Calls : status[c] # "committed"

Applied(c) == pc = "syncingDirectory" /\ queue # <<>> /\ c = Head(queue)
Begun(c) == pc # "idle" /\ c = Head(queue)

\* A call leaves its trace on the file with the rename, not before.
UnappliedLeavesNoTrace ==
    \A c \in Calls :
        /\ status[c] = "queued" /\ ~Applied(c) => \A i \in DOMAIN versions : c \notin versions[i].calls
        /\ Applied(c) => c \in Newest.calls

\* The identifier a waiting creation has chosen is in use nowhere.
WaitingIdIsUnused ==
    /\ \A c \in Calls :
          status[c] = "queued" /\ ~Begun(c) /\ call[c].o \in Creation =>
              /\ \A i \in DOMAIN versions :
                    versions[i].doc \in Document => call[c].o.id \notin IdsOf(versions[i].doc)
              /\ next # None => call[c].o.id \notin IdsOf(next)
    /\ \A c, d \in Calls :
          status[c] # "unused" /\ status[d] # "unused" /\ call[c].o \in Creation /\ call[d].o \in Creation
              /\ call[c].o.id = call[d].o.id => c = d

\* The revision a waiting caller has seen tells whether the tabs it has seen
\* are still the ones of the store.
RevisionTellsStructure ==
    \A c \in Calls :
        status[c] = "queued" /\ ~Applied(c) =>
            /\ call[c].revision <= document.revision
            /\ call[c].revision = document.revision => call[c].seen = Structure(document)

\* What the store shows and tells is true at any moment, and stays true
\* through crashes: of the file, of the callers, and of the reorders.
StoreIsHonest ==
    /\ TypeOK /\ RestartFindsValidDocument /\ MemoryMatchesFile
    /\ OutcomeIsHonest /\ AcknowledgedSurvives /\ ReorderSeesNoOtherChange
    /\ WriterIsCurrent /\ QueueHoldsTheUnanswered /\ UnappliedLeavesNoTrace
    /\ WaitingIdIsUnused /\ RevisionTellsStructure

=============================================================================
