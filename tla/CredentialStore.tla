--------------------------- MODULE CredentialStore ---------------------------
(***************************************************************************)
(* The credential store (credential-store.ts) on top of the secure file:   *)
(* initializeLocal, first-run enrolment, password replacement and          *)
(* verification share one queue; hashing and file operations may fail, and *)
(* the process may end at any await.                                       *)
(*                                                                         *)
(* A record is the password it was made from: hashes are compared, never   *)
(* inverted.  Another is a record of a user name that is not configured,   *)
(* or one that does not parse.                                             *)
(***************************************************************************)
EXTENDS SecureJsonFile

CONSTANTS Passwords,
          Another,      \* a record that this configuration refuses
          Checks        \* calls of verify; those in Calls write

RecordsAssumption ==
    /\ Another \notin Passwords
    /\ None \notin Passwords \cup {Another} /\ Torn \notin Passwords \cup {Another}
ChecksAssumption == None \notin Calls /\ Calls \cap Checks = {}

VARIABLES
    startup,      \* the process: down, starting or up (initializationComplete)
    record,       \* record in memory
    hashing,      \* the head of the queue waits for the hasher
    operations,   \* operationTail
    request,      \* what a call asks for
    reply         \* what a caller was told

recordVars == <<startup, record, hashing, operations, request, reply>>
credentialVars == <<fileVars, recordVars>>
Callers == Calls \cup Checks

CredentialInit ==
    /\ \E initial \in Passwords \cup {None, Another} : FileInit(initial)
    /\ startup = "down" /\ record = None /\ hashing = FALSE /\ operations = <<>>
    /\ request = [c \in Callers |-> None] /\ reply = [c \in Callers |-> "unused"]

-----------------------------------------------------------------------------
\* initializeLocal
InitializeLocal ==
    /\ startup = "down" /\ startup' = "starting" /\ Begin("read", None, None)
    /\ UNCHANGED <<versions, hostile, temp, litter, record, hashing, operations, request, reply>>

\* No file: the server is not claimed yet.  A record of somebody else, or a
\* file that cannot be read, stops the start.
RecordLoaded ==
    /\ startup = "starting" /\ At("done")
    /\ \/ /\ file.result = "read" /\ Newest.doc # Another
          /\ startup' = "up" /\ record' = Newest.doc
       \/ /\ file.result = "threw" \/ Newest.doc = Another
          /\ startup' = "down" /\ UNCHANGED record
    /\ file' = IdleFile
    /\ UNCHANGED <<versions, hostile, temp, litter, hashing, operations, request, reply>>

\* A call of enroll, replacePassword or verify with password p.  The last two
\* are rejected at once while there is no record.
Ask(c, op, p) ==
    /\ startup = "up" /\ reply[c] = "unused"
    /\ IF op # "enroll" /\ record = None
       THEN reply' = [reply EXCEPT ![c] = "refused"] /\ UNCHANGED <<operations, request>>
       ELSE /\ reply' = [reply EXCEPT ![c] = "queued"]
            /\ operations' = Append(operations, c)
            /\ request' = [request EXCEPT ![c] = [op |-> op, password |-> p]]
    /\ UNCHANGED <<fileVars, startup, record, hashing>>

Settle(answer) ==
    /\ reply' = [reply EXCEPT ![Head(operations)] = answer] /\ operations' = Tail(operations)
    /\ hashing' = FALSE

\* Mutant: whether the server is claimed is asked before the queue.
ClaimedBefore == FALSE

Claimed == record # None

\* The head of the queue runs up to the hasher.
RunHead ==
    /\ startup = "up" /\ operations # <<>> /\ ~hashing /\ At("idle")
    /\ IF request[Head(operations)].op = "enroll" /\ Claimed
       THEN Settle("already")
       ELSE hashing' = TRUE /\ UNCHANGED <<reply, operations>>
    /\ UNCHANGED <<fileVars, startup, record, request>>

\* The hasher, or the comparison, has answered.
Hashed ==
    LET r == request[Head(operations)] IN
    /\ hashing
    /\ \/ /\ r.op = "verify"
          /\ Settle(IF r.password = record THEN "right" ELSE "wrong") /\ UNCHANGED file
       \/ /\ r.op # "verify"
          /\ Begin("replace", r.password, Head(operations))
          /\ hashing' = FALSE /\ UNCHANGED <<reply, operations>>
       \/ Settle("failed") /\ UNCHANGED file
    /\ UNCHANGED <<versions, hostile, temp, litter, startup, record, request>>

Stored == file.result \in {"committed", "committed_durability_uncertain"}

ReplyTo(result) ==
    CASE result = "committed" -> "durable"
      [] result = "committed_durability_uncertain" -> "uncertain"
      [] result \in {"threw", "not_committed"} -> "failed"

Replaced ==
    /\ startup = "up" /\ At("done")
    /\ record' = IF Stored THEN file.value ELSE record
    /\ Settle(ReplyTo(file.result))
    /\ file' = IdleFile
    /\ UNCHANGED <<versions, hostile, temp, litter, startup, request>>

-----------------------------------------------------------------------------
ServerEnds ==
    /\ startup # "down" /\ startup' = "down"
    /\ record' = None /\ hashing' = FALSE /\ operations' = <<>>
    /\ reply' = [c \in Callers |-> IF reply[c] = "queued" THEN "lost" ELSE reply[c]]
    /\ UNCHANGED request
    /\ FileLost

ServerCrash == ServerEnds /\ UNCHANGED versions

ServerLosesPower == ServerEnds /\ \E i \in DOMAIN versions : versions' = <<versions[i]>>

CredentialStep ==
    \/ RecordLoaded \/ RunHead \/ Hashed \/ Replaced
    \/ FileStep /\ UNCHANGED recordVars

CredentialNext ==
    \/ CredentialStep
    \/ InitializeLocal \/ ServerCrash \/ ServerLosesPower
    \/ \E c \in Calls, op \in {"enroll", "replace"}, p \in Passwords : Ask(c, op, p)
    \/ \E c \in Checks, p \in Passwords : Ask(c, "verify", p)
    \/ Tamper /\ UNCHANGED recordVars

CredentialSpec == CredentialInit /\ [][CredentialNext]_credentialVars

-----------------------------------------------------------------------------
Requests == [op : {"enroll", "replace", "verify"}, password : Passwords]
Replies == {"unused", "queued", "refused", "already", "durable", "uncertain", "failed", "right",
            "wrong", "lost"}
Records == Passwords \cup {None, Another}

CredentialTypeOK ==
    /\ FileTypeOK(Passwords, Records)
    /\ startup \in {"down", "starting", "up"} /\ record \in Passwords \cup {None}
    /\ hashing \in BOOLEAN /\ operations \in Seq(Callers)
    /\ request \in [Callers -> Requests \cup {None}] /\ reply \in [Callers -> Replies]

\* A file operation belongs to the start, or to the head of the queue, which has
\* its hash; an enrolment that waits for the hasher or the file found no record.
HeadIsAtWork ==
    /\ startup = "down" => At("idle")
    /\ startup = "starting" => ~At("idle") /\ file.call = None /\ file.op = "read"
    /\ startup # "up" => operations = <<>>
    /\ hashing => startup = "up" /\ At("idle")
    /\ startup = "up" /\ ~At("idle") =>
          /\ operations # <<>> /\ Head(operations) \in Calls
          /\ file.op = "replace" /\ file.call = Head(operations) /\ file.value \in Passwords
    /\ hashing \/ (startup = "up" /\ ~At("idle")) =>
          /\ operations # <<>>
          /\ request[Head(operations)].op = "enroll" => record = None

\* A call waits in the queue exactly once, from its request to its answer, and
\* one that needs a record (requireCurrent) has one.
OperationsAreWaiting ==
    /\ \A i, j \in DOMAIN operations : operations[i] = operations[j] => i = j
    /\ \A i \in DOMAIN operations : reply[operations[i]] = "queued"
    /\ \A c \in Callers : reply[c] = "queued" =>
          /\ \E i \in DOMAIN operations : operations[i] = c
          /\ request[c] \in Requests /\ (request[c].op = "verify" <=> c \in Checks)
          /\ request[c].op # "enroll" => record # None

\* No version of the file knows a call whose rename is still to come.
RecordsComeWithRename ==
    /\ \A c \in Calls :
          reply[c] \in {"unused", "queued"} /\ ~(Renamed /\ file.call = c) =>
             \A i \in DOMAIN versions : c \notin versions[i].calls
    /\ Renamed => Newest.doc = file.value /\ (file.call # None => file.call \in Newest.calls)

\* The record in memory is that of the file, but for a rename not yet answered.
RecordFollowsFile == startup = "up" /\ ~Renamed => record = Newest.doc

\* All of it together is inductive.
CredentialIInv ==
    /\ CredentialTypeOK /\ FileInOrder /\ HeadIsAtWork /\ OperationsAreWaiting
    /\ RecordsComeWithRename /\ RecordFollowsFile

\* The store implements the answered file.  A caller who hears "already", or
\* whose call was refused, hears that nothing was written for it.
Replied ==
    [c \in Calls |-> CASE reply[c] \in {"unused", "queued", "lost"} -> "nothing"
                       [] reply[c] \in {"refused", "already", "failed"} -> "failed"
                       [] OTHER -> reply[c]]

Promised == INSTANCE AnsweredFile
    WITH versions <- versions, told <- Replied, Calls <- Calls, Values <- Passwords

PromisedInit == Promised!Init

PromisesAreKept == Promised!Spec

PromisedStep == Promised!Next \/ UNCHANGED <<versions, Replied>>

\* An enrolment never replaces a record: of two first visitors that race, and
\* of one that tries again after a restart, only one claims the server.
EnrolmentClaimsOnce ==
    Len(versions') > Len(versions) /\ file.call # None /\ request[file.call].op = "enroll"
       => Newest.doc = None

\* The password that verify accepts is the one on disk, also right after a
\* replacement whose durability is uncertain.
VerifiesNewest ==
    \A c \in Checks : reply'[c] = "right" /\ reply[c] # "right" =>
       request[c].password = Newest.doc

\* Both, of every step
ClaimsAreCareful == EnrolmentClaimsOnce /\ VerifiesNewest

=============================================================================
