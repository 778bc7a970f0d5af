--------------------------- MODULE SecureJsonFile ---------------------------
(***************************************************************************)
(* The service of secure-json-file.ts on one path: read, replace and       *)
(* syncParent.  Its users queue their operations, so that one runs at a    *)
(* time; a step is the code between two awaits, the file operation waited  *)
(* for included, and every file operation may fail.  Awaits that change    *)
(* nothing a crash or a later step could notice share a step.              *)
(*                                                                         *)
(* The parts of paths, owners and modes that are refused are one property  *)
(* of what lies at the path: it is hostile (a link, not a regular file, of *)
(* another owner, or open to others).                                      *)
(***************************************************************************)
EXTENDS Naturals, Sequences

CONSTANTS Calls,        \* the calls of a user that write
          None,         \* no file, no call
          Torn,         \* contents that did not reach the disk as a whole
          Size,         \* parts in which a value may be written
          TempOpenAttempts

SizeAssumption == Size \in Nat \ {0} /\ TempOpenAttempts \in Nat \ {0}

VARIABLES
    versions,   \* what the file may be after a power failure, the newest last
    hostile,    \* what lies at the path is hostile: "no", since before the second
                \* look at it ("early") or since ("late")
    temp,       \* the temporary file: parts written, and whether they are synced
    litter,     \* a temporary file that nobody removes was left
    file        \* the running operation

fileVars == <<versions, hostile, temp, litter, file>>

Newest == versions[Len(versions)]
NoTemp == [exists |-> FALSE, written |-> 0, synced |-> FALSE]
IdleFile == [pc |-> "idle", op |-> None, value |-> None, call |-> None, attempt |-> 0,
             open |-> {}, security |-> FALSE, result |-> "none"]

FileInit(initial) ==
    /\ versions = <<[doc |-> initial, calls |-> {}]>>
    /\ hostile = "no" /\ temp = NoTemp /\ litter = FALSE /\ file = IdleFile

Begin(op, value, call) ==
    file' = [IdleFile EXCEPT !.op = op, !.value = value, !.call = call,
                             !.pc = IF op = "read" THEN "reading" ELSE "openingParent"]

At(pc) == file.pc = pc
Goto(pc) == file' = [file EXCEPT !.pc = pc]

\* Every path through an operation closes its handles.
Returns(result) == [file EXCEPT !.pc = "done", !.result = result, !.open = {}]

Fails(security) == file' = [file EXCEPT !.pc = "failing", !.security = security]

\* read: the parent is validated, and the file read, decoded and parsed.
Read ==
    /\ At("reading")
    /\ \/ hostile = "no" /\ Newest.doc # Torn /\ file' = Returns("read")
       \/ file' = Returns("threw")
    /\ UNCHANGED <<versions, hostile, temp, litter>>

\* openValidatedParent
OpenParent ==
    /\ At("openingParent")
    /\ \/ file' = [file EXCEPT !.open = {"parent"},
                               !.pc = IF file.op = "sync" THEN "hardening" ELSE "validating"]
       \/ file' = Returns(IF file.op = "sync" THEN "unsynced" ELSE "threw")
    /\ UNCHANGED <<versions, hostile, temp, litter>>

\* validateExistingTarget, before anything is written
Validate ==
    /\ At("validating")
    /\ \/ hostile = "no" /\ Goto("creating")
       \/ file' = Returns("threw")
    /\ UNCHANGED <<versions, hostile, temp, litter>>

MoreNames(attempt) == attempt + 1 < TempOpenAttempts

\* A name for the temporary file is tried; it may exist.
CreateTemp ==
    /\ At("creating")
    /\ \/ /\ temp' = [NoTemp EXCEPT !.exists = TRUE]
          /\ file' = [file EXCEPT !.pc = "preparing", !.open = @ \cup {"temp"}]
       \/ /\ MoreNames(file.attempt) /\ file' = [file EXCEPT !.attempt = @ + 1]
          /\ UNCHANGED temp
       \/ Fails(FALSE) /\ UNCHANGED temp
    /\ UNCHANGED <<versions, hostile, litter>>

\* chmod and validateTempStat
PrepareTemp ==
    /\ At("preparing")
    /\ Goto("writing") \/ Fails(FALSE)
    /\ UNCHANGED <<versions, hostile, temp, litter>>

Written(parts) == parts = Size

\* writeAll: write takes as many parts as it likes.
WritePart ==
    /\ At("writing")
    /\ \/ \E n \in (temp.written + 1) .. Size :
            /\ temp' = [temp EXCEPT !.written = n]
            /\ IF Written(n) THEN Goto("syncing") ELSE UNCHANGED file
       \/ Fails(FALSE) /\ UNCHANGED temp
    /\ UNCHANGED <<versions, hostile, litter>>

SyncTemp ==
    /\ At("syncing")
    /\ \/ temp' = [temp EXCEPT !.synced = TRUE] /\ Goto("closing")
       \/ Fails(FALSE) /\ UNCHANGED temp
    /\ UNCHANGED <<versions, hostile, litter>>

CloseTemp ==
    /\ At("closing")
    /\ \/ file' = [file EXCEPT !.pc = "revalidating", !.open = @ \ {"temp"}]
       \/ Fails(FALSE)
    /\ UNCHANGED <<versions, hostile, temp, litter>>

Safe == hostile = "no"

Revalidate ==
    /\ At("revalidating")
    /\ \/ Safe /\ Goto("renaming")
       \/ Fails(~Safe)
    /\ UNCHANGED <<versions, hostile, temp, litter>>

\* What a restart finds after this rename
Contents ==
    [doc |-> IF temp.written = Size /\ temp.synced THEN file.value ELSE Torn,
     calls |-> Newest.calls \cup ({file.call} \ {None})]

Rename ==
    /\ At("renaming")
    /\ \/ /\ versions' = Append(versions, Contents)
          /\ hostile' = "no" /\ temp' = NoTemp /\ Goto("hardening")
       \/ Fails(FALSE) /\ UNCHANGED <<versions, hostile, temp>>
    /\ UNCHANGED litter

Outcome(clean) == IF file.security \/ ~clean THEN "threw" ELSE "not_committed"

\* The error path of replace: close and remove the temporary file, close the parent.
Cleanup ==
    /\ At("failing")
    /\ \E removed, closed \in BOOLEAN :
          /\ temp' = NoTemp
          /\ litter' = (litter \/ (temp.exists /\ ~removed))
          /\ file' = Returns(Outcome(closed /\ (temp.exists => removed)))
    /\ UNCHANGED <<versions, hostile>>

Hardened(durable) ==
    IF file.op = "sync" THEN (IF durable THEN "synced" ELSE "unsynced")
    ELSE IF durable THEN "committed" ELSE "committed_durability_uncertain"

\* The sync and the close of the parent, after a rename or for syncParent
SyncParent ==
    /\ At("hardening")
    /\ \E synced, closed \in BOOLEAN :
          /\ versions' = IF synced THEN <<Newest>> ELSE versions
          /\ file' = Returns(Hardened(synced /\ closed))
    /\ UNCHANGED <<hostile, temp, litter>>

FileStep ==
    \/ Read \/ OpenParent \/ Validate \/ CreateTemp \/ PrepareTemp \/ WritePart \/ SyncTemp
    \/ CloseTemp \/ Revalidate \/ Rename \/ Cleanup \/ SyncParent

\* Somebody else puts something hostile at the path.
Tamper ==
    /\ hostile = "no" /\ Newest.doc # None
    /\ hostile' = IF At("renaming") THEN "late" ELSE "early"
    /\ UNCHANGED <<versions, temp, litter, file>>

\* The process ends; nobody removes its temporary file.
FileLost ==
    /\ temp' = NoTemp /\ litter' = (litter \/ temp.exists) /\ file' = IdleFile
    /\ UNCHANGED hostile

-----------------------------------------------------------------------------
Writing == {"validating", "creating", "preparing", "writing", "syncing", "closing",
            "revalidating", "renaming", "failing"}
Places == Writing \cup {"idle", "reading", "openingParent", "hardening", "done"}
Commits == {"committed", "committed_durability_uncertain"}
Results == Commits \cup {"none", "read", "threw", "not_committed", "synced", "unsynced"}

FileRecord(Values) ==
    [pc : Places, op : {None, "read", "replace", "sync"}, value : Values \cup {None},
     call : Calls \cup {None}, attempt : 0 .. TempOpenAttempts - 1,
     open : SUBSET {"parent", "temp"}, security : BOOLEAN, result : Results]

FileTypeOK(Values, Docs) ==
    /\ versions \in Seq([doc : Docs, calls : SUBSET Calls]) /\ versions # <<>>
    /\ hostile \in {"no", "early", "late"} /\ litter \in BOOLEAN
    /\ temp \in [exists : BOOLEAN, written : 0 .. Size, synced : BOOLEAN]
    /\ file \in FileRecord(Values)

\* What the place of an operation says of it: what it is, what it can end with,
\* what there is of its temporary file, which handles are open.
FileInOrder ==
    /\ At("idle") => file = IdleFile
    /\ At("reading") => file.op = "read"
    /\ At("openingParent") \/ At("hardening") => file.op \in {"replace", "sync"}
    /\ file.pc \in Writing => file.op = "replace"
    /\ At("done") =>
          \/ file.op = "read" /\ file.result \in {"read", "threw"}
          \/ file.op = "replace" /\ file.result \in Commits \cup {"threw", "not_committed"}
          \/ file.op = "sync" /\ file.result \in {"synced", "unsynced"}
    /\ At("done") /\ file.result \in {"committed", "synced"} => Len(versions) = 1
    /\ temp.exists => file.pc \in Writing \ {"validating", "creating"}
    /\ At("syncing") => temp.written = Size
    /\ file.pc \in {"closing", "revalidating", "renaming"} => temp.written = Size /\ temp.synced
    /\ At("renaming") => hostile # "early"
    /\ file.pc \in {"idle", "done"} => file.open = {}

\* The running replacement has taken effect.
Renamed ==
    file.op = "replace" /\ (At("hardening") \/ (At("done") /\ file.result \in Commits))

=============================================================================
