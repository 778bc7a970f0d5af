------------------------- MODULE SettingsStoreProofs -------------------------
(***************************************************************************)
(* What the settings store guarantees for any settings, calls and faults   *)
(* of the file system: every answer is true when it is given, the settings *)
(* in memory are those of the file, and it is ready only if a power        *)
(* failure can lose nothing.  And what the credential store, which works   *)
(* on the same secure file, guarantees for any passwords and calls: its    *)
(* answers are true as well, and enrolment claims the file once.           *)
(*                                                                         *)
(* The argument: an operation of the secure file changes the versions of   *)
(* the file only by its rename and by the sync of the directory.  Until    *)
(* its rename no version knows the call (EffectsComeWithRename), and from  *)
(* then on the newest one does; the outcome tells the two cases apart, and *)
(* a certain outcome comes after the sync that leaves one version.         *)
(***************************************************************************)
EXTENDS SettingsStore, CredentialStore, SequenceTheorems, TLAPS

ConstantsAreGood == SizeAssumption /\ SettingsAssumption /\ CallsAssumption

-----------------------------------------------------------------------------
(***************************************************************************)
(* Records of the secure file.                                             *)
(***************************************************************************)
\* An operation begins.
LEMMA FileBegins ==
    ASSUME SizeAssumption, NEW V, NEW op \in {"read", "replace", "sync"}, NEW v \in V \cup {None},
           NEW c \in Calls \cup {None}, Begin(op, v, c)
    PROVE  /\ file' \in FileRecord(V) /\ file'.op = op /\ file'.value = v /\ file'.call = c
           /\ file'.open = {} /\ file'.result = "none"
           /\ file'.pc = IF op = "read" THEN "reading" ELSE "openingParent"
<1>1. PICK b \in BOOLEAN : b = FALSE
  OBVIOUS
<1>2. PICK p \in Places : p = IF op = "read" THEN "reading" ELSE "openingParent"
  BY DEF Places
<1>3. file' = [pc |-> p, op |-> op, value |-> v, call |-> c, attempt |-> 0, open |-> {},
               security |-> b, result |-> "none"]
  BY <1>1, <1>2 DEF Begin, IdleFile
<1>4. 0 \in 0 .. TempOpenAttempts - 1 /\ "none" \in Results
  BY DEF SizeAssumption, Results
<1> QED
  BY <1>2, <1>3, <1>4 DEF FileRecord

\* The record of no operation.
LEMMA IdleIsRecord ==
    ASSUME SizeAssumption, NEW V
    PROVE  /\ IdleFile \in FileRecord(V) /\ IdleFile.pc = "idle" /\ IdleFile.op = None
           /\ IdleFile.call = None /\ IdleFile.open = {} /\ IdleFile.result = "none"
<1>1. 0 \in 0 .. TempOpenAttempts - 1 /\ "none" \in Results /\ "idle" \in Places
  BY DEF SizeAssumption, Results, Places
<1> QED
  BY <1>1 DEF IdleFile, FileRecord

-----------------------------------------------------------------------------
(***************************************************************************)
(* Steps of the secure file.                                               *)
(***************************************************************************)
\* The operation stays the same.
SameOperation ==
    /\ file'.op = file.op /\ file'.value = file.value /\ file'.call = file.call
    /\ file.pc # "idle" /\ file'.pc # "idle"

\* Nothing takes effect, the directory is synced, or the replacement takes effect.
Silent == versions' = versions /\ (Renamed' <=> Renamed)
Hardens == versions' = <<Newest>> /\ (Renamed' <=> Renamed)
Renames ==
    /\ file.op = "replace" /\ ~Renamed /\ Renamed' /\ hostile # "early"
    /\ versions' = Append(versions, [doc |-> file.value,
                                     calls |-> Newest.calls \cup ({file.call} \ {None})])

FileGood(V, D) ==
    FileTypeOK(V, D) /\ FileInOrder /\ (~At("idle") /\ file.op = "replace" => file.value \in V)

\* A step of the file keeps it in order, and has one of three effects.
FileEffect(V, D) ==
    /\ FileTypeOK(V, D)' /\ FileInOrder' /\ SameOperation
    /\ Silent \/ Hardens \/ Renames

\* The places an operation goes through.
LEMMA PlacesAreKnown ==
    /\ Writing \subseteq Places /\ {"idle", "reading", "openingParent", "hardening", "done"} \subseteq Places
    /\ "validating" \in Writing /\ "creating" \in Writing /\ "preparing" \in Writing
    /\ "writing" \in Writing /\ "syncing" \in Writing /\ "closing" \in Writing
    /\ "revalidating" \in Writing /\ "renaming" \in Writing /\ "failing" \in Writing
  BY DEF Writing, Places

\* An operation ends although nothing took effect, and no temporary file is there.
LEMMA ReturnIsGood ==
    ASSUME NEW V, NEW D, FileGood(V, D), NEW r \in Results \ Commits, file' = Returns(r),
           ~Renamed, file.pc # "idle", ~temp'.exists,
           \/ file.op = "read" /\ r \in {"read", "threw"}
           \/ file.op = "replace" /\ r \in {"threw", "not_committed"}
           \/ file.op = "sync" /\ r = "unsynced",
           temp' \in [exists : BOOLEAN, written : 0 .. Size, synced : BOOLEAN],
           litter' \in BOOLEAN, UNCHANGED <<versions, hostile>>
    PROVE  FileEffect(V, D)
<1>1. file \in FileRecord(V) /\ "done" \in Places /\ r \in Results
  BY PlacesAreKnown DEF FileGood, FileTypeOK
<1>2. /\ file' \in FileRecord(V) /\ file'.pc = "done" /\ file'.open = {} /\ file'.result = r
      /\ file'.op = file.op /\ file'.value = file.value /\ file'.call = file.call
  <2> DEFINE g == [file EXCEPT !.pc = "done", !.result = r, !.open = {}]
  <2>1. /\ g \in FileRecord(V) /\ g.pc = "done" /\ g.open = {} /\ g.result = r
        /\ g.op = file.op /\ g.value = file.value /\ g.call = file.call
    BY <1>1 DEF FileRecord
  <2>2. file' = g
    BY DEF Returns
  <2> HIDE DEF g
  <2> QED
    BY <2>1, <2>2
<1>3. FileTypeOK(V, D)'
  BY <1>2 DEF FileGood, FileTypeOK
<1>4. FileInOrder'
  BY <1>2 DEF FileInOrder, At, Writing, Commits
<1>5. Silent /\ SameOperation
  BY <1>2 DEF Silent, SameOperation, Renamed, At, Commits
<1> QED
  BY <1>3, <1>4, <1>5 DEF FileEffect

\* The file is read.
LEMMA ReadIsGood ==
    ASSUME NEW V, NEW D, FileGood(V, D), Read
    PROVE  FileEffect(V, D)
<1>1. /\ file.pc = "reading" /\ file.op = "read" /\ ~Renamed /\ ~temp'.exists
      /\ temp' \in [exists : BOOLEAN, written : 0 .. Size, synced : BOOLEAN]
      /\ litter' \in BOOLEAN /\ UNCHANGED <<versions, hostile>>
  BY DEF Read, FileGood, FileTypeOK, FileInOrder, At, Renamed, Writing
<1>2. PICK r \in {"read", "threw"} : file' = Returns(r)
  BY DEF Read
<1>3. r \in Results \ Commits
  BY DEF Results, Commits
<1> QED
  BY <1>1, <1>2, <1>3, ReturnIsGood

\* The parent is opened.
LEMMA OpenParentIsGood ==
    ASSUME NEW V, NEW D, FileGood(V, D), OpenParent
    PROVE  FileEffect(V, D)
<1>1. /\ file.pc = "openingParent" /\ file.op \in {"replace", "sync"} /\ ~Renamed /\ ~temp'.exists
      /\ temp' \in [exists : BOOLEAN, written : 0 .. Size, synced : BOOLEAN]
      /\ litter' \in BOOLEAN /\ UNCHANGED <<versions, hostile, temp>>
  BY DEF OpenParent, FileGood, FileTypeOK, FileInOrder, At, Renamed, Writing
<1>2. ASSUME file' = Returns(IF file.op = "sync" THEN "unsynced" ELSE "threw")
      PROVE  FileEffect(V, D)
  <2>1. PICK r \in {"unsynced", "threw"} : r = IF file.op = "sync" THEN "unsynced" ELSE "threw"
    OBVIOUS
  <2>2. r \in Results \ Commits
    BY DEF Results, Commits
  <2> QED
    BY <1>1, <1>2, <2>1, <2>2, ReturnIsGood
<1>3. ASSUME file' = [file EXCEPT !.open = {"parent"},
                                  !.pc = IF file.op = "sync" THEN "hardening" ELSE "validating"]
      PROVE  FileEffect(V, D)
  <2>1. PICK p \in Places : p = IF file.op = "sync" THEN "hardening" ELSE "validating"
    BY PlacesAreKnown
  <2>2. file \in FileRecord(V)
    BY DEF FileGood, FileTypeOK
  <2>3. /\ file' \in FileRecord(V) /\ file'.pc = p /\ file'.open = {"parent"}
        /\ file'.op = file.op /\ file'.value = file.value /\ file'.call = file.call
    BY <1>3, <2>1, <2>2 DEF FileRecord
  <2>4. FileTypeOK(V, D)'
    BY <1>1, <2>3 DEF FileGood, FileTypeOK
  <2>5. FileInOrder'
    BY <1>1, <2>1, <2>3 DEF FileInOrder, At, Writing
  <2>6. Silent /\ SameOperation
    BY <1>1, <2>1, <2>3 DEF Silent, SameOperation, Renamed, At
  <2> QED
    BY <2>4, <2>5, <2>6 DEF FileEffect
<1> QED
  BY <1>2, <1>3 DEF OpenParent

\* The operation goes on to another place of its error-free path, or to its error
\* path, before the rename.
LEMMA GoingIsGood ==
    ASSUME NEW V, NEW D, FileGood(V, D), file.pc \in Writing, file'.pc \in Writing,
           file' \in FileRecord(V), file'.op = file.op, file'.value = file.value,
           file'.call = file.call,
           temp' \in [exists : BOOLEAN, written : 0 .. Size, synced : BOOLEAN],
           UNCHANGED <<versions, hostile, litter>>,
           temp'.exists => file'.pc \in Writing \ {"validating", "creating"},
           file'.pc = "syncing" => temp'.written = Size,
           file'.pc \in {"closing", "revalidating", "renaming"} => temp'.written = Size /\ temp'.synced,
           file'.pc = "renaming" => hostile # "early"
    PROVE  FileEffect(V, D)
<1>1. FileTypeOK(V, D)'
  BY DEF FileGood, FileTypeOK
<1>2. file.op = "replace"
  BY DEF FileGood, FileInOrder
<1>3. FileInOrder'
  BY <1>2 DEF FileInOrder, At, Writing
<1>4. Silent /\ SameOperation
  BY DEF Silent, SameOperation, Renamed, At, Writing
<1> QED
  BY <1>1, <1>3, <1>4 DEF FileEffect

\* The error path begins.
LEMMA FailingIsGood ==
    ASSUME NEW V, NEW D, FileGood(V, D), file.pc \in Writing, NEW b \in BOOLEAN,
           file' = [file EXCEPT !.pc = "failing", !.security = b],
           UNCHANGED <<versions, hostile, temp, litter>>
    PROVE  FileEffect(V, D)
<1>1. file \in FileRecord(V) /\ "failing" \in Places
  BY PlacesAreKnown DEF FileGood, FileTypeOK
<1>2. /\ file' \in FileRecord(V) /\ file'.pc = "failing"
      /\ file'.op = file.op /\ file'.value = file.value /\ file'.call = file.call
  <2> DEFINE g == [file EXCEPT !.pc = "failing", !.security = b]
  <2>1. /\ g \in FileRecord(V) /\ g.pc = "failing"
        /\ g.op = file.op /\ g.value = file.value /\ g.call = file.call
    BY <1>1 DEF FileRecord
  <2>2. file' = g
    OBVIOUS
  <2> HIDE DEF g
  <2> QED
    BY <2>1, <2>2
<1>3. temp' \in [exists : BOOLEAN, written : 0 .. Size, synced : BOOLEAN]
  BY DEF FileGood, FileTypeOK
<1>4. file'.pc \in Writing \ {"validating", "creating"}
  BY <1>2, PlacesAreKnown
<1> QED
  BY <1>2, <1>3, <1>4, GoingIsGood


\* What lies at the path is looked at before anything is written.
LEMMA ValidateIsGood ==
    ASSUME NEW V, NEW D, FileGood(V, D), Validate
    PROVE  FileEffect(V, D)
<1>1. /\ file.pc = "validating" /\ file.op = "replace" /\ ~Renamed /\ ~temp'.exists
      /\ temp' \in [exists : BOOLEAN, written : 0 .. Size, synced : BOOLEAN]
      /\ litter' \in BOOLEAN /\ UNCHANGED <<versions, hostile, temp, litter>>
  BY DEF Validate, FileGood, FileTypeOK, FileInOrder, At, Renamed, Writing
<1>2. CASE file' = Returns("threw")
  <2>1. "threw" \in Results \ Commits
    BY DEF Results, Commits
  <2> QED
    BY <1>1, <1>2, <2>1, ReturnIsGood
<1>3. CASE Goto("creating")
  <2>1. file \in FileRecord(V) /\ file.pc \in Writing /\ "creating" \in Places /\ "creating" \in Writing
    BY <1>1, PlacesAreKnown DEF FileGood, FileTypeOK
  <2>2. /\ file' \in FileRecord(V) /\ file'.pc = "creating"
        /\ file'.op = file.op /\ file'.value = file.value /\ file'.call = file.call
    BY <1>3, <2>1 DEF FileRecord, Goto
  <2> QED
    BY <1>1, <2>1, <2>2, GoingIsGood
<1> QED
  BY <1>2, <1>3 DEF Validate

\* A temporary file is created, or another name is tried.
LEMMA CreateTempIsGood ==
    ASSUME NEW V, NEW D, SizeAssumption, FileGood(V, D), CreateTemp
    PROVE  FileEffect(V, D)
<1>1. /\ file.pc = "creating" /\ file \in FileRecord(V) /\ ~temp.exists
      /\ temp \in [exists : BOOLEAN, written : 0 .. Size, synced : BOOLEAN]
      /\ UNCHANGED <<versions, hostile, litter>>
  BY DEF CreateTemp, FileGood, FileTypeOK, FileInOrder, At, Writing
<1>2. file.pc \in Writing
  BY <1>1, PlacesAreKnown
<1>3. ASSUME temp' = [NoTemp EXCEPT !.exists = TRUE],
             file' = [file EXCEPT !.pc = "preparing", !.open = file.open \cup {"temp"}]
      PROVE  FileEffect(V, D)
  <2>1. "preparing" \in Places /\ "preparing" \in Writing
    BY PlacesAreKnown
  <2>2. /\ file' \in FileRecord(V) /\ file'.pc = "preparing"
        /\ file'.op = file.op /\ file'.value = file.value /\ file'.call = file.call
    BY <1>1, <1>3, <2>1 DEF FileRecord
  <2>3. PICK yes \in BOOLEAN, no \in BOOLEAN : yes = TRUE /\ no = FALSE
    OBVIOUS
  <2>4. temp' = [exists |-> yes, written |-> 0, synced |-> no]
    BY <1>3, <2>3 DEF NoTemp
  <2>5. temp' \in [exists : BOOLEAN, written : 0 .. Size, synced : BOOLEAN]
    BY <2>4 DEF SizeAssumption
  <2> QED
    BY <1>1, <1>2, <2>1, <2>2, <2>5, GoingIsGood
<1>4. ASSUME MoreNames(file.attempt), file' = [file EXCEPT !.attempt = file.attempt + 1],
             UNCHANGED temp
      PROVE  FileEffect(V, D)
  <2>1. file.attempt + 1 \in 0 .. TempOpenAttempts - 1
    BY <1>1, <1>4 DEF MoreNames, FileRecord, SizeAssumption
  <2>2. /\ file' \in FileRecord(V) /\ file'.pc = "creating"
        /\ file'.op = file.op /\ file'.value = file.value /\ file'.call = file.call
    BY <1>1, <1>4, <2>1 DEF FileRecord
  <2> QED
    BY <1>1, <1>2, <1>4, <2>2, GoingIsGood
<1>5. ASSUME Fails(FALSE), UNCHANGED temp PROVE FileEffect(V, D)
  BY <1>1, <1>2, <1>5, FailingIsGood DEF Fails
<1> QED
  BY <1>3, <1>4, <1>5 DEF CreateTemp

\* The temporary file gets its mode and is looked at.
LEMMA PrepareTempIsGood ==
    ASSUME NEW V, NEW D, FileGood(V, D), PrepareTemp
    PROVE  FileEffect(V, D)
<1>1. /\ file.pc = "preparing" /\ file \in FileRecord(V)
      /\ temp' \in [exists : BOOLEAN, written : 0 .. Size, synced : BOOLEAN]
      /\ UNCHANGED <<versions, hostile, temp, litter>>
  BY DEF PrepareTemp, FileGood, FileTypeOK, At
<1>2. file.pc \in Writing
  BY <1>1, PlacesAreKnown
<1>3. CASE Goto("writing")
  <2>1. "writing" \in Places /\ "writing" \in Writing
    BY PlacesAreKnown
  <2>2. /\ file' \in FileRecord(V) /\ file'.pc = "writing"
        /\ file'.op = file.op /\ file'.value = file.value /\ file'.call = file.call
    BY <1>1, <1>3, <2>1 DEF FileRecord, Goto
  <2> QED
    BY <1>1, <1>2, <2>1, <2>2, GoingIsGood
<1>4. CASE Fails(FALSE)
  BY <1>1, <1>2, <1>4, FailingIsGood DEF Fails
<1> QED
  BY <1>3, <1>4 DEF PrepareTemp

\* More of the value is written; the sync follows when all of it is.
LEMMA WritePartIsGood ==
    ASSUME NEW V, NEW D, SizeAssumption, FileGood(V, D), WritePart
    PROVE  FileEffect(V, D)
<1>1. /\ file.pc = "writing" /\ file \in FileRecord(V)
      /\ temp \in [exists : BOOLEAN, written : 0 .. Size, synced : BOOLEAN]
      /\ UNCHANGED <<versions, hostile, litter>>
  BY DEF WritePart, FileGood, FileTypeOK, At
<1>2. file.pc \in Writing
  BY <1>1, PlacesAreKnown
<1>3. ASSUME NEW n \in (temp.written + 1) .. Size, temp' = [temp EXCEPT !.written = n],
             IF Written(n) THEN Goto("syncing") ELSE UNCHANGED file
      PROVE  FileEffect(V, D)
  <2>1. n \in 0 .. Size
    BY <1>1, <1>3 DEF SizeAssumption
  <2>2. temp' \in [exists : BOOLEAN, written : 0 .. Size, synced : BOOLEAN] /\ temp'.written = n
    BY <1>1, <1>3, <2>1
  <2>3. "syncing" \in Places /\ "syncing" \in Writing /\ "writing" \in Writing
    BY PlacesAreKnown
  <2>4. CASE Written(n)
    <3>1. /\ file' \in FileRecord(V) /\ file'.pc = "syncing"
          /\ file'.op = file.op /\ file'.value = file.value /\ file'.call = file.call
      BY <1>1, <1>3, <2>3, <2>4 DEF FileRecord, Goto
    <3> QED
      BY <1>1, <1>2, <2>2, <2>3, <2>4, <3>1, GoingIsGood DEF Written
  <2>5. CASE ~Written(n)
    <3>1. file' = file
      BY <1>3, <2>5
    <3> QED
      BY <1>1, <1>2, <2>2, <2>3, <3>1, GoingIsGood
  <2> QED
    BY <2>4, <2>5
<1>4. CASE Fails(FALSE) /\ UNCHANGED temp
  BY <1>1, <1>2, <1>4, FailingIsGood DEF Fails
<1> QED
  BY <1>3, <1>4 DEF WritePart

\* The temporary file is synced, whole.
LEMMA SyncTempIsGood ==
    ASSUME NEW V, NEW D, FileGood(V, D), SyncTemp
    PROVE  FileEffect(V, D)
<1>1. /\ file.pc = "syncing" /\ file \in FileRecord(V) /\ temp.written = Size
      /\ temp \in [exists : BOOLEAN, written : 0 .. Size, synced : BOOLEAN]
      /\ UNCHANGED <<versions, hostile, litter>>
  BY DEF SyncTemp, FileGood, FileTypeOK, FileInOrder, At
<1>2. file.pc \in Writing
  BY <1>1, PlacesAreKnown
<1>3. ASSUME temp' = [temp EXCEPT !.synced = TRUE], Goto("closing") PROVE FileEffect(V, D)
  <2>1. "closing" \in Places /\ "closing" \in Writing
    BY PlacesAreKnown
  <2>2. /\ file' \in FileRecord(V) /\ file'.pc = "closing"
        /\ file'.op = file.op /\ file'.value = file.value /\ file'.call = file.call
    BY <1>1, <1>3, <2>1 DEF FileRecord, Goto
  <2>3. PICK yes \in BOOLEAN : yes = TRUE
    OBVIOUS
  <2>4. temp' = [temp EXCEPT !.synced = yes]
    BY <1>3, <2>3
  <2>5. /\ temp' \in [exists : BOOLEAN, written : 0 .. Size, synced : BOOLEAN]
        /\ temp'.written = Size /\ temp'.synced = yes
    BY <1>1, <2>4
  <2> QED
    BY <1>1, <1>2, <2>1, <2>2, <2>3, <2>5, GoingIsGood
<1>4. CASE Fails(FALSE) /\ UNCHANGED temp
  BY <1>1, <1>2, <1>4, FailingIsGood DEF Fails
<1> QED
  BY <1>3, <1>4 DEF SyncTemp

\* The temporary file is closed, and the path is looked at again.
LEMMA RevalidateIsGood ==
    ASSUME NEW V, NEW D, FileGood(V, D), CloseTemp \/ Revalidate
    PROVE  FileEffect(V, D)
<1>1. /\ file.pc \in {"closing", "revalidating"} /\ file \in FileRecord(V)
      /\ temp.written = Size /\ temp.synced
      /\ temp' \in [exists : BOOLEAN, written : 0 .. Size, synced : BOOLEAN]
      /\ UNCHANGED <<versions, hostile, temp, litter>>
  BY DEF CloseTemp, Revalidate, FileGood, FileTypeOK, FileInOrder, At
<1>2. /\ file.pc \in Writing /\ "revalidating" \in Places /\ "revalidating" \in Writing
      /\ "renaming" \in Places /\ "renaming" \in Writing
  BY <1>1, PlacesAreKnown
<1>3. ASSUME file' = [file EXCEPT !.pc = "revalidating", !.open = file.open \ {"temp"}]
      PROVE  FileEffect(V, D)
  <2>1. /\ file' \in FileRecord(V) /\ file'.pc = "revalidating"
        /\ file'.op = file.op /\ file'.value = file.value /\ file'.call = file.call
    BY <1>1, <1>2, <1>3 DEF FileRecord
  <2> QED
    BY <1>1, <1>2, <2>1, GoingIsGood
<1>4. ASSUME Safe, Goto("renaming") PROVE FileEffect(V, D)
  <2>1. /\ file' \in FileRecord(V) /\ file'.pc = "renaming"
        /\ file'.op = file.op /\ file'.value = file.value /\ file'.call = file.call
    BY <1>1, <1>2, <1>4 DEF FileRecord, Goto
  <2>2. hostile # "early"
    BY <1>4 DEF Safe
  <2> QED
    BY <1>1, <1>2, <2>1, <2>2, GoingIsGood
<1>5. ASSUME NEW b \in BOOLEAN, Fails(b) PROVE FileEffect(V, D)
  BY <1>1, <1>2, <1>5, FailingIsGood DEF Fails
<1>6. CASE CloseTemp
  BY <1>3, <1>5, <1>6 DEF CloseTemp
<1>7. CASE Revalidate
  BY <1>4, <1>5, <1>7 DEF Revalidate, Safe
<1> QED
  BY <1>6, <1>7


\* The last element of a sequence is one of its elements.
LEMMA LastIsElement ==
    ASSUME NEW S, NEW s \in Seq(S), s # <<>>
    PROVE  s[Len(s)] \in S
  OBVIOUS

\* The newest version is one of the versions.
LEMMA NewestIsVersion ==
    ASSUME NEW V, NEW D, FileTypeOK(V, D)
    PROVE  /\ Newest \in [doc : D, calls : SUBSET Calls]
           /\ Len(versions) \in DOMAIN versions /\ Len(versions) \in Nat \ {0}
           /\ <<Newest>> \in Seq([doc : D, calls : SUBSET Calls])
           /\ Len(<<Newest>>) = 1 /\ DOMAIN <<Newest>> = {1} /\ <<Newest>>[1] = Newest
<1>1. versions \in Seq([doc : D, calls : SUBSET Calls]) /\ versions # <<>>
  BY DEF FileTypeOK
<1>2. Len(versions) \in DOMAIN versions /\ Len(versions) \in Nat \ {0}
  BY <1>1
<1>3. Newest \in [doc : D, calls : SUBSET Calls]
  BY <1>1, LastIsElement DEF Newest
<1> QED
  BY <1>2, <1>3

\* A version joins the others as the newest.
LEMMA AppendVersion ==
    ASSUME NEW S, NEW s \in Seq(S), NEW e \in S
    PROVE  /\ Append(s, e) \in Seq(S) /\ Append(s, e) # <<>> /\ Len(Append(s, e)) = Len(s) + 1
           /\ DOMAIN s = 1 .. Len(s) /\ DOMAIN Append(s, e) = 1 .. Len(s) + 1
           /\ Append(s, e)[Len(s) + 1] = e /\ \A i \in 1 .. Len(s) : Append(s, e)[i] = s[i]
  OBVIOUS

\* The rename makes the whole value the newest version.
LEMMA RenameIsGood ==
    ASSUME NEW V, NEW D, V \subseteq D, SizeAssumption, FileGood(V, D), Rename
    PROVE  FileEffect(V, D)
<1>1. /\ file.pc = "renaming" /\ file \in FileRecord(V) /\ file.op = "replace" /\ file.value \in V
      /\ temp.written = Size /\ temp.synced /\ hostile # "early" /\ UNCHANGED litter
      /\ temp \in [exists : BOOLEAN, written : 0 .. Size, synced : BOOLEAN]
  BY DEF Rename, FileGood, FileTypeOK, FileInOrder, At, Writing
<1>2. /\ file.pc \in Writing /\ "hardening" \in Places
  BY <1>1, PlacesAreKnown
<1>3. ASSUME versions' = Append(versions, Contents), hostile' = "no", temp' = NoTemp,
             Goto("hardening")
      PROVE  FileEffect(V, D)
  <2>1. /\ file' \in FileRecord(V) /\ file'.pc = "hardening"
        /\ file'.op = file.op /\ file'.value = file.value /\ file'.call = file.call
    BY <1>1, <1>2, <1>3 DEF FileRecord, Goto
  <2>2. Contents = [doc |-> file.value, calls |-> Newest.calls \cup ({file.call} \ {None})]
    BY <1>1 DEF Contents
  <2>3. Newest.calls \subseteq Calls /\ file.call \in Calls \cup {None}
    BY <1>1, NewestIsVersion DEF FileGood, FileRecord
  <2>4. Contents \in [doc : D, calls : SUBSET Calls]
    BY <1>1, <2>2, <2>3
  <2>5. versions' \in Seq([doc : D, calls : SUBSET Calls]) /\ versions' # <<>>
    BY <1>3, <2>4, AppendVersion DEF FileGood, FileTypeOK
  <2>6. PICK no \in BOOLEAN : no = FALSE
    OBVIOUS
  <2>7. temp' = [exists |-> no, written |-> 0, synced |-> no]
    BY <1>3, <2>6 DEF NoTemp
  <2>8. temp' \in [exists : BOOLEAN, written : 0 .. Size, synced : BOOLEAN] /\ temp'.exists = no
    BY <2>7 DEF SizeAssumption
  <2>9. FileTypeOK(V, D)'
    BY <1>1, <1>3, <2>1, <2>5, <2>8 DEF FileGood, FileTypeOK
  <2>10. FileInOrder'
    BY <1>1, <2>1, <2>6, <2>8 DEF FileInOrder, At, Writing
  <2>11. ~Renamed /\ Renamed' /\ SameOperation
    BY <1>1, <2>1 DEF Renamed, At, SameOperation
  <2>12. Renames
    BY <1>1, <1>3, <2>2, <2>11 DEF Renames
  <2> QED
    BY <2>9, <2>10, <2>11, <2>12 DEF FileEffect
<1>4. CASE Fails(FALSE) /\ UNCHANGED <<versions, hostile, temp>>
  BY <1>1, <1>2, <1>4, FailingIsGood DEF Fails
<1> QED
  BY <1>3, <1>4 DEF Rename

\* The error path removes the temporary file, or says that it could not.
LEMMA CleanupIsGood ==
    ASSUME NEW V, NEW D, SizeAssumption, FileGood(V, D), Cleanup
    PROVE  FileEffect(V, D)
<1>1. /\ file.pc = "failing" /\ file.op = "replace" /\ ~Renamed /\ litter \in BOOLEAN
      /\ temp' = NoTemp /\ UNCHANGED <<versions, hostile>>
      /\ temp \in [exists : BOOLEAN, written : 0 .. Size, synced : BOOLEAN]
  BY DEF Cleanup, FileGood, FileTypeOK, FileInOrder, At, Renamed, Writing
<1>2. PICK removed \in BOOLEAN, closed \in BOOLEAN :
         /\ litter' = (litter \/ (temp.exists /\ ~removed))
         /\ file' = Returns(Outcome(closed /\ (temp.exists => removed)))
  BY DEF Cleanup
<1>3. PICK r \in {"threw", "not_committed"} : r = Outcome(closed /\ (temp.exists => removed))
  BY DEF Outcome
<1>4. r \in Results \ Commits
  BY DEF Results, Commits
<1>5. PICK no \in BOOLEAN : no = FALSE
  OBVIOUS
<1>6. temp' = [exists |-> no, written |-> 0, synced |-> no]
  BY <1>1, <1>5 DEF NoTemp
<1>7. temp' \in [exists : BOOLEAN, written : 0 .. Size, synced : BOOLEAN] /\ temp'.exists = no
  BY <1>6 DEF SizeAssumption
<1>8. litter' \in BOOLEAN
  BY <1>1, <1>2
<1>9. file' = Returns(r)
  BY <1>2, <1>3
<1> QED
  BY <1>1, <1>4, <1>5, <1>7, <1>8, <1>9, ReturnIsGood

\* The sync of the directory leaves the newest version only.
LEMMA SyncParentIsGood ==
    ASSUME NEW V, NEW D, FileGood(V, D), SyncParent
    PROVE  FileEffect(V, D)
<1>1. /\ file.pc = "hardening" /\ file \in FileRecord(V) /\ file.op \in {"replace", "sync"}
      /\ ~temp.exists /\ UNCHANGED <<hostile, temp, litter>> /\ "done" \in Places
  BY PlacesAreKnown DEF SyncParent, FileGood, FileTypeOK, FileInOrder, At, Writing
<1>2. PICK synced \in BOOLEAN, closed \in BOOLEAN :
         /\ versions' = IF synced THEN <<Newest>> ELSE versions
         /\ file' = Returns(Hardened(synced /\ closed))
  BY DEF SyncParent
<1>3. PICK r \in {"synced", "unsynced", "committed", "committed_durability_uncertain"} :
         r = Hardened(synced /\ closed)
  BY DEF Hardened
<1>4. /\ file.op = "replace" => r \in Commits
      /\ file.op = "sync" => r \in {"synced", "unsynced"}
      /\ r \in {"committed", "synced"} => synced
  BY <1>3 DEF Hardened, Commits
<1>5. r \in Results
  BY DEF Results, Commits
<1>6. /\ file' \in FileRecord(V) /\ file'.pc = "done" /\ file'.open = {} /\ file'.result = r
      /\ file'.op = file.op /\ file'.value = file.value /\ file'.call = file.call
  <2> DEFINE g == [file EXCEPT !.pc = "done", !.result = r, !.open = {}]
  <2>1. /\ g \in FileRecord(V) /\ g.pc = "done" /\ g.open = {} /\ g.result = r
        /\ g.op = file.op /\ g.value = file.value /\ g.call = file.call
    BY <1>1, <1>5 DEF FileRecord
  <2>2. file' = g
    BY <1>2, <1>3 DEF Returns
  <2> HIDE DEF g
  <2> QED
    BY <2>1, <2>2
<1>7. versions' \in Seq([doc : D, calls : SUBSET Calls]) /\ versions' # <<>>
      /\ (synced => Len(versions') = 1)
  BY <1>2, NewestIsVersion DEF FileGood, FileTypeOK
<1>8. FileTypeOK(V, D)'
  BY <1>1, <1>6, <1>7 DEF FileGood, FileTypeOK
<1>9. FileInOrder'
  BY <1>1, <1>4, <1>6, <1>7 DEF FileInOrder, At, Writing
<1>10. (Renamed' <=> Renamed) /\ SameOperation
  BY <1>1, <1>4, <1>6 DEF Renamed, At, SameOperation, Commits
<1>11. Silent \/ Hardens
  BY <1>2, <1>10 DEF Silent, Hardens
<1> QED
  BY <1>8, <1>9, <1>10, <1>11 DEF FileEffect

\* Every step of the secure file.
LEMMA FileStepIsGood ==
    ASSUME NEW V, NEW D, V \subseteq D, SizeAssumption, FileGood(V, D), FileStep
    PROVE  FileEffect(V, D)
  BY ReadIsGood, OpenParentIsGood, ValidateIsGood, CreateTempIsGood, PrepareTempIsGood,
     WritePartIsGood, SyncTempIsGood, RevalidateIsGood, RenameIsGood, CleanupIsGood,
     SyncParentIsGood DEF FileStep


-----------------------------------------------------------------------------
(***************************************************************************)
(* The queue.                                                              *)
(***************************************************************************)
Everyone == Calls \cup Retries
Stati == {"unused", "queued", "durable", "uncertain", "failed", "synced", "unsynced", "lost"}
QueueTypes ==
    /\ queue \in Seq(Everyone) /\ status \in [Everyone -> Stati]
    /\ wanted \in [Calls -> Settings \cup {None}]

\* A call joins the end of the queue.
LEMMA QueueJoins ==
    ASSUME QueueTypes, QueueIsTheWaiting, NEW c \in Everyone, status[c] = "unused",
           queue' = Append(queue, c), status' = [status EXCEPT ![c] = "queued"],
           wanted' \in [Calls -> Settings \cup {None}],
           \A d \in Calls \ {c} : wanted'[d] = wanted[d],
           c \in Calls => wanted'[c] \in Settings
    PROVE  /\ QueueTypes' /\ QueueIsTheWaiting' /\ queue' # <<>>
           /\ queue # <<>> => Head(queue') = Head(queue)
<1>1. /\ Append(queue, c) \in Seq(Everyone) /\ Append(queue, c) # <<>>
      /\ DOMAIN queue = 1 .. Len(queue) /\ DOMAIN Append(queue, c) = 1 .. Len(queue) + 1
      /\ Append(queue, c)[Len(queue) + 1] = c
      /\ \A i \in 1 .. Len(queue) : Append(queue, c)[i] = queue[i]
  BY AppendVersion DEF QueueTypes
<1>2. QueueTypes'
  BY <1>1 DEF QueueTypes, Stati
<1>3. Len(queue) \in Nat
  BY DEF QueueTypes
<1>4. \A i \in DOMAIN queue : queue[i] # c /\ queue[i] \in Everyone
  BY DEF QueueIsTheWaiting, QueueTypes
<1>5. status'[c] = "queued" /\ \A d \in Everyone \ {c} : status'[d] = status[d]
  BY DEF QueueTypes
<1>6. \A i, j \in DOMAIN queue' : queue'[i] = queue'[j] => i = j
  BY <1>1, <1>3, <1>4 DEF QueueIsTheWaiting
<1>7. \A i \in DOMAIN queue' : status'[queue'[i]] = "queued"
  BY <1>1, <1>3, <1>4, <1>5 DEF QueueIsTheWaiting
<1>8. ASSUME NEW d \in Everyone, status'[d] = "queued" PROVE \E i \in DOMAIN queue' : queue'[i] = d
  <2>1. CASE d = c
    BY <1>1, <1>3, <2>1
  <2>2. CASE d # c
    <3>1. PICK i \in DOMAIN queue : queue[i] = d
      BY <1>5, <1>8, <2>2 DEF QueueIsTheWaiting, Everyone
    <3> QED
      BY <1>1, <1>3, <3>1
  <2> QED
    BY <2>1, <2>2
<1>9. \A d \in Calls : status'[d] = "queued" => wanted'[d] \in Settings
  BY <1>5 DEF QueueIsTheWaiting, Everyone
<1>10. QueueIsTheWaiting'
  BY <1>6, <1>7, <1>8, <1>9 DEF QueueIsTheWaiting, Everyone
<1>11. queue # <<>> => Head(queue') = Head(queue)
  BY <1>1, <1>3 DEF QueueTypes
<1> QED
  BY <1>1, <1>2, <1>10, <1>11

\* The head of a queue and what is left of it.
LEMMA TailOfQueue ==
    ASSUME NEW S, NEW s \in Seq(S), s # <<>>
    PROVE  /\ Head(s) \in S /\ Head(s) = s[1] /\ 1 \in DOMAIN s /\ Tail(s) \in Seq(S)
           /\ DOMAIN s = 1 .. Len(s) /\ DOMAIN Tail(s) = 1 .. Len(s) - 1 /\ Len(s) \in Nat \ {0}
           /\ \A i \in 1 .. Len(s) - 1 : Tail(s)[i] = s[i + 1]
  OBVIOUS

\* The head of the queue is answered and leaves.
LEMMA QueueLeaves ==
    ASSUME QueueTypes, QueueIsTheWaiting, queue # <<>>, NEW a \in Stati \ {"queued"},
           queue' = Tail(queue), status' = [status EXCEPT ![Head(queue)] = a], UNCHANGED wanted
    PROVE  QueueTypes' /\ QueueIsTheWaiting'
<1>1. /\ Head(queue) \in Everyone /\ Head(queue) = queue[1] /\ 1 \in DOMAIN queue
      /\ Tail(queue) \in Seq(Everyone) /\ DOMAIN queue = 1 .. Len(queue)
      /\ DOMAIN Tail(queue) = 1 .. Len(queue) - 1 /\ Len(queue) \in Nat \ {0}
      /\ \A i \in 1 .. Len(queue) - 1 : Tail(queue)[i] = queue[i + 1]
  BY TailOfQueue DEF QueueTypes
<1>2. PICK c \in Everyone : c = Head(queue)
  BY <1>1
<1>3. status'[c] = a /\ \A d \in Everyone \ {c} : status'[d] = status[d]
  BY <1>2 DEF QueueTypes
<1>4. QueueTypes'
  BY <1>1, <1>2 DEF QueueTypes
<1>5. ASSUME NEW i \in DOMAIN queue'
      PROVE  i + 1 \in DOMAIN queue /\ queue'[i] = queue[i + 1] /\ queue'[i] # c
             /\ queue'[i] \in Everyone /\ i \in Nat
  <2>1. i + 1 \in DOMAIN queue /\ queue'[i] = queue[i + 1] /\ i \in Nat /\ i + 1 # 1
    BY <1>1
  <2>2. queue[i + 1] \in Everyone
    BY <2>1 DEF QueueTypes
  <2>3. queue[i + 1] # queue[1]
    BY <1>1, <2>1 DEF QueueIsTheWaiting
  <2> QED
    BY <1>1, <1>2, <2>1, <2>2, <2>3
<1>6. \A i, j \in DOMAIN queue' : queue'[i] = queue'[j] => i = j
  <2>1. SUFFICES ASSUME NEW i \in DOMAIN queue', NEW j \in DOMAIN queue', queue'[i] = queue'[j]
                 PROVE  i = j
    OBVIOUS
  <2>2. queue[i + 1] = queue[j + 1] /\ i + 1 \in DOMAIN queue /\ j + 1 \in DOMAIN queue
        /\ i \in Nat /\ j \in Nat
    BY <1>5, <2>1
  <2>3. i + 1 = j + 1
    BY <2>2 DEF QueueIsTheWaiting
  <2> QED
    BY <2>2, <2>3
<1>7. \A i \in DOMAIN queue' : status'[queue'[i]] = "queued"
  BY <1>3, <1>5 DEF QueueIsTheWaiting
<1>8. ASSUME NEW d \in Everyone, status'[d] = "queued" PROVE \E i \in DOMAIN queue' : queue'[i] = d
  <2>1. d # c /\ status[d] = "queued"
    BY <1>3, <1>8
  <2>2. PICK j \in DOMAIN queue : queue[j] = d
    BY <2>1 DEF QueueIsTheWaiting, Everyone
  <2>3. j # 1 /\ j - 1 \in DOMAIN queue' /\ (j - 1) + 1 = j
    BY <1>1, <1>2, <2>1, <2>2
  <2>4. queue'[j - 1] = d
    BY <1>5, <2>2, <2>3
  <2> QED
    BY <2>3, <2>4
<1>9. \A d \in Calls : status'[d] = "queued" => wanted'[d] \in Settings
  <2>1. SUFFICES ASSUME NEW d \in Calls, status'[d] = "queued" PROVE wanted[d] \in Settings
    OBVIOUS
  <2>2. d \in Everyone /\ status[d] = "queued"
    BY <1>3, <2>1 DEF Everyone
  <2> QED
    BY <2>2 DEF QueueIsTheWaiting
<1> QED
  BY <1>4, <1>6, <1>7, <1>8, <1>9 DEF QueueIsTheWaiting, Everyone

\* The process ends and takes the queue with it.
LEMMA QueueIsLost ==
    ASSUME QueueTypes, queue' = <<>>, UNCHANGED wanted,
           status' = [c \in Everyone |-> IF status[c] = "queued" THEN "lost" ELSE status[c]]
    PROVE  /\ QueueTypes' /\ QueueIsTheWaiting'
           /\ \A c \in Everyone : status'[c] # "queued"
           /\ \A c \in Everyone : status'[c] = "unused" => status[c] = "unused"
<1>1. QueueTypes'
  BY DEF QueueTypes, Stati
<1>2. \A c \in Everyone : status'[c] # "queued" /\ (status'[c] = "unused" => status[c] = "unused")
  OBVIOUS
<1>3. QueueIsTheWaiting'
  BY <1>2 DEF QueueIsTheWaiting, Everyone
<1> QED
  BY <1>1, <1>2, <1>3


-----------------------------------------------------------------------------
(***************************************************************************)
(* The store.                                                              *)
(***************************************************************************)
StoreTypes ==
    /\ phase \in {"down", "starting", "up"} /\ (phase = "up") = (current \in Settings)
    /\ current \in Settings \cup {None} /\ ready \in BOOLEAN

\* The parts of the type invariant.
LEMMA TypesApart ==
    /\ TypeOK <=> FileTypeOK(Settings, Docs) /\ StoreTypes /\ QueueTypes
    /\ Settings \subseteq Docs
  BY DEF TypeOK, StoreTypes, QueueTypes, Everyone, Stati, Docs

\* What the invariant says of the file.
LEMMA StoreFileIsGood ==
    ASSUME IInv
    PROVE  /\ FileGood(Settings, Docs) /\ QueueTypes /\ StoreTypes
           /\ Newest \in [doc : Docs, calls : SUBSET Calls]
           /\ Len(versions) \in DOMAIN versions /\ Len(versions) \in Nat \ {0}
<1>1. FileTypeOK(Settings, Docs) /\ QueueTypes /\ StoreTypes
  BY TypesApart DEF IInv
<1>2. FileGood(Settings, Docs)
  BY <1>1 DEF IInv, FileGood, OperationHasOwner
<1> QED
  BY <1>1, <1>2, NewestIsVersion

\* The invariant from its parts, after a step.
LEMMA Together ==
    ASSUME FileTypeOK(Settings, Docs)', FileInOrder', StoreTypes', QueueTypes', OperationHasOwner',
           QueueIsTheWaiting', EffectsComeWithRename', MemoryFollowsFile'
    PROVE  IInv'
<1>1. TypeOK'
  BY TypesApart DEF TypeOK, StoreTypes, QueueTypes, Everyone, Stati
<1> QED
  BY <1>1 DEF IInv

\* The running file operation takes a step.
LEMMA FileStepIsSafe ==
    ASSUME ConstantsAreGood, IInv, FileStep, UNCHANGED storeVars
    PROVE  IInv'
<1>1. FileEffect(Settings, Docs)
  BY StoreFileIsGood, FileStepIsGood, TypesApart DEF ConstantsAreGood
<1>2. /\ FileTypeOK(Settings, Docs)' /\ FileInOrder' /\ SameOperation
      /\ Silent \/ Hardens \/ Renames
  BY <1>1 DEF FileEffect
<1>3. StoreTypes' /\ QueueTypes' /\ QueueIsTheWaiting'
  BY StoreFileIsGood DEF IInv, StoreTypes, QueueTypes, QueueIsTheWaiting, storeVars
<1>4. OperationHasOwner'
  BY <1>2 DEF IInv, OperationHasOwner, SameOperation, At, storeVars
<1>5. CASE Silent
  <2>1. Newest' = Newest
    BY <1>5 DEF Silent, Newest
  <2>2. EffectsComeWithRename' /\ MemoryFollowsFile'
    BY <1>2, <1>5, <2>1 DEF IInv, EffectsComeWithRename, MemoryFollowsFile, Silent, SameOperation,
                            storeVars
  <2> QED
    BY <1>2, <1>3, <1>4, <2>2, Together
<1>6. CASE Hardens
  <2>1. Len(versions) \in DOMAIN versions
    BY StoreFileIsGood
  <2>2. /\ Len(<<Newest>>) = 1 /\ DOMAIN <<Newest>> = {1} /\ <<Newest>>[1] = Newest
    OBVIOUS
  <2>3. Newest' = Newest /\ DOMAIN versions' = {1} /\ versions'[1] = versions[Len(versions)]
    BY <1>6, <2>2 DEF Hardens, Newest
  <2>4. EffectsComeWithRename'
    BY <1>2, <1>6, <2>1, <2>3 DEF IInv, EffectsComeWithRename, Hardens, SameOperation, storeVars
  <2>5. MemoryFollowsFile'
    BY <1>6, <2>3 DEF IInv, MemoryFollowsFile, Hardens, storeVars
  <2> QED
    BY <1>2, <1>3, <1>4, <2>4, <2>5, Together
<1>7. CASE Renames
  <2> DEFINE e == [doc |-> file.value, calls |-> Newest.calls \cup ({file.call} \ {None})]
             E == [doc : Docs, calls : SUBSET Calls]
  <2>1. /\ ~Renamed /\ Renamed' /\ versions' = Append(versions, e) /\ file.op = "replace"
    BY <1>7 DEF Renames
  <2>2. /\ versions \in Seq(E) /\ Newest \in E /\ Len(versions) \in DOMAIN versions
        /\ file.value \in Settings /\ file.call \in Calls \cup {None}
    BY <1>2, StoreFileIsGood, <2>1 DEF FileGood, FileTypeOK, FileRecord, SameOperation, At
  <2>3. Settings \subseteq Docs
    BY TypesApart
  <2>4. e \in E /\ e.doc = file.value /\ e.calls = Newest.calls \cup ({file.call} \ {None})
    BY <2>2, <2>3
  <2> HIDE DEF e, E
  <2>5. /\ Len(Append(versions, e)) = Len(versions) + 1 /\ DOMAIN versions = 1 .. Len(versions)
        /\ DOMAIN Append(versions, e) = 1 .. Len(versions) + 1 /\ Len(versions) \in Nat
        /\ Append(versions, e)[Len(versions) + 1] = e
        /\ \A i \in 1 .. Len(versions) : Append(versions, e)[i] = versions[i]
    BY <2>2, <2>4, AppendVersion
  <2>6. Newest' = e
    BY <2>1, <2>5 DEF Newest
  <2>7. file'.call = file.call /\ file'.value = file.value /\ UNCHANGED <<status, phase, listener, current>>
    BY <1>2 DEF SameOperation, storeVars
  <2>8. ASSUME NEW c \in Calls, status[c] \in {"unused", "queued"}, file.call # c,
               NEW i \in DOMAIN versions'
        PROVE  c \notin versions'[i].calls
    <3>1. \A j \in DOMAIN versions : c \notin versions[j].calls
      BY <2>1, <2>8 DEF IInv, EffectsComeWithRename
    <3>2. CASE i = Len(versions) + 1
      <4>1. c \notin Newest.calls
        BY <2>2, <3>1 DEF Newest
      <4> QED
        BY <2>1, <2>4, <2>5, <2>8, <3>2, <4>1
    <3>3. CASE i # Len(versions) + 1
      BY <2>1, <2>5, <3>1, <3>3
    <3> QED
      BY <3>2, <3>3
  <2>9. EffectsComeWithRename'
    BY <2>1, <2>2, <2>4, <2>6, <2>7, <2>8 DEF EffectsComeWithRename
  <2>10. MemoryFollowsFile'
    BY <2>1, <2>7 DEF IInv, MemoryFollowsFile
  <2> QED
    BY <1>2, <1>3, <1>4, <2>9, <2>10, Together
<1> QED
  BY <1>2, <1>5, <1>6, <1>7


\* An operation that has ended, or none, has left no temporary file.
LEMMA NoTempAtRest ==
    ASSUME IInv, At("idle") \/ At("done")
    PROVE  ~temp.exists
  BY DEF IInv, FileInOrder, At, Writing

\* Nothing runs, or something begins: the file is in order and nothing is renamed.
LEMMA FreshFile ==
    ASSUME IInv, file' \in FileRecord(Settings), UNCHANGED <<versions, hostile, temp, litter>>,
           ~temp.exists, file'.open = {},
           \/ file' = IdleFile /\ file'.pc = "idle"
           \/ file'.pc = "reading" /\ file'.op = "read"
           \/ file'.pc = "openingParent" /\ file'.op \in {"replace", "sync"}
    PROVE  FileTypeOK(Settings, Docs)' /\ FileInOrder' /\ ~Renamed' /\ Newest' = Newest
<1>1. FileTypeOK(Settings, Docs)'
  BY StoreFileIsGood DEF FileGood, FileTypeOK
<1>2. FileInOrder'
  BY DEF FileInOrder, At, Writing
<1>3. ~Renamed' /\ Newest' = Newest
  BY DEF Renamed, At, Newest
<1> QED
  BY <1>1, <1>2, <1>3

\* No version knows a call that nobody has made.
LEMMA UnusedIsUnknown ==
    ASSUME ConstantsAreGood, IInv, NEW c \in Calls, status[c] = "unused"
    PROVE  \A i \in DOMAIN versions : c \notin versions[i].calls
<1>1. ~(Renamed /\ file.call = c)
  <2>1. SUFFICES ASSUME Renamed, file.call = c PROVE FALSE
    OBVIOUS
  <2>2. ~At("idle") /\ c # None
    BY <2>1 DEF Renamed, At, ConstantsAreGood, CallsAssumption
  <2>3. phase = "up" /\ queue # <<>> /\ Head(queue) = c
    BY <2>1, <2>2, StoreFileIsGood DEF IInv, OperationHasOwner, StoreTypes
  <2>4. Head(queue) = queue[1] /\ 1 \in DOMAIN queue
    BY <2>3, StoreFileIsGood, TailOfQueue DEF QueueTypes
  <2> QED
    BY <2>3, <2>4 DEF IInv, QueueIsTheWaiting
<1> QED
  BY <1>1 DEF IInv, EffectsComeWithRename

\* No version knows a call, made or not, that is not the renamed one.
LEMMA OthersAreUnknown ==
    ASSUME IInv, ~Renamed \/ file.call = None \/ file.call \notin Calls,
           NEW c \in Calls, status[c] \in {"unused", "queued"}, ConstantsAreGood
    PROVE  \A i \in DOMAIN versions : c \notin versions[i].calls
  BY DEF IInv, EffectsComeWithRename, ConstantsAreGood, CallsAssumption

\* A start begins with reading the file.
LEMMA StartIsSafe ==
    ASSUME ConstantsAreGood, IInv, Start
    PROVE  IInv'
<1>1. /\ phase = "down" /\ phase' = "starting" /\ Begin("read", None, None) /\ At("idle")
      /\ UNCHANGED <<versions, hostile, temp, litter, current, ready, queue, wanted, status, listener>>
  BY DEF Start, IInv, OperationHasOwner
<1>2. /\ file' \in FileRecord(Settings) /\ file'.op = "read" /\ file'.call = None
      /\ file'.open = {} /\ file'.pc = "reading"
  BY <1>1, FileBegins DEF ConstantsAreGood
<1>3. FileTypeOK(Settings, Docs)' /\ FileInOrder' /\ ~Renamed' /\ Newest' = Newest
  BY <1>1, <1>2, NoTempAtRest, FreshFile
<1>4. StoreTypes' /\ QueueTypes' /\ QueueIsTheWaiting'
  BY <1>1, StoreFileIsGood DEF IInv, StoreTypes, QueueTypes, QueueIsTheWaiting
<1>5. OperationHasOwner'
  BY <1>1, <1>2 DEF IInv, OperationHasOwner, At
<1>6. ~Renamed
  BY <1>1 DEF Renamed, At
<1>7. EffectsComeWithRename' /\ MemoryFollowsFile'
  BY <1>1, <1>3, <1>6, OthersAreUnknown DEF EffectsComeWithRename, MemoryFollowsFile
<1> QED
  BY <1>3, <1>4, <1>5, <1>7, Together

\* The store takes settings over and is up.
LEMMA OpenedIsSafe ==
    ASSUME ConstantsAreGood, IInv, phase = "starting", At("done"), NEW v \in Settings,
           NEW b \in BOOLEAN, Opened(v, b), v = Newest.doc,
           UNCHANGED <<versions, hostile, temp, litter, queue, wanted, status>>
    PROVE  IInv'
<1>1. phase' = "up" /\ current' = v /\ ready' = b /\ listener' = v /\ file' = IdleFile
  BY DEF Opened
<1>2. /\ file' \in FileRecord(Settings) /\ file'.op = None /\ file'.call = None
      /\ file'.open = {} /\ file'.pc = "idle"
  BY <1>1, IdleIsRecord DEF ConstantsAreGood
<1>3. FileTypeOK(Settings, Docs)' /\ FileInOrder' /\ ~Renamed' /\ Newest' = Newest
  BY <1>1, <1>2, NoTempAtRest, FreshFile
<1>4. StoreTypes' /\ QueueTypes' /\ QueueIsTheWaiting'
  BY <1>1, StoreFileIsGood DEF IInv, StoreTypes, QueueTypes, QueueIsTheWaiting
<1>5. file.call = None /\ queue = <<>>
  BY DEF IInv, OperationHasOwner
<1>6. OperationHasOwner'
  BY <1>1, <1>2, <1>5 DEF OperationHasOwner, At, IdleFile
<1>7. EffectsComeWithRename' /\ MemoryFollowsFile'
  BY <1>1, <1>3, <1>5, OthersAreUnknown DEF EffectsComeWithRename, MemoryFollowsFile
<1> QED
  BY <1>3, <1>4, <1>6, <1>7, Together


\* The file was read: its settings are taken over, or the file is written anew.
LEMMA LoadedIsSafe ==
    ASSUME ConstantsAreGood, IInv, Loaded
    PROVE  IInv'
<1>1. /\ phase = "starting" /\ At("done") /\ file.result = "read"
      /\ UNCHANGED <<versions, hostile, temp, litter, queue, wanted, status>>
  BY DEF Loaded
<1>2. ASSUME Newest.doc \in Settings, Opened(Newest.doc, TRUE) PROVE IInv'
  <2>1. PICK yes \in BOOLEAN : yes = TRUE
    OBVIOUS
  <2>2. PICK v \in Settings : v = Newest.doc
    BY <1>2
  <2>3. Opened(v, yes)
    BY <1>2, <2>1, <2>2 DEF Opened
  <2> QED
    BY <1>1, <2>2, <2>3, OpenedIsSafe
<1>3. ASSUME NEW v \in Settings, Begin("replace", v, None), UNCHANGED <<phase, current, ready, listener>>
      PROVE  IInv'
  <2>1. /\ file' \in FileRecord(Settings) /\ file'.op = "replace" /\ file'.call = None
        /\ file'.value = v /\ file'.open = {} /\ file'.pc = "openingParent"
    BY <1>3, FileBegins DEF ConstantsAreGood
  <2>2. FileTypeOK(Settings, Docs)' /\ FileInOrder' /\ ~Renamed' /\ Newest' = Newest
    BY <1>1, <2>1, NoTempAtRest, FreshFile
  <2>3. StoreTypes' /\ QueueTypes' /\ QueueIsTheWaiting'
    BY <1>1, <1>3, StoreFileIsGood DEF IInv, StoreTypes, QueueTypes, QueueIsTheWaiting
  <2>4. OperationHasOwner'
    BY <1>1, <1>3, <2>1 DEF IInv, OperationHasOwner, At
  <2>5. file.call = None
    BY <1>1 DEF IInv, OperationHasOwner
  <2>6. EffectsComeWithRename' /\ MemoryFollowsFile'
    BY <1>1, <1>3, <2>2, <2>5, OthersAreUnknown DEF EffectsComeWithRename, MemoryFollowsFile
  <2> QED
    BY <2>2, <2>3, <2>4, <2>6, Together
<1>4. Migrated \in Settings /\ Defaults \in Settings
  BY DEF ConstantsAreGood, SettingsAssumption
<1> QED
  BY <1>2, <1>3, <1>4 DEF Loaded

\* A committed replacement has ended: the newest version is its value.
LEMMA CommittedIsNewest ==
    ASSUME IInv, At("done"), Committed
    PROVE  /\ Renamed /\ file.op = "replace" /\ Newest.doc = file.value /\ file.value \in Settings
           /\ file.call # None => file.call \in Newest.calls
           /\ file.result = "committed" => Len(versions) = 1
<1>1. file.op = "replace" /\ file.result \in Commits
  BY DEF IInv, FileInOrder, Committed, Commits, At
<1>2. Renamed
  BY <1>1 DEF Renamed
<1>3. Newest.doc = file.value /\ (file.call # None => file.call \in Newest.calls)
  BY <1>2 DEF IInv, EffectsComeWithRename
<1>4. file.value \in Settings
  BY <1>1 DEF IInv, OperationHasOwner, At
<1>5. file.result = "committed" => Len(versions) = 1
  BY DEF IInv, FileInOrder
<1> QED
  BY <1>1, <1>2, <1>3, <1>4, <1>5

\* The file that the start wrote is there.
LEMMA CreatedIsSafe ==
    ASSUME ConstantsAreGood, IInv, Created
    PROVE  IInv'
<1>1. /\ phase = "starting" /\ At("done") /\ Committed
      /\ Opened(file.value, DurableResult(file.result))
      /\ UNCHANGED <<versions, hostile, temp, litter, queue, wanted, status>>
  BY DEF Created
<1>2. Newest.doc = file.value /\ file.value \in Settings
  BY <1>1, CommittedIsNewest
<1>3. PICK v \in Settings : v = file.value
  BY <1>2
<1>4. PICK b \in BOOLEAN : b = DurableResult(file.result)
  BY DEF DurableResult
<1>5. Opened(v, b)
  BY <1>1, <1>3, <1>4 DEF Opened
<1> QED
  BY <1>1, <1>2, <1>3, <1>5, OpenedIsSafe

\* The start fails; the next one begins from the file.
LEMMA StartFailsIsSafe ==
    ASSUME ConstantsAreGood, IInv, StartFails
    PROVE  IInv'
<1>1. /\ phase = "starting" /\ At("done") /\ phase' = "down" /\ file' = IdleFile
      /\ UNCHANGED <<versions, hostile, temp, litter, current, ready, queue, wanted, status, listener>>
  BY DEF StartFails
<1>2. /\ file' \in FileRecord(Settings) /\ file'.op = None /\ file'.call = None
      /\ file'.open = {} /\ file'.pc = "idle"
  BY <1>1, IdleIsRecord DEF ConstantsAreGood
<1>3. FileTypeOK(Settings, Docs)' /\ FileInOrder' /\ ~Renamed' /\ Newest' = Newest
  BY <1>1, <1>2, NoTempAtRest, FreshFile
<1>4. StoreTypes' /\ QueueTypes' /\ QueueIsTheWaiting'
  BY <1>1, StoreFileIsGood DEF IInv, StoreTypes, QueueTypes, QueueIsTheWaiting
<1>5. file.call = None /\ queue = <<>>
  BY <1>1 DEF IInv, OperationHasOwner
<1>6. OperationHasOwner'
  BY <1>1, <1>2, <1>5 DEF OperationHasOwner, At
<1>7. EffectsComeWithRename' /\ MemoryFollowsFile'
  BY <1>1, <1>3, <1>5, OthersAreUnknown DEF EffectsComeWithRename, MemoryFollowsFile
<1> QED
  BY <1>3, <1>4, <1>6, <1>7, Together

\* A call is queued behind the others; the file does not notice.
LEMMA JoinIsSafe ==
    ASSUME ConstantsAreGood, IInv, NEW c \in Everyone, phase = "up", status[c] = "unused",
           status' = [status EXCEPT ![c] = "queued"], queue' = Append(queue, c),
           wanted' \in [Calls -> Settings \cup {None}],
           \A d \in Calls \ {c} : wanted'[d] = wanted[d],
           c \in Calls => wanted'[c] \in Settings,
           UNCHANGED <<fileVars, phase, current, ready, listener>>
    PROVE  IInv'
<1>1. UNCHANGED <<versions, hostile, temp, litter, file, phase, current, ready, listener>>
  BY DEF fileVars
<1>2. FileTypeOK(Settings, Docs)' /\ FileInOrder' /\ (Renamed' <=> Renamed) /\ Newest' = Newest
  BY <1>1, StoreFileIsGood DEF FileGood, FileTypeOK, FileInOrder, Renamed, Newest, At
<1>3. StoreTypes'
  BY <1>1, StoreFileIsGood DEF StoreTypes
<1>4. /\ QueueTypes' /\ QueueIsTheWaiting' /\ queue' # <<>>
      /\ queue # <<>> => Head(queue') = Head(queue)
  <2>1. QueueTypes /\ QueueIsTheWaiting
    BY StoreFileIsGood DEF IInv
  <2> QED
    BY <2>1, QueueJoins
<1>5. OperationHasOwner'
  BY <1>1, <1>4 DEF IInv, OperationHasOwner, At
<1>6. \A d \in Calls : status'[d] \in {"unused", "queued"} => status[d] \in {"unused", "queued"}
  BY StoreFileIsGood DEF QueueTypes, Everyone
<1>7. EffectsComeWithRename'
  BY <1>1, <1>2, <1>6 DEF IInv, EffectsComeWithRename
<1>8. MemoryFollowsFile'
  BY <1>1, <1>2 DEF IInv, MemoryFollowsFile
<1> QED
  BY <1>2, <1>3, <1>4, <1>5, <1>7, <1>8, Together

\* PUT /settings, and a call of retryDurability.
LEMMA RequestsAreSafe ==
    ASSUME ConstantsAreGood, IInv, (\E c \in Calls : Put(c)) \/ (\E c \in Retries : Retry(c))
    PROVE  IInv'
<1>1. ASSUME NEW c \in Calls, Put(c) PROVE IInv'
  <2>1. PICK v \in Settings : wanted' = [wanted EXCEPT ![c] = v]
    BY <1>1 DEF Put
  <2>2. wanted \in [Calls -> Settings \cup {None}]
    BY StoreFileIsGood DEF QueueTypes
  <2>3. /\ wanted' \in [Calls -> Settings \cup {None}] /\ wanted'[c] \in Settings
        /\ \A d \in Calls \ {c} : wanted'[d] = wanted[d]
    BY <2>1, <2>2
  <2>4. c \in Everyone
    BY DEF Everyone
  <2>5. /\ phase = "up" /\ status[c] = "unused" /\ status' = [status EXCEPT ![c] = "queued"]
        /\ queue' = Append(queue, c) /\ UNCHANGED <<fileVars, phase, current, ready, listener>>
    BY <1>1 DEF Put
  <2> QED
    BY <2>3, <2>4, <2>5, JoinIsSafe
<1>2. ASSUME NEW c \in Retries, Retry(c) PROVE IInv'
  <2>1. wanted \in [Calls -> Settings \cup {None}] /\ wanted' = wanted
    BY <1>2, StoreFileIsGood DEF QueueTypes, Retry
  <2>2. c \in Everyone /\ c \notin Calls
    BY DEF Everyone, ConstantsAreGood, CallsAssumption
  <2>3. /\ phase = "up" /\ status[c] = "unused" /\ status' = [status EXCEPT ![c] = "queued"]
        /\ queue' = Append(queue, c) /\ UNCHANGED <<fileVars, phase, current, ready, listener>>
    BY <1>2 DEF Retry
  <2> QED
    BY <2>1, <2>2, <2>3, JoinIsSafe
<1> QED
  BY <1>1, <1>2


\* The head of the queue and what is known of it.
LEMMA HeadIsWaiting ==
    ASSUME IInv, queue # <<>>
    PROVE  /\ Head(queue) \in Everyone /\ status[Head(queue)] = "queued"
           /\ Head(queue) \in Calls => wanted[Head(queue)] \in Settings
<1>1. Head(queue) \in Everyone /\ Head(queue) = queue[1] /\ 1 \in DOMAIN queue
  BY StoreFileIsGood, TailOfQueue DEF QueueTypes
<1> QED
  BY <1>1 DEF IInv, QueueIsTheWaiting

\* The head of the queue begins, or a retry has nothing to do.
LEMMA RunIsSafe ==
    ASSUME ConstantsAreGood, IInv, Run
    PROVE  IInv'
<1>1. /\ phase = "up" /\ queue # <<>> /\ At("idle")
      /\ UNCHANGED <<versions, hostile, temp, litter, phase, current, ready, wanted, listener>>
  BY DEF Run
<1>2. PICK h \in Everyone : h = Head(queue)
  BY <1>1, HeadIsWaiting
<1>3. ~Renamed /\ ~temp.exists
  BY <1>1, NoTempAtRest DEF Renamed, At
<1>4. StoreTypes'
  BY <1>1, StoreFileIsGood DEF StoreTypes
<1>5. ASSUME NEW op \in {"replace", "sync"}, NEW v \in Settings \cup {None}, NEW c \in Calls \cup {None},
             Begin(op, v, c), UNCHANGED <<queue, status>>,
             \/ op = "replace" /\ v \in Settings /\ c = h /\ h \in Calls
             \/ op = "sync" /\ c = None /\ h \in Retries
      PROVE  IInv'
  <2>1. /\ file' \in FileRecord(Settings) /\ file'.op = op /\ file'.call = c
        /\ file'.value = v /\ file'.open = {} /\ file'.pc = "openingParent"
    <3>1. op \in {"read", "replace", "sync"} /\ op # "read"
      OBVIOUS
    <3> QED
      BY <1>5, <3>1, FileBegins DEF ConstantsAreGood
  <2>2. FileTypeOK(Settings, Docs)' /\ FileInOrder' /\ ~Renamed' /\ Newest' = Newest
    BY <1>1, <1>3, <2>1, FreshFile
  <2>3. QueueTypes' /\ QueueIsTheWaiting'
    BY <1>1, <1>5, StoreFileIsGood DEF IInv, QueueTypes, QueueIsTheWaiting
  <2>4. OperationHasOwner'
    BY <1>1, <1>2, <1>5, <2>1 DEF OperationHasOwner, At
  <2>5. EffectsComeWithRename'
    BY <1>1, <1>3, <1>5, <2>2, OthersAreUnknown DEF EffectsComeWithRename
  <2>6. MemoryFollowsFile'
    BY <1>1, <1>3, <2>2 DEF IInv, MemoryFollowsFile
  <2> QED
    BY <1>4, <2>2, <2>3, <2>4, <2>5, <2>6, Together
<1>6. ASSUME h \in Calls, Begin("replace", wanted[h], h), UNCHANGED <<queue, status>> PROVE IInv'
  <2>1. wanted[h] \in Settings
    BY <1>1, <1>2, <1>6, HeadIsWaiting
  <2> QED
    BY <1>5, <1>6, <2>1
<1>7. ASSUME h \in Retries, Begin("sync", None, None), UNCHANGED <<queue, status>> PROVE IInv'
  BY <1>5, <1>7
<1>8. ASSUME status' = [status EXCEPT ![Head(queue)] = "synced"], queue' = Tail(queue), UNCHANGED file
      PROVE  IInv'
  <2>1. QueueTypes' /\ QueueIsTheWaiting'
    <3>1. QueueTypes /\ QueueIsTheWaiting /\ "synced" \in Stati \ {"queued"}
      BY StoreFileIsGood DEF IInv, Stati
    <3> QED
      BY <1>1, <1>8, <3>1, QueueLeaves
  <2>2. FileTypeOK(Settings, Docs)' /\ FileInOrder' /\ ~Renamed' /\ Newest' = Newest
    BY <1>1, <1>3, <1>8, StoreFileIsGood DEF FileGood, FileTypeOK, FileInOrder, Renamed, Newest, At
  <2>3. OperationHasOwner'
    BY <1>1, <1>8 DEF OperationHasOwner, At
  <2>4. \A d \in Calls : status'[d] \in {"unused", "queued"} => status[d] \in {"unused", "queued"}
    BY <1>2, <1>8, StoreFileIsGood DEF QueueTypes, Everyone
  <2>5. EffectsComeWithRename'
    BY <1>1, <1>3, <2>2, <2>4, OthersAreUnknown DEF EffectsComeWithRename
  <2>6. MemoryFollowsFile'
    BY <1>1, <1>3, <2>2 DEF IInv, MemoryFollowsFile
  <2> QED
    BY <1>4, <2>1, <2>2, <2>3, <2>5, <2>6, Together
<1> QED
  BY <1>2, <1>6, <1>7, <1>8 DEF Run

\* The outcome and the answer of the operation at the head of the queue.
LEMMA OutcomeIsAnswered ==
    ASSUME IInv, phase = "up", At("done")
    PROVE  /\ Answer(file.result) \in Stati \ {"queued", "unused", "lost"}
           /\ Renamed <=> Adopts
           /\ \/ Head(queue) \in Calls /\ file.op = "replace" /\ file.call = Head(queue)
              \/ Head(queue) \in Retries /\ file.op = "sync" /\ file.call = None
           /\ Answer(file.result) = "durable" <=> file.result = "committed"
           /\ Answer(file.result) = "uncertain" <=> file.result = "committed_durability_uncertain"
           /\ Answer(file.result) = "failed" <=> file.result \in {"threw", "not_committed"}
           /\ file.op = "replace" => file.result \in Commits \cup {"threw", "not_committed"}
<1>1. \/ Head(queue) \in Calls /\ file.op = "replace" /\ file.call = Head(queue)
      \/ Head(queue) \in Retries /\ file.op = "sync" /\ file.call = None
  BY DEF IInv, OperationHasOwner, At
<1>2. \/ file.op = "replace" /\ file.result \in Commits \cup {"threw", "not_committed"}
      \/ file.op = "sync" /\ file.result \in {"synced", "unsynced"}
  BY <1>1 DEF IInv, FileInOrder
<1>3. /\ file.result = "committed" => Answer(file.result) = "durable"
      /\ file.result = "committed_durability_uncertain" => Answer(file.result) = "uncertain"
      /\ file.result \in {"threw", "not_committed"} => Answer(file.result) = "failed"
      /\ file.result = "synced" => Answer(file.result) = "synced"
      /\ file.result = "unsynced" => Answer(file.result) = "unsynced"
  BY DEF Answer
<1>4. Renamed <=> Adopts
  BY DEF Renamed, Adopts, Committed, Commits, At
<1> QED
  BY <1>1, <1>2, <1>3, <1>4 DEF Commits, Stati

\* The running operation is over and its caller is answered.
LEMMA FinishIsSafe ==
    ASSUME ConstantsAreGood, IInv, Finish
    PROVE  IInv'
<1>1. /\ phase = "up" /\ At("done") /\ queue # <<>> /\ file' = IdleFile
      /\ current' = IF Adopts THEN file.value ELSE current
      /\ listener' = IF Adopts THEN file.value ELSE listener
      /\ ready' = IF Adopts THEN DurableResult(file.result) ELSE (ready \/ file.result = "synced")
      /\ UNCHANGED <<versions, hostile, temp, litter, phase, wanted>>
      /\ status' = [status EXCEPT ![Head(queue)] = Answer(file.result)] /\ queue' = Tail(queue)
  BY DEF Finish, Releases
<1>2. PICK h \in Everyone : h = Head(queue)
  BY <1>1, HeadIsWaiting
<1>3. PICK a \in Stati \ {"queued", "unused", "lost"} : a = Answer(file.result)
  BY <1>1, OutcomeIsAnswered
<1>4. QueueTypes' /\ QueueIsTheWaiting'
  <2>1. QueueTypes /\ QueueIsTheWaiting
    BY StoreFileIsGood DEF IInv
  <2> QED
    BY <1>1, <1>3, <2>1, QueueLeaves
<1>5. /\ file' \in FileRecord(Settings) /\ file'.op = None /\ file'.call = None
      /\ file'.open = {} /\ file'.pc = "idle"
  BY <1>1, IdleIsRecord DEF ConstantsAreGood
<1>6. FileTypeOK(Settings, Docs)' /\ FileInOrder' /\ ~Renamed' /\ Newest' = Newest
  BY <1>1, <1>5, NoTempAtRest, FreshFile
<1>7. Adopts => Newest.doc = file.value /\ file.value \in Settings
  BY <1>1, CommittedIsNewest DEF Adopts
<1>8. current \in Settings /\ listener = current /\ (~Adopts => current = Newest.doc)
  BY <1>1, StoreFileIsGood, OutcomeIsAnswered DEF StoreTypes, IInv, MemoryFollowsFile
<1>9. MemoryFollowsFile'
  BY <1>1, <1>6, <1>7, <1>8 DEF MemoryFollowsFile
<1>10. StoreTypes'
  <2>1. ready' \in BOOLEAN
    BY <1>1, StoreFileIsGood DEF StoreTypes, DurableResult
  <2>2. current' \in Settings
    BY <1>1, <1>7, <1>8
  <2> QED
    BY <1>1, <2>1, <2>2 DEF StoreTypes
<1>11. OperationHasOwner'
  BY <1>1, <1>5 DEF OperationHasOwner, At
<1>12. ASSUME NEW c \in Calls, status'[c] \in {"unused", "queued"}
       PROVE  \A i \in DOMAIN versions : c \notin versions[i].calls
  <2>1. c # h /\ status[c] \in {"unused", "queued"}
    BY <1>1, <1>2, <1>3, <1>12, StoreFileIsGood DEF QueueTypes, Everyone
  <2>2. file.call # c
    BY <1>1, <1>2, <2>1, OutcomeIsAnswered DEF ConstantsAreGood, CallsAssumption
  <2> QED
    BY <2>1, <2>2 DEF IInv, EffectsComeWithRename
<1>13. EffectsComeWithRename'
  BY <1>1, <1>6, <1>12 DEF EffectsComeWithRename
<1> QED
  BY <1>4, <1>6, <1>9, <1>10, <1>11, <1>13, Together

\* The process ends, by itself or with the power: the queue and the memory are lost,
\* and a power failure chooses the version of the file that is found again.
LEMMA ProcessEndsIsSafe ==
    ASSUME ConstantsAreGood, IInv, ProcessEnds,
           UNCHANGED versions \/ \E i \in DOMAIN versions : versions' = <<versions[i]>>
    PROVE  IInv'
<1> DEFINE E == [doc : Docs, calls : SUBSET Calls]
<1>1. /\ phase' = "down" /\ current' = None /\ ready' = FALSE /\ queue' = <<>>
      /\ status' = [c \in Everyone |-> IF status[c] = "queued" THEN "lost" ELSE status[c]]
      /\ UNCHANGED <<wanted, hostile>> /\ temp' = NoTemp /\ file' = IdleFile
      /\ litter' = (litter \/ temp.exists)
  BY DEF ProcessEnds, FileLost, Everyone
<1>2. versions \in Seq(E) /\ versions # <<>> /\ hostile \in {"no", "early", "late"} /\ litter \in BOOLEAN
      /\ temp \in [exists : BOOLEAN, written : 0 .. Size, synced : BOOLEAN]
  BY StoreFileIsGood DEF FileGood, FileTypeOK
<1>3. /\ versions' \in Seq(E) /\ versions' # <<>>
      /\ \A j \in DOMAIN versions' : \E i \in DOMAIN versions : versions'[j] = versions[i]
  <2>1. CASE UNCHANGED versions
    BY <1>2, <2>1
  <2>2. ASSUME NEW i \in DOMAIN versions, versions' = <<versions[i]>>
        PROVE  /\ versions' \in Seq(E) /\ versions' # <<>>
               /\ \A j \in DOMAIN versions' : \E k \in DOMAIN versions : versions'[j] = versions[k]
    <3> HIDE DEF E
    <3>1. PICK e \in E : e = versions[i]
      <4>1. versions[i] \in E
        BY <1>2, <2>2
      <4> QED
        BY <4>1
    <3>2. <<e>> \in Seq(E) /\ <<e>> # <<>> /\ DOMAIN <<e>> = {1} /\ <<e>>[1] = e
      OBVIOUS
    <3> QED
      BY <2>2, <3>1, <3>2
  <2> QED
    BY <2>1, <2>2
<1>4. /\ file' \in FileRecord(Settings) /\ file'.op = None /\ file'.call = None
      /\ file'.open = {} /\ file'.pc = "idle"
  BY <1>1, IdleIsRecord DEF ConstantsAreGood
<1>5. temp' \in [exists : BOOLEAN, written : 0 .. Size, synced : BOOLEAN] /\ ~temp'.exists
  <2>1. PICK no \in BOOLEAN : no = FALSE
    OBVIOUS
  <2>2. temp' = [exists |-> no, written |-> 0, synced |-> no]
    BY <1>1, <2>1 DEF NoTemp
  <2> QED
    BY <2>1, <2>2 DEF ConstantsAreGood, SizeAssumption
<1>6. FileTypeOK(Settings, Docs)'
  <2>1. litter' \in BOOLEAN
    BY <1>1, <1>2
  <2> QED
    BY <1>1, <1>2, <1>3, <1>4, <1>5, <2>1 DEF FileTypeOK
<1>7. FileInOrder' /\ ~Renamed'
  BY <1>1, <1>4, <1>5 DEF FileInOrder, Renamed, At, Writing
<1>8. /\ QueueTypes' /\ QueueIsTheWaiting'
      /\ \A c \in Everyone : status'[c] # "queued"
      /\ \A c \in Everyone : status'[c] = "unused" => status[c] = "unused"
  BY <1>1, StoreFileIsGood, QueueIsLost
<1>9. StoreTypes' /\ MemoryFollowsFile' /\ OperationHasOwner'
  <2>1. None \notin Settings
    BY DEF ConstantsAreGood, SettingsAssumption
  <2>2. StoreTypes'
    <3>1. ready' \in BOOLEAN
      BY <1>1
    <3>2. phase' # "up" /\ phase' \in {"down", "starting", "up"} /\ current' \notin Settings
          /\ current' \in Settings \cup {None}
      BY <1>1, <2>1
    <3> QED
      BY <3>1, <3>2 DEF StoreTypes
  <2> QED
    BY <1>1, <1>4, <2>2 DEF MemoryFollowsFile, OperationHasOwner, At
<1>10. EffectsComeWithRename'
  <2>1. SUFFICES ASSUME NEW c \in Calls, status'[c] \in {"unused", "queued"}, NEW j \in DOMAIN versions'
                 PROVE  c \notin versions'[j].calls
    BY <1>7 DEF EffectsComeWithRename
  <2>2. status[c] = "unused"
    BY <1>8, <2>1 DEF Everyone
  <2>3. PICK i \in DOMAIN versions : versions'[j] = versions[i]
    BY <1>3, <2>1
  <2> QED
    BY <2>2, <2>3, UnusedIsUnknown
<1> QED
  BY <1>6, <1>7, <1>8, <1>9, <1>10, Together

\* Somebody else puts something hostile at the path.
LEMMA TamperIsSafe ==
    ASSUME IInv, Tamper, UNCHANGED storeVars
    PROVE  IInv'
<1>1. /\ UNCHANGED <<versions, temp, litter, file, phase, current, ready, queue, wanted, status, listener>>
      /\ hostile' = IF At("renaming") THEN "late" ELSE "early"
  BY DEF Tamper, storeVars
<1>2. FileTypeOK(Settings, Docs)' /\ FileInOrder' /\ (Renamed' <=> Renamed) /\ Newest' = Newest
  BY <1>1, StoreFileIsGood DEF FileGood, FileTypeOK, FileInOrder, Renamed, Newest, At
<1>3. StoreTypes' /\ QueueTypes' /\ QueueIsTheWaiting'
  BY <1>1, StoreFileIsGood DEF IInv, StoreTypes, QueueTypes, QueueIsTheWaiting
<1>4. OperationHasOwner' /\ EffectsComeWithRename' /\ MemoryFollowsFile'
  BY <1>1, <1>2 DEF IInv, OperationHasOwner, EffectsComeWithRename, MemoryFollowsFile, At
<1> QED
  BY <1>2, <1>3, <1>4, Together


-----------------------------------------------------------------------------
(***************************************************************************)
(* The theorems.                                                           *)
(***************************************************************************)
\* A process that is not running keeps nothing but the file.
LEMMA InitIsSafe ==
    ASSUME ConstantsAreGood, Init
    PROVE  IInv
<1> DEFINE E == [doc : Docs, calls : SUBSET Calls]
<1>1. PICK initial \in Docs : FileInit(initial)
  BY DEF Init, Docs
<1>2. PICK e \in E : e = [doc |-> initial, calls |-> {}]
  OBVIOUS
<1>3. e.calls = {} /\ versions = <<e>>
  BY <1>1, <1>2 DEF FileInit
<1> HIDE DEF E
<1>4. versions \in Seq(E) /\ versions # <<>> /\ DOMAIN versions = {1} /\ versions[1] = e
  BY <1>3
<1>5. PICK no \in BOOLEAN : no = FALSE
  OBVIOUS
<1>6. temp = [exists |-> no, written |-> 0, synced |-> no] /\ hostile = "no" /\ litter = no
      /\ file = IdleFile
  BY <1>1, <1>5 DEF FileInit, NoTemp
<1>7. temp \in [exists : BOOLEAN, written : 0 .. Size, synced : BOOLEAN] /\ ~temp.exists
  BY <1>5, <1>6 DEF ConstantsAreGood, SizeAssumption
<1>8. /\ file \in FileRecord(Settings) /\ file.pc = "idle" /\ file.op = None /\ file.open = {}
  BY <1>6, IdleIsRecord DEF ConstantsAreGood
<1>9. FileTypeOK(Settings, Docs)
  <2>1. litter \in BOOLEAN /\ hostile \in {"no", "early", "late"}
    BY <1>6
  <2> QED
    BY <1>4, <1>7, <1>8, <2>1 DEF FileTypeOK, E
<1>10. FileInOrder /\ ~Renamed
  BY <1>6, <1>7, <1>8 DEF FileInOrder, Renamed, At, Writing
<1>11. StoreTypes
  <2>1. None \notin Settings
    BY DEF ConstantsAreGood, SettingsAssumption
  <2>2. ready \in BOOLEAN
    BY DEF Init
  <2>3. phase # "up" /\ phase \in {"down", "starting", "up"} /\ current \notin Settings
        /\ current \in Settings \cup {None}
    BY <2>1 DEF Init
  <2> QED
    BY <2>2, <2>3 DEF StoreTypes
<1>12. QueueTypes /\ QueueIsTheWaiting
  <2>1. queue = <<>> /\ wanted = [c \in Calls |-> None] /\ status = [c \in Everyone |-> "unused"]
    BY DEF Init, Everyone
  <2>2. QueueTypes
    BY <2>1 DEF QueueTypes, Stati
  <2> QED
    BY <2>1, <2>2 DEF QueueIsTheWaiting, Everyone
<1>13. OperationHasOwner /\ MemoryFollowsFile
  BY <1>8 DEF Init, OperationHasOwner, MemoryFollowsFile, At
<1>14. EffectsComeWithRename
  BY <1>3, <1>4, <1>10 DEF EffectsComeWithRename
<1> QED
  BY <1>9, <1>10, <1>11, <1>12, <1>13, <1>14, TypesApart DEF IInv

\* Every step keeps the invariant.
LEMMA StepIsSafe ==
    ASSUME ConstantsAreGood, IInv, [Next]_vars
    PROVE  IInv'
<1>1. CASE UNCHANGED vars
  <2>1. UNCHANGED <<versions, hostile, temp, litter, file, phase, current, ready, queue, wanted,
                    status, listener>>
    BY <1>1 DEF vars, fileVars, storeVars
  <2>2. FileTypeOK(Settings, Docs)' /\ FileInOrder' /\ (Renamed' <=> Renamed) /\ Newest' = Newest
    BY <2>1, StoreFileIsGood DEF IInv, FileGood, FileTypeOK, FileInOrder, Renamed, Newest, At
  <2>3. StoreTypes' /\ QueueTypes' /\ QueueIsTheWaiting'
    BY <2>1, StoreFileIsGood DEF IInv, StoreTypes, QueueTypes, QueueIsTheWaiting
  <2>4. OperationHasOwner' /\ EffectsComeWithRename' /\ MemoryFollowsFile'
    BY <2>1, <2>2 DEF IInv, OperationHasOwner, EffectsComeWithRename, MemoryFollowsFile, At
  <2> QED
    BY <2>2, <2>3, <2>4, Together
<1>2. CASE Loaded \/ Created \/ StartFails \/ Start
  BY <1>2, LoadedIsSafe, CreatedIsSafe, StartFailsIsSafe, StartIsSafe
<1>3. CASE Run \/ Finish
  BY <1>3, RunIsSafe, FinishIsSafe
<1>4. ASSUME FileStep, UNCHANGED storeVars PROVE IInv'
  BY <1>4, FileStepIsSafe
<1>5. CASE Crash \/ PowerFailure
  BY <1>5, ProcessEndsIsSafe DEF Crash, PowerFailure
<1>6. CASE (\E c \in Calls : Put(c)) \/ (\E c \in Retries : Retry(c))
  BY <1>6, RequestsAreSafe
<1>7. ASSUME Tamper, UNCHANGED storeVars PROVE IInv'
  BY <1>7, TamperIsSafe
<1> QED
  BY <1>1, <1>2, <1>3, <1>4, <1>5, <1>6, <1>7 DEF Next, StoreStep

\* settings-store.ts keeps, through every failure of the file system, crash and
\* power failure: an operation of the secure file has an owner, a request waits
\* exactly once until it is answered, and no version of settings.json knows a
\* request whose rename is still to come.
THEOREM SettingsAreSound ==
    ASSUME ConstantsAreGood
    PROVE  Spec => []IInv
<1>1. Init => IInv
  BY InitIsSafe
<1>2. IInv /\ [Next]_vars => IInv'
  BY StepIsSafe
<1> QED
  BY <1>1, <1>2, PTL DEF Spec

\* Between operations the settings in memory and those a subscriber was last told
\* are those of settings.json, although replacements fail half way, and
\* secure-json-file.ts leaves no handle open, whichever of its awaits fails.
THEOREM MemoryAlwaysMatchesFile ==
    ASSUME ConstantsAreGood
    PROVE  Spec => []SettingsAreKept
<1>1. ASSUME IInv PROVE MemoryMatchesFile /\ HandlesAreClosed
  <2>1. At("idle") => ~Renamed
    BY DEF At, Renamed
  <2>2. MemoryMatchesFile
    BY <1>1, <2>1 DEF IInv, MemoryFollowsFile, MemoryMatchesFile
  <2>3. HandlesAreClosed
    BY <1>1 DEF IInv, FileInOrder, HandlesAreClosed
  <2> QED
    BY <2>2, <2>3
<1>2. IInv => SettingsAreKept
  BY <1>1 DEF SettingsAreKept
<1> QED
  BY <1>2, SettingsAreSound, PTL

\* A power failure or the sync of the directory leaves one version.
LEMMA OneVersionIsLeft ==
    ASSUME NEW e
    PROVE  Len(<<e>>) = 1
  OBVIOUS

\* A step of the secure file that leaves a temporary file says that it threw.
LEMMA LitterIsReported ==
    ASSUME IInv, FileStep, litter', ~litter
    PROVE  file'.result = "threw"
<1>1. litter' # litter
  OBVIOUS
<1>2. Cleanup
  BY <1>1 DEF FileStep, Read, OpenParent, Validate, CreateTemp, PrepareTemp, WritePart, SyncTemp,
              CloseTemp, Revalidate, Rename, SyncParent
<1>3. PICK removed \in BOOLEAN, closed \in BOOLEAN :
         /\ litter' = (litter \/ (temp.exists /\ ~removed))
         /\ file' = Returns(Outcome(closed /\ (temp.exists => removed)))
  BY <1>2 DEF Cleanup
<1>4. temp.exists /\ ~removed
  BY <1>3
<1>5. Outcome(closed /\ (temp.exists => removed)) = "threw"
  BY <1>4 DEF Outcome
<1>6. file \in FileRecord(Settings) /\ file' = Returns("threw")
  BY <1>3, <1>5, StoreFileIsGood DEF FileGood, FileTypeOK
<1> QED
  BY <1>6 DEF Returns, FileRecord

\* The store is ready after a start or a write, or becomes so by a retry, only if
\* the directory sync has left one version; a polite failure has removed its
\* temporary file; and a hostile target found by the second look is never
\* renamed over.
THEOREM StoreStepsAreCareful ==
    ASSUME ConstantsAreGood
    PROVE  Spec => [][StepsAreCareful]_vars
<1>1. ASSUME IInv, [Next]_vars PROVE [StepsAreCareful]_vars
  <2>0. Len(versions) \in Nat \ {0}
    BY <1>1, StoreFileIsGood
  <2>1. CASE Loaded
    <3>1. /\ UNCHANGED <<versions, litter>> /\ file.op = "read"
      BY <1>1, <2>1 DEF Loaded, IInv, FileInOrder, Commits
    <3> QED
      BY <2>0, <3>1 DEF StepsAreCareful, ReadyIsEarned, NothingIsLeft, HostileIsKept
  <2>2. CASE Created
    <3>1. /\ UNCHANGED <<versions, litter>> /\ At("done") /\ Committed
          /\ ready' = (file.result = "committed")
      BY <2>2 DEF Created, Opened, DurableResult
    <3>2. ready' => Len(versions) = 1
      BY <1>1, <3>1, CommittedIsNewest
    <3> QED
      BY <2>0, <3>1, <3>2 DEF StepsAreCareful, ReadyIsEarned, NothingIsLeft, HostileIsKept
  <2>3. CASE StartFails \/ Start \/ Run \/ (\E c \in Calls : Put(c)) \/ (\E c \in Retries : Retry(c))
    <3>1. UNCHANGED <<versions, litter, ready, current>>
      BY <2>3 DEF StartFails, Start, Run, Put, Retry, fileVars
    <3> QED
      BY <2>0, <3>1 DEF StepsAreCareful, ReadyIsEarned, NothingIsLeft, HostileIsKept
  <2>4. CASE Finish
    <3>1. /\ UNCHANGED <<versions, litter>> /\ At("done")
          /\ current' = IF Adopts THEN file.value ELSE current
          /\ ready' = IF Adopts THEN file.result = "committed" ELSE (ready \/ file.result = "synced")
      BY <2>4 DEF Finish, DurableResult
    <3>2. ready' /\ (~ready \/ current' # current) => file.result \in {"committed", "synced"}
      BY <3>1
    <3>3. ready' /\ (~ready \/ current' # current) => Len(versions) = 1
      BY <1>1, <3>1, <3>2 DEF IInv, FileInOrder
    <3> QED
      BY <2>0, <3>1, <3>3 DEF StepsAreCareful, ReadyIsEarned, NothingIsLeft, HostileIsKept
  <2>5. CASE Crash \/ PowerFailure
    <3>1. phase' = "down" /\ ~ready'
      BY <2>5 DEF Crash, PowerFailure, ProcessEnds
    <3>2. versions' = versions \/ \E i \in DOMAIN versions : versions' = <<versions[i]>>
      BY <2>5 DEF Crash, PowerFailure
    <3>3. ~(Len(versions') > Len(versions))
      BY <2>0, <3>2, OneVersionIsLeft
    <3> QED
      BY <3>1, <3>3 DEF StepsAreCareful, ReadyIsEarned, NothingIsLeft, HostileIsKept
  <2>6. ASSUME FileStep, UNCHANGED storeVars PROVE StepsAreCareful
    <3>1. Silent \/ Hardens \/ Renames
      BY <1>1, <2>6, StoreFileIsGood, FileStepIsGood, TypesApart DEF ConstantsAreGood, FileEffect
    <3>2. ReadyIsEarned
      BY <2>6 DEF ReadyIsEarned, storeVars
    <3>3. NothingIsLeft
      BY <1>1, <2>6, LitterIsReported DEF NothingIsLeft
    <3>4. HostileIsKept
      <4>1. CASE Silent
        BY <2>0, <4>1 DEF Silent, HostileIsKept
      <4>2. CASE Hardens
        BY <2>0, <4>2, OneVersionIsLeft DEF Hardens, HostileIsKept
      <4>3. CASE Renames
        BY <4>3 DEF Renames, HostileIsKept
      <4> QED
        BY <3>1, <4>1, <4>2, <4>3
    <3> QED
      BY <3>2, <3>3, <3>4 DEF StepsAreCareful
  <2>7. ASSUME Tamper, UNCHANGED storeVars PROVE StepsAreCareful
    BY <2>0, <2>7 DEF Tamper, storeVars, StepsAreCareful, ReadyIsEarned, NothingIsLeft, HostileIsKept
  <2> QED
    BY <1>1, <2>1, <2>2, <2>3, <2>4, <2>5, <2>6, <2>7 DEF Next, StoreStep, StepsAreCareful
<1>2. IInv /\ [Next]_vars => [StepsAreCareful]_vars
  BY <1>1
<1> QED
  BY <1>2, SettingsAreSound, PTL DEF Spec


-----------------------------------------------------------------------------
(***************************************************************************)
(* The refinement.                                                         *)
(***************************************************************************)
\* A step that answers nobody tells nobody anything.
LEMMA NobodyIsTold ==
    ASSUME \A c \in Calls : \/ status'[c] = status[c]
                            \/ /\ status[c] \in {"unused", "queued", "lost"}
                               /\ status'[c] \in {"unused", "queued", "lost"}
    PROVE  Told' = Told
<1>1. ASSUME NEW c \in Calls
      PROVE  (IF status'[c] \in {"unused", "queued", "lost"} THEN "nothing" ELSE status'[c])
             = (IF status[c] \in {"unused", "queued", "lost"} THEN "nothing" ELSE status[c])
  OBVIOUS
<1> QED
  BY <1>1, Zenon DEF Told

\* A step of the secure file writes, hardens or does nothing to the file.
LEMMA FileStepIsAnswered ==
    ASSUME ConstantsAreGood, IInv, FileStep, UNCHANGED storeVars
    PROVE  AnsweredStep
<1>1. SameOperation /\ (Silent \/ Hardens \/ Renames)
  BY StoreFileIsGood, FileStepIsGood, TypesApart DEF ConstantsAreGood, FileEffect
<1>2. Told' = Told
  BY NobodyIsTold DEF storeVars
<1>3. CASE Silent
  BY <1>2, <1>3 DEF AnsweredStep, Silent
<1>4. CASE Hardens
  BY <1>2, <1>4 DEF AnsweredStep, Hardens, Newest, Answered!Next, Answered!Harden, Answered!Newest
<1>5. CASE Renames
  <2>1. /\ versions' = Append(versions, [doc |-> file.value,
                                         calls |-> Newest.calls \cup ({file.call} \ {None})])
        /\ file.op = "replace" /\ ~Renamed /\ ~At("idle")
    BY <1>1, <1>5 DEF Renames, SameOperation, At
  <2>2. file.value \in Settings /\ Answered!Newest = Newest
    BY <2>1 DEF IInv, OperationHasOwner, Answered!Newest, Newest
  <2>3. CASE file.call = None
    <3>1. {file.call} \ {None} = {}
      BY <2>3
    <3>2. Answered!Write({})
      BY <1>2, <2>1, <2>2, <3>1 DEF Answered!Write
    <3> QED
      BY <3>2 DEF AnsweredStep, Answered!Next
  <2>4. CASE file.call # None
    <3>1. phase = "up" /\ queue # <<>> /\ Head(queue) \in Calls /\ file.call = Head(queue)
      BY <2>1, <2>4, StoreFileIsGood DEF IInv, OperationHasOwner, StoreTypes
    <3>2. PICK c \in Calls : c = file.call
      BY <3>1
    <3>3. status[c] = "queued"
      BY <3>1, <3>2, HeadIsWaiting
    <3>4. \A i \in DOMAIN versions : c \notin versions[i].calls
      BY <2>1, <3>3, OthersAreUnknown
    <3>5. Told[c] = "nothing"
      BY <3>3 DEF Told
    <3>6. {file.call} \ {None} = {c}
      BY <2>4, <3>2
    <3>7. Answered!Write({c})
      BY <1>2, <2>1, <2>2, <3>4, <3>5, <3>6 DEF Answered!Write
    <3> QED
      BY <3>7 DEF AnsweredStep, Answered!Next
  <2> QED
    BY <2>3, <2>4
<1> QED
  BY <1>1, <1>3, <1>4, <1>5

\* The answer of a finished operation is true.
LEMMA FinishIsAnswered ==
    ASSUME ConstantsAreGood, IInv, Finish
    PROVE  AnsweredStep
<1>1. /\ phase = "up" /\ At("done") /\ queue # <<>> /\ UNCHANGED versions
      /\ status' = [status EXCEPT ![Head(queue)] = Answer(file.result)]
  BY DEF Finish, Releases
<1>2. PICK h \in Everyone : h = Head(queue)
  BY <1>1, HeadIsWaiting
<1>3. status[h] = "queued" /\ status \in [Everyone -> Stati]
  BY <1>1, <1>2, HeadIsWaiting, StoreFileIsGood DEF QueueTypes
<1>4. PICK a \in Stati \ {"queued", "unused", "lost"} : a = Answer(file.result)
  BY <1>1, OutcomeIsAnswered
<1>5. status'[h] = a /\ \A d \in Everyone \ {h} : status'[d] = status[d]
  BY <1>1, <1>2, <1>3, <1>4
<1>6. CASE h \in Retries
  <2>1. \A c \in Calls : status'[c] = status[c]
    BY <1>5, <1>6 DEF Everyone, ConstantsAreGood, CallsAssumption
  <2> QED
    BY <1>1, <2>1, NobodyIsTold DEF AnsweredStep
<1>7. CASE h \notin Retries
  <2>1. /\ h \in Calls /\ file.op = "replace" /\ file.call = h
        /\ file.result \in Commits \cup {"threw", "not_committed"}
    BY <1>1, <1>2, <1>7, OutcomeIsAnswered
  <2>2. h # None
    BY <2>1 DEF ConstantsAreGood, CallsAssumption
  <2>3. a \in {"durable", "uncertain", "failed"}
    BY <1>1, <1>4, <2>1, OutcomeIsAnswered DEF Commits
  <2>4. Told[h] = "nothing"
    BY <1>3, <2>1 DEF Told
  <2>5. Told' = [Told EXCEPT ![h] = a]
    <3>1. ASSUME NEW c \in Calls
          PROVE  (IF status'[c] \in {"unused", "queued", "lost"} THEN "nothing" ELSE status'[c])
                 = IF c = h THEN a
                   ELSE IF status[c] \in {"unused", "queued", "lost"} THEN "nothing" ELSE status[c]
      <4>1. CASE c = h
        BY <1>4, <1>5, <4>1
      <4>2. CASE c # h
        BY <1>5, <4>2 DEF Everyone
      <4> QED
        BY <4>1, <4>2
    <3>2. Told' = [c \in Calls |-> IF c = h THEN a ELSE Told[c]]
      BY <3>1 DEF Told
    <3>3. Told = [c \in Calls |-> Told[c]]
      BY DEF Told
    <3> HIDE DEF Told
    <3> QED
      BY <2>1, <3>2, <3>3
  <2>6. Answered!Newest = Newest
    BY DEF Answered!Newest, Newest
  <2>7. Answered!Truthful(h, a)
    <3>1. CASE a = "durable"
      <4>1. file.result = "committed"
        BY <1>1, <1>4, <3>1, OutcomeIsAnswered
      <4>2. Committed
        BY <4>1 DEF Committed
      <4>3. h \in Newest.calls /\ Len(versions) = 1
        BY <1>1, <2>1, <2>2, <4>1, <4>2, CommittedIsNewest
      <4>4. DOMAIN versions = 1 .. Len(versions)
        BY StoreFileIsGood DEF FileGood, FileTypeOK
      <4>5. \A i \in DOMAIN versions : h \in versions[i].calls
        BY <4>3, <4>4 DEF Newest
      <4> QED
        BY <3>1, <4>5 DEF Answered!Truthful
    <3>2. CASE a = "uncertain"
      <4>1. Committed
        BY <1>1, <1>4, <3>2, OutcomeIsAnswered DEF Committed
      <4>2. h \in Newest.calls
        BY <1>1, <2>1, <2>2, <4>1, CommittedIsNewest
      <4> QED
        BY <2>6, <3>2, <4>2 DEF Answered!Truthful
    <3>3. CASE a = "failed"
      <4>1. file.result \in {"threw", "not_committed"}
        BY <1>1, <1>4, <3>3, OutcomeIsAnswered
      <4>2. ~Renamed
        BY <1>1, <4>1 DEF Renamed, Commits, At
      <4>3. \A i \in DOMAIN versions : h \notin versions[i].calls
        BY <1>3, <2>1, <4>2, OthersAreUnknown
      <4> QED
        BY <3>3, <4>3 DEF Answered!Truthful
    <3> QED
      BY <2>3, <3>1, <3>2, <3>3
  <2>8. Answered!Tell(h)
    BY <1>1, <2>3, <2>4, <2>5, <2>7 DEF Answered!Tell
  <2> QED
    BY <2>1, <2>8 DEF AnsweredStep, Answered!Next
<1> QED
  BY <1>6, <1>7

\* Every step of the store is a step of the answered file, or none.
LEMMA StepIsAnswered ==
    ASSUME ConstantsAreGood, IInv, [Next]_vars
    PROVE  AnsweredStep
<1>0. status \in [Everyone -> Stati]
  BY StoreFileIsGood DEF QueueTypes
<1>1. ASSUME \/ Loaded \/ Created \/ StartFails \/ Start
             \/ (Tamper /\ UNCHANGED storeVars) \/ UNCHANGED vars
      PROVE  AnsweredStep
  <2>1. UNCHANGED <<versions, status>>
    BY <1>1 DEF Loaded, Created, StartFails, Start, Tamper, vars, fileVars, storeVars
  <2> QED
    BY <2>1, NobodyIsTold DEF AnsweredStep
<1>2. ASSUME NEW c \in Everyone, status[c] = "unused", status' = [status EXCEPT ![c] = "queued"],
             UNCHANGED versions
      PROVE  AnsweredStep
  <2>1. \A d \in Calls : \/ status'[d] = status[d]
                         \/ /\ status[d] \in {"unused", "queued", "lost"}
                            /\ status'[d] \in {"unused", "queued", "lost"}
    BY <1>0, <1>2 DEF Everyone
  <2> QED
    BY <1>2, <2>1, NobodyIsTold DEF AnsweredStep
<1>3. CASE (\E c \in Calls : Put(c)) \/ (\E c \in Retries : Retry(c))
  <2>1. \E c \in Everyone : /\ status[c] = "unused" /\ status' = [status EXCEPT ![c] = "queued"]
                            /\ UNCHANGED versions
    BY <1>3 DEF Put, Retry, Everyone, fileVars
  <2> QED
    BY <1>2, <2>1
<1>4. CASE Run
  <2>1. PICK h \in Everyone : h = Head(queue)
    BY <1>4, HeadIsWaiting DEF Run
  <2>2. status' = status \/ (h \in Retries /\ status' = [status EXCEPT ![h] = "synced"])
    BY <1>4, <2>1 DEF Run
  <2>3. \A d \in Calls : status'[d] = status[d]
    BY <1>0, <2>1, <2>2 DEF Everyone, ConstantsAreGood, CallsAssumption
  <2>4. UNCHANGED versions
    BY <1>4 DEF Run
  <2> QED
    BY <2>3, <2>4, NobodyIsTold DEF AnsweredStep
<1>5. CASE Crash \/ PowerFailure
  <2>1. status' = [c \in Everyone |-> IF status[c] = "queued" THEN "lost" ELSE status[c]]
    BY <1>5 DEF Crash, PowerFailure, ProcessEnds, Everyone
  <2>2. \A d \in Calls : \/ status'[d] = status[d]
                         \/ /\ status[d] \in {"unused", "queued", "lost"}
                            /\ status'[d] \in {"unused", "queued", "lost"}
    BY <2>1 DEF Everyone
  <2>3. Told' = Told
    BY <2>2, NobodyIsTold
  <2>4. UNCHANGED versions \/ \E i \in DOMAIN versions : versions' = <<versions[i]>>
    BY <1>5 DEF Crash, PowerFailure
  <2> QED
    BY <2>3, <2>4 DEF AnsweredStep, Answered!Next, Answered!Lose
<1> QED
  BY <1>1, <1>3, <1>4, <1>5, FinishIsAnswered, FileStepIsAnswered DEF Next, StoreStep

\* settings-store.ts implements the answered file: a PUT takes effect at most once
\* and as a whole, a power failure takes settings.json back at most to the last
\* sync of the directory, and what a caller is told (durable, uncertain, failed)
\* is true when it is told, whichever await fails.
THEOREM SettingsImplementAnsweredFile ==
    ASSUME ConstantsAreGood
    PROVE  Spec => AnswersAreTrue
<1>1. ASSUME Init PROVE Answered!Init
  <2>1. PICK initial : versions = <<[doc |-> initial, calls |-> {}]>>
    BY <1>1 DEF Init, FileInit
  <2>2. Len(versions) = 1 /\ versions[1].calls = {}
    BY <2>1
  <2>3. Told = [c \in Calls |-> "nothing"]
    BY <1>1 DEF Init, Told
  <2> QED
    BY <2>2, <2>3 DEF Answered!Init, Answered!Newest
<1>2. Init => Answered!Init
  BY <1>1
<1>3. IInv /\ [Next]_vars => [Answered!Next]_<<versions, Told>>
  BY StepIsAnswered DEF AnsweredStep
<1> QED
  BY <1>2, <1>3, SettingsAreSound, PTL DEF Spec, AnswersAreTrue, Answered!Spec

-----------------------------------------------------------------------------
(***************************************************************************)
(* The credential store.                                                   *)
(***************************************************************************)
CredentialsAreGood == SizeAssumption /\ RecordsAssumption /\ ChecksAssumption

WaitingTypes ==
    /\ operations \in Seq(Callers) /\ reply \in [Callers -> Replies]
    /\ request \in [Callers -> Requests \cup {None}]

CredentialTypes ==
    /\ startup \in {"down", "starting", "up"} /\ record \in Passwords \cup {None}
    /\ hashing \in BOOLEAN

\* The parts of the type invariant.
LEMMA CredentialTypesApart ==
    /\ CredentialTypeOK <=> FileTypeOK(Passwords, Records) /\ CredentialTypes /\ WaitingTypes
    /\ Passwords \subseteq Records
  BY DEF CredentialTypeOK, CredentialTypes, WaitingTypes, Records

\* What the invariant says of the file.
LEMMA RecordFileIsGood ==
    ASSUME CredentialIInv
    PROVE  /\ FileGood(Passwords, Records) /\ WaitingTypes /\ CredentialTypes
           /\ FileTypeOK(Passwords, Records)
           /\ Newest \in [doc : Records, calls : SUBSET Calls]
           /\ Len(versions) \in DOMAIN versions /\ Len(versions) \in Nat \ {0}
<1>1. FileTypeOK(Passwords, Records) /\ WaitingTypes /\ CredentialTypes
  BY CredentialTypesApart DEF CredentialIInv
<1>2. FileGood(Passwords, Records)
  BY <1>1 DEF CredentialIInv, FileGood, HeadIsAtWork, CredentialTypes
<1> QED
  BY <1>1, <1>2, NewestIsVersion

\* The invariant from its parts, after a step.
LEMMA CredentialTogether ==
    ASSUME FileTypeOK(Passwords, Records)', FileInOrder', CredentialTypes', WaitingTypes',
           HeadIsAtWork', OperationsAreWaiting', RecordsComeWithRename', RecordFollowsFile'
    PROVE  CredentialIInv'
<1>1. CredentialTypeOK'
  BY DEF CredentialTypeOK, CredentialTypes, WaitingTypes
<1> QED
  BY <1>1 DEF CredentialIInv

\* The head of the queue and what is known of it.
LEMMA HeadIsAsking ==
    ASSUME CredentialIInv, operations # <<>>
    PROVE  /\ Head(operations) \in Callers /\ reply[Head(operations)] = "queued"
           /\ request[Head(operations)] \in Requests
           /\ request[Head(operations)].op = "verify" <=> Head(operations) \in Checks
           /\ request[Head(operations)].op # "enroll" => record # None
<1>1. Head(operations) \in Callers /\ Head(operations) = operations[1] /\ 1 \in DOMAIN operations
  BY RecordFileIsGood, TailOfQueue DEF WaitingTypes
<1> QED
  BY <1>1 DEF CredentialIInv, OperationsAreWaiting

\* A call that waits nowhere in the file operation is not renamed.
LEMMA NobodyElseIsRenamed ==
    ASSUME CredentialIInv, NEW c \in Calls, reply[c] \in {"unused", "queued"},
           ~Renamed \/ file.call # c
    PROVE  \A i \in DOMAIN versions : c \notin versions[i].calls
  BY DEF CredentialIInv, RecordsComeWithRename

\* No version knows a call that nobody has made.
LEMMA UnmadeIsUnknown ==
    ASSUME CredentialsAreGood, CredentialIInv, NEW c \in Calls, reply[c] = "unused"
    PROVE  \A i \in DOMAIN versions : c \notin versions[i].calls
<1>1. ~Renamed \/ file.call # c
  <2>1. SUFFICES ASSUME Renamed, file.call = c PROVE FALSE
    OBVIOUS
  <2>2. ~At("idle") /\ c # None
    BY <2>1 DEF Renamed, At, CredentialsAreGood, ChecksAssumption
  <2>3. startup = "up" /\ operations # <<>> /\ Head(operations) = c
    BY <2>1, <2>2, RecordFileIsGood DEF CredentialIInv, HeadIsAtWork, CredentialTypes
  <2> QED
    BY <2>3, HeadIsAsking
<1> QED
  BY <1>1, NobodyElseIsRenamed

-----------------------------------------------------------------------------
(***************************************************************************)
(* Its queue.                                                              *)
(***************************************************************************)
\* A call joins the end of the queue.
LEMMA OperationJoins ==
    ASSUME WaitingTypes, OperationsAreWaiting, NEW c \in Callers, reply[c] = "unused",
           NEW q \in Requests, q.op = "verify" <=> c \in Checks,
           q.op # "enroll" => record # None, UNCHANGED record,
           operations' = Append(operations, c), reply' = [reply EXCEPT ![c] = "queued"],
           request' = [request EXCEPT ![c] = q]
    PROVE  /\ WaitingTypes' /\ OperationsAreWaiting' /\ operations' # <<>>
           /\ operations # <<>> => /\ Head(operations') = Head(operations)
                                   /\ request'[Head(operations)] = request[Head(operations)]
<1>1. /\ Append(operations, c) \in Seq(Callers) /\ Append(operations, c) # <<>>
      /\ DOMAIN operations = 1 .. Len(operations)
      /\ DOMAIN Append(operations, c) = 1 .. Len(operations) + 1
      /\ Append(operations, c)[Len(operations) + 1] = c
      /\ \A i \in 1 .. Len(operations) : Append(operations, c)[i] = operations[i]
  BY AppendVersion DEF WaitingTypes
<1>2. WaitingTypes'
  BY <1>1 DEF WaitingTypes, Replies
<1>3. Len(operations) \in Nat
  BY DEF WaitingTypes
<1>4. \A i \in DOMAIN operations : operations[i] # c /\ operations[i] \in Callers
  BY DEF OperationsAreWaiting, WaitingTypes
<1>5. /\ reply'[c] = "queued" /\ request'[c] = q
      /\ \A d \in Callers \ {c} : reply'[d] = reply[d] /\ request'[d] = request[d]
  BY DEF WaitingTypes
<1>6. \A i, j \in DOMAIN operations' : operations'[i] = operations'[j] => i = j
  BY <1>1, <1>3, <1>4 DEF OperationsAreWaiting
<1>7. \A i \in DOMAIN operations' : reply'[operations'[i]] = "queued"
  BY <1>1, <1>3, <1>4, <1>5 DEF OperationsAreWaiting
<1>8. ASSUME NEW d \in Callers, reply'[d] = "queued"
      PROVE  /\ \E i \in DOMAIN operations' : operations'[i] = d
             /\ request'[d] \in Requests /\ (request'[d].op = "verify" <=> d \in Checks)
             /\ request'[d].op # "enroll" => record' # None
  <2>1. CASE d = c
    BY <1>1, <1>3, <1>5, <2>1
  <2>2. CASE d # c
    <3>1. reply[d] = "queued" /\ request'[d] = request[d]
      BY <1>5, <1>8, <2>2
    <3>2. PICK i \in DOMAIN operations : operations[i] = d
      BY <3>1 DEF OperationsAreWaiting
    <3>3. i \in DOMAIN operations' /\ operations'[i] = d
      BY <1>1, <1>3, <3>2
    <3>4. /\ request[d] \in Requests /\ (request[d].op = "verify" <=> d \in Checks)
          /\ request[d].op # "enroll" => record # None
      BY <3>1 DEF OperationsAreWaiting
    <3> QED
      BY <3>1, <3>3, <3>4
  <2> QED
    BY <2>1, <2>2
<1>9. OperationsAreWaiting'
  BY <1>6, <1>7, <1>8 DEF OperationsAreWaiting
<1>10. ASSUME operations # <<>>
       PROVE  /\ Head(operations') = Head(operations)
              /\ request'[Head(operations)] = request[Head(operations)]
  <2>1. Head(operations) = operations[1] /\ 1 \in DOMAIN operations
    BY <1>10, TailOfQueue DEF WaitingTypes
  <2>2. Head(operations') = Head(operations)
    BY <1>1, <1>3, <1>10 DEF WaitingTypes
  <2> QED
    BY <1>4, <1>5, <2>1, <2>2
<1> QED
  BY <1>1, <1>2, <1>9, <1>10

\* The head of the queue is answered and leaves; a record that was there stays.
LEMMA OperationLeaves ==
    ASSUME WaitingTypes, OperationsAreWaiting, operations # <<>>,
           NEW a \in Replies \ {"queued"}, operations' = Tail(operations),
           reply' = [reply EXCEPT ![Head(operations)] = a], UNCHANGED request,
           record # None => record' # None
    PROVE  WaitingTypes' /\ OperationsAreWaiting'
<1>1. /\ Head(operations) \in Callers /\ Head(operations) = operations[1] /\ 1 \in DOMAIN operations
      /\ Tail(operations) \in Seq(Callers) /\ DOMAIN operations = 1 .. Len(operations)
      /\ DOMAIN Tail(operations) = 1 .. Len(operations) - 1 /\ Len(operations) \in Nat \ {0}
      /\ \A i \in 1 .. Len(operations) - 1 : Tail(operations)[i] = operations[i + 1]
  BY TailOfQueue DEF WaitingTypes
<1>2. PICK c \in Callers : c = Head(operations)
  BY <1>1
<1>3. reply'[c] = a /\ \A d \in Callers \ {c} : reply'[d] = reply[d]
  BY <1>2 DEF WaitingTypes
<1>4. WaitingTypes'
  BY <1>1, <1>2 DEF WaitingTypes
<1>5. ASSUME NEW i \in DOMAIN operations'
      PROVE  i + 1 \in DOMAIN operations /\ operations'[i] = operations[i + 1] /\ operations'[i] # c
             /\ operations'[i] \in Callers /\ i \in Nat
  <2>1. i + 1 \in DOMAIN operations /\ operations'[i] = operations[i + 1] /\ i \in Nat /\ i + 1 # 1
    BY <1>1
  <2>2. operations[i + 1] \in Callers
    BY <2>1 DEF WaitingTypes
  <2>3. operations[i + 1] # operations[1]
    BY <1>1, <2>1 DEF OperationsAreWaiting
  <2> QED
    BY <1>1, <1>2, <2>1, <2>2, <2>3
<1>6. \A i, j \in DOMAIN operations' : operations'[i] = operations'[j] => i = j
  <2>1. SUFFICES ASSUME NEW i \in DOMAIN operations', NEW j \in DOMAIN operations',
                        operations'[i] = operations'[j]
                 PROVE  i = j
    OBVIOUS
  <2>2. operations[i + 1] = operations[j + 1] /\ i + 1 \in DOMAIN operations
        /\ j + 1 \in DOMAIN operations /\ i \in Nat /\ j \in Nat
    BY <1>5, <2>1
  <2>3. i + 1 = j + 1
    BY <2>2 DEF OperationsAreWaiting
  <2> QED
    BY <2>2, <2>3
<1>7. \A i \in DOMAIN operations' : reply'[operations'[i]] = "queued"
  BY <1>3, <1>5 DEF OperationsAreWaiting
<1>8. ASSUME NEW d \in Callers, reply'[d] = "queued"
      PROVE  /\ \E i \in DOMAIN operations' : operations'[i] = d
             /\ request'[d] \in Requests /\ (request'[d].op = "verify" <=> d \in Checks)
             /\ request'[d].op # "enroll" => record' # None
  <2>1. d # c /\ reply[d] = "queued"
    BY <1>3, <1>8
  <2>2. PICK j \in DOMAIN operations : operations[j] = d
    BY <2>1 DEF OperationsAreWaiting
  <2>3. j # 1 /\ j - 1 \in DOMAIN operations' /\ (j - 1) + 1 = j
    BY <1>1, <1>2, <2>1, <2>2
  <2>4. operations'[j - 1] = d
    BY <1>5, <2>2, <2>3
  <2>5. /\ request[d] \in Requests /\ (request[d].op = "verify" <=> d \in Checks)
        /\ request[d].op # "enroll" => record # None
    BY <2>1 DEF OperationsAreWaiting
  <2> QED
    BY <2>3, <2>4, <2>5
<1> QED
  BY <1>4, <1>6, <1>7, <1>8 DEF OperationsAreWaiting

-----------------------------------------------------------------------------
(***************************************************************************)
(* Its steps.                                                              *)
(***************************************************************************)
\* The running file operation takes a step.
LEMMA RecordFileStepIsSafe ==
    ASSUME CredentialsAreGood, CredentialIInv, FileStep, UNCHANGED recordVars
    PROVE  CredentialIInv'
<1>1. FileEffect(Passwords, Records)
  BY RecordFileIsGood, FileStepIsGood, CredentialTypesApart DEF CredentialsAreGood
<1>2. /\ FileTypeOK(Passwords, Records)' /\ FileInOrder' /\ SameOperation
      /\ Silent \/ Hardens \/ Renames
  BY <1>1 DEF FileEffect
<1>3. UNCHANGED <<startup, record, hashing, operations, request, reply>>
  BY DEF recordVars
<1>4. CredentialTypes' /\ WaitingTypes' /\ OperationsAreWaiting'
  BY <1>3, RecordFileIsGood DEF CredentialIInv, CredentialTypes, WaitingTypes, OperationsAreWaiting
<1>5. HeadIsAtWork'
  BY <1>2, <1>3 DEF CredentialIInv, HeadIsAtWork, SameOperation, At
<1>6. CASE Silent
  <2>1. Newest' = Newest
    BY <1>6 DEF Silent, Newest
  <2>2. RecordsComeWithRename' /\ RecordFollowsFile'
    BY <1>2, <1>3, <1>6, <2>1 DEF CredentialIInv, RecordsComeWithRename, RecordFollowsFile, Silent,
                                  SameOperation
  <2> QED
    BY <1>2, <1>4, <1>5, <2>2, CredentialTogether
<1>7. CASE Hardens
  <2>1. Len(versions) \in DOMAIN versions
    BY RecordFileIsGood
  <2>2. Len(<<Newest>>) = 1 /\ DOMAIN <<Newest>> = {1} /\ <<Newest>>[1] = Newest
    OBVIOUS
  <2>3. Newest' = Newest /\ DOMAIN versions' = {1} /\ versions'[1] = versions[Len(versions)]
    BY <1>7, <2>2 DEF Hardens, Newest
  <2>4. RecordsComeWithRename'
    BY <1>2, <1>3, <1>7, <2>1, <2>3 DEF CredentialIInv, RecordsComeWithRename, Hardens, SameOperation
  <2>5. RecordFollowsFile'
    BY <1>3, <1>7, <2>3 DEF CredentialIInv, RecordFollowsFile, Hardens
  <2> QED
    BY <1>2, <1>4, <1>5, <2>4, <2>5, CredentialTogether
<1>8. CASE Renames
  <2> DEFINE e == [doc |-> file.value, calls |-> Newest.calls \cup ({file.call} \ {None})]
             E == [doc : Records, calls : SUBSET Calls]
  <2>1. ~Renamed /\ Renamed' /\ versions' = Append(versions, e) /\ file.op = "replace"
    BY <1>8 DEF Renames
  <2>2. /\ versions \in Seq(E) /\ Newest \in E /\ Len(versions) \in DOMAIN versions
        /\ file.value \in Passwords /\ file.call \in Calls \cup {None}
    BY <1>2, RecordFileIsGood, <2>1 DEF FileGood, FileTypeOK, FileRecord, SameOperation, At
  <2>3. Passwords \subseteq Records
    BY CredentialTypesApart
  <2>4. e \in E /\ e.doc = file.value /\ e.calls = Newest.calls \cup ({file.call} \ {None})
    BY <2>2, <2>3
  <2> HIDE DEF e, E
  <2>5. /\ Len(Append(versions, e)) = Len(versions) + 1 /\ DOMAIN versions = 1 .. Len(versions)
        /\ DOMAIN Append(versions, e) = 1 .. Len(versions) + 1 /\ Len(versions) \in Nat
        /\ Append(versions, e)[Len(versions) + 1] = e
        /\ \A i \in 1 .. Len(versions) : Append(versions, e)[i] = versions[i]
    BY <2>2, <2>4, AppendVersion
  <2>6. Newest' = e
    BY <2>1, <2>5 DEF Newest
  <2>7. file'.call = file.call /\ file'.value = file.value
    BY <1>2 DEF SameOperation
  <2>8. ASSUME NEW c \in Calls, reply[c] \in {"unused", "queued"}, file.call # c,
               NEW i \in DOMAIN versions'
        PROVE  c \notin versions'[i].calls
    <3>1. \A j \in DOMAIN versions : c \notin versions[j].calls
      BY <2>8, NobodyElseIsRenamed
    <3>2. CASE i = Len(versions) + 1
      <4>1. c \notin Newest.calls
        BY <2>2, <3>1 DEF Newest
      <4> QED
        BY <2>1, <2>4, <2>5, <2>8, <3>2, <4>1
    <3>3. CASE i # Len(versions) + 1
      BY <2>1, <2>5, <3>1, <3>3
    <3> QED
      BY <3>2, <3>3
  <2>9. RecordsComeWithRename'
    BY <1>3, <2>1, <2>2, <2>4, <2>6, <2>7, <2>8 DEF RecordsComeWithRename
  <2>10. RecordFollowsFile'
    BY <2>1 DEF RecordFollowsFile
  <2> QED
    BY <1>2, <1>4, <1>5, <2>9, <2>10, CredentialTogether
<1> QED
  BY <1>2, <1>6, <1>7, <1>8

\* Nothing runs, or something begins: the file is in order and nothing is renamed.
LEMMA FreshRecordFile ==
    ASSUME CredentialIInv, file' \in FileRecord(Passwords),
           UNCHANGED <<versions, hostile, temp, litter>>,
           At("idle") \/ At("done"), file'.open = {},
           \/ file' = IdleFile /\ file'.pc = "idle"
           \/ file'.pc = "reading" /\ file'.op = "read"
           \/ file'.pc = "openingParent" /\ file'.op \in {"replace", "sync"}
    PROVE  FileTypeOK(Passwords, Records)' /\ FileInOrder' /\ ~Renamed' /\ Newest' = Newest
<1>0. ~temp.exists
  BY DEF CredentialIInv, FileInOrder, At, Writing
<1>1. FileTypeOK(Passwords, Records)'
  BY RecordFileIsGood DEF FileTypeOK
<1>2. FileInOrder'
  BY <1>0 DEF FileInOrder, At, Writing
<1>3. ~Renamed' /\ Newest' = Newest
  BY DEF Renamed, At, Newest
<1> QED
  BY <1>1, <1>2, <1>3

\* The file is left as it is, operation and all.
LEMMA FileIsLeft ==
    ASSUME CredentialIInv, UNCHANGED <<versions, hostile, temp, litter, file>>
    PROVE  /\ FileTypeOK(Passwords, Records)' /\ FileInOrder' /\ (Renamed' <=> Renamed)
           /\ Newest' = Newest
<1>1. FileTypeOK(Passwords, Records)'
  BY RecordFileIsGood DEF FileTypeOK
<1>2. FileInOrder'
  BY DEF CredentialIInv, FileInOrder, At
<1>3. (Renamed' <=> Renamed) /\ Newest' = Newest
  BY DEF Renamed, At, Newest
<1> QED
  BY <1>1, <1>2, <1>3

\* initializeLocal reads the file, and takes the record over or gives up.
LEMMA InitializationIsSafe ==
    ASSUME CredentialsAreGood, CredentialIInv, InitializeLocal \/ RecordLoaded
    PROVE  CredentialIInv'
<1>0. UNCHANGED <<versions, hostile, temp, litter, hashing, operations, request, reply>>
  BY DEF InitializeLocal, RecordLoaded
<1>1. ~Renamed \/ file.call = None
  BY DEF InitializeLocal, RecordLoaded, CredentialIInv, HeadIsAtWork, Renamed, At
<1>2. \A c \in Callers : reply[c] # "queued"
  <2>1. startup # "up" /\ operations = <<>>
    BY DEF InitializeLocal, RecordLoaded, CredentialIInv, HeadIsAtWork
  <2> QED
    BY <2>1 DEF CredentialIInv, OperationsAreWaiting
<1>3. WaitingTypes' /\ OperationsAreWaiting'
  BY <1>0, <1>2, RecordFileIsGood DEF CredentialIInv, WaitingTypes, OperationsAreWaiting
<1>4. \A c \in Calls : reply[c] \in {"unused", "queued"} =>
         \A i \in DOMAIN versions : c \notin versions[i].calls
  BY <1>1, NobodyElseIsRenamed DEF CredentialsAreGood, ChecksAssumption
<1>5. CASE InitializeLocal
  <2>1. startup = "down" /\ startup' = "starting" /\ UNCHANGED record /\ At("idle")
    BY <1>5 DEF InitializeLocal, CredentialIInv, HeadIsAtWork
  <2>2. /\ file' \in FileRecord(Passwords) /\ file'.op = "read" /\ file'.call = None
        /\ file'.open = {} /\ file'.pc = "reading"
    BY <1>5, FileBegins DEF InitializeLocal, CredentialsAreGood
  <2>3. FileTypeOK(Passwords, Records)' /\ FileInOrder' /\ ~Renamed' /\ Newest' = Newest
    BY <1>0, <2>1, <2>2, FreshRecordFile
  <2>4. CredentialTypes' /\ RecordFollowsFile'
    BY <1>0, <2>1, RecordFileIsGood DEF CredentialTypes, RecordFollowsFile
  <2>5. HeadIsAtWork'
    BY <1>0, <2>1, <2>2 DEF CredentialIInv, HeadIsAtWork, At
  <2>6. RecordsComeWithRename'
    BY <1>0, <1>4, <2>3 DEF RecordsComeWithRename
  <2> QED
    BY <1>3, <2>3, <2>4, <2>5, <2>6, CredentialTogether
<1>6. CASE RecordLoaded
  <2>1. /\ startup = "starting" /\ At("done") /\ file' = IdleFile
        /\ \/ startup' = "up" /\ record' = Newest.doc /\ Newest.doc # Another
           \/ startup' = "down" /\ UNCHANGED record
    BY <1>6 DEF RecordLoaded
  <2>2. /\ file' \in FileRecord(Passwords) /\ file'.op = None /\ file'.call = None
        /\ file'.open = {} /\ file'.pc = "idle"
    BY <2>1, IdleIsRecord DEF CredentialsAreGood
  <2>3. FileTypeOK(Passwords, Records)' /\ FileInOrder' /\ ~Renamed' /\ Newest' = Newest
    BY <1>0, <2>1, <2>2, FreshRecordFile
  <2>4. CredentialTypes'
    BY <1>0, <2>1, RecordFileIsGood DEF CredentialTypes, Records
  <2>5. RecordFollowsFile'
    BY <2>1, <2>3 DEF RecordFollowsFile
  <2>6. ~hashing /\ operations = <<>>
    BY <2>1 DEF CredentialIInv, HeadIsAtWork
  <2>7. HeadIsAtWork'
    BY <1>0, <2>1, <2>2, <2>6 DEF HeadIsAtWork, At
  <2>8. RecordsComeWithRename'
    BY <1>0, <1>4, <2>3 DEF RecordsComeWithRename
  <2> QED
    BY <1>3, <2>3, <2>4, <2>5, <2>7, <2>8, CredentialTogether
<1> QED
  BY <1>5, <1>6

\* enroll, replacePassword and verify join the queue, or are refused at once.
LEMMA AskIsSafe ==
    ASSUME CredentialsAreGood, CredentialIInv, NEW c \in Callers,
           NEW op \in {"enroll", "replace", "verify"}, NEW p \in Passwords,
           op = "verify" <=> c \in Checks, Ask(c, op, p)
    PROVE  CredentialIInv'
<1>1. /\ startup = "up" /\ reply[c] = "unused"
      /\ UNCHANGED <<versions, hostile, temp, litter, file, startup, record, hashing>>
  BY DEF Ask, fileVars
<1>2. FileTypeOK(Passwords, Records)' /\ FileInOrder' /\ (Renamed' <=> Renamed) /\ Newest' = Newest
  BY <1>1, FileIsLeft
<1>3. CredentialTypes' /\ RecordFollowsFile'
  BY <1>1, <1>2, RecordFileIsGood DEF CredentialIInv, CredentialTypes, RecordFollowsFile
<1>4. ASSUME NEW a \in Replies, reply' = [reply EXCEPT ![c] = a]
      PROVE  RecordsComeWithRename'
  <2>1. \A d \in Calls : reply'[d] \in {"unused", "queued"} => reply[d] \in {"unused", "queued"}
    BY <1>1, <1>4, RecordFileIsGood DEF WaitingTypes, Callers
  <2> QED
    BY <1>1, <1>2, <2>1 DEF CredentialIInv, RecordsComeWithRename
<1>5. CASE op # "enroll" /\ record = None
  <2>1. reply' = [reply EXCEPT ![c] = "refused"] /\ UNCHANGED <<operations, request>>
    BY <1>5 DEF Ask
  <2>2. reply'[c] = "refused" /\ \A d \in Callers \ {c} : reply'[d] = reply[d]
    BY <2>1, RecordFileIsGood DEF WaitingTypes
  <2>3. WaitingTypes'
    BY <2>1, RecordFileIsGood DEF WaitingTypes, Replies
  <2>4. \A i \in DOMAIN operations : operations[i] # c /\ operations[i] \in Callers
    BY <1>1, RecordFileIsGood DEF CredentialIInv, OperationsAreWaiting, WaitingTypes
  <2>5. OperationsAreWaiting'
    BY <1>1, <2>1, <2>2, <2>4 DEF CredentialIInv, OperationsAreWaiting
  <2>6. HeadIsAtWork'
    BY <1>1, <2>1 DEF CredentialIInv, HeadIsAtWork, At
  <2>7. RecordsComeWithRename'
    BY <1>4, <2>1 DEF Replies
  <2> QED
    BY <1>2, <1>3, <2>3, <2>5, <2>6, <2>7, CredentialTogether
<1>6. CASE ~(op # "enroll" /\ record = None)
  <2> DEFINE q == [op |-> op, password |-> p]
  <2>1. /\ reply' = [reply EXCEPT ![c] = "queued"] /\ operations' = Append(operations, c)
        /\ request' = [request EXCEPT ![c] = q]
    BY <1>6 DEF Ask
  <2>2. q \in Requests /\ q.op = op
    BY DEF Requests
  <2> HIDE DEF q
  <2>3. WaitingTypes /\ OperationsAreWaiting
    BY RecordFileIsGood DEF CredentialIInv
  <2>4. q.op = "verify" <=> c \in Checks
    BY <2>2
  <2>5. q.op # "enroll" => record # None
    BY <1>6, <2>2
  <2>6. /\ WaitingTypes' /\ OperationsAreWaiting' /\ operations' # <<>>
        /\ operations # <<>> => /\ Head(operations') = Head(operations)
                                /\ request'[Head(operations)] = request[Head(operations)]
    BY <1>1, <2>1, <2>2, <2>3, <2>4, <2>5, OperationJoins
  <2>7. HeadIsAtWork'
    BY <1>1, <2>6 DEF CredentialIInv, HeadIsAtWork, At
  <2>8. RecordsComeWithRename'
    BY <1>4, <2>1 DEF Replies
  <2> QED
    BY <1>2, <1>3, <2>6, <2>7, <2>8, CredentialTogether
<1> QED
  BY <1>5, <1>6

\* The head of the queue is answered without an effect on the file.
LEMMA SettledIsSafe ==
    ASSUME CredentialsAreGood, CredentialIInv, startup = "up", operations # <<>>, At("idle"),
           NEW a \in Replies \ {"queued", "unused"}, Settle(a),
           UNCHANGED <<versions, hostile, temp, litter, file, startup, record, request>>
    PROVE  CredentialIInv'
<1>1. /\ operations' = Tail(operations) /\ reply' = [reply EXCEPT ![Head(operations)] = a]
      /\ ~hashing' /\ hashing' \in BOOLEAN
  BY DEF Settle
<1>2. FileTypeOK(Passwords, Records)' /\ FileInOrder' /\ (Renamed' <=> Renamed) /\ Newest' = Newest
  BY FileIsLeft
<1>3. CredentialTypes' /\ RecordFollowsFile'
  BY <1>1, <1>2, RecordFileIsGood DEF CredentialIInv, CredentialTypes, RecordFollowsFile
<1>4. WaitingTypes' /\ OperationsAreWaiting'
  <2>1. WaitingTypes /\ OperationsAreWaiting
    BY RecordFileIsGood DEF CredentialIInv
  <2> QED
    BY <1>1, <2>1, OperationLeaves
<1>5. HeadIsAtWork'
  BY <1>1 DEF HeadIsAtWork, At
<1>6. PICK h \in Callers : h = Head(operations)
  BY HeadIsAsking
<1>7. \A d \in Calls : reply'[d] \in {"unused", "queued"} => reply[d] \in {"unused", "queued"}
  BY <1>1, <1>6, RecordFileIsGood DEF WaitingTypes, Callers
<1>8. RecordsComeWithRename'
  BY <1>2, <1>7 DEF CredentialIInv, RecordsComeWithRename
<1> QED
  BY <1>2, <1>3, <1>4, <1>5, <1>8, CredentialTogether

\* The head of the queue runs up to the hasher, or finds the server claimed.
LEMMA RunHeadIsSafe ==
    ASSUME CredentialsAreGood, CredentialIInv, RunHead
    PROVE  CredentialIInv'
<1>1. /\ startup = "up" /\ operations # <<>> /\ At("idle")
      /\ UNCHANGED <<versions, hostile, temp, litter, file, startup, record, request>>
  BY DEF RunHead, fileVars
<1>2. CASE request[Head(operations)].op = "enroll" /\ Claimed
  <2>1. Settle("already") /\ "already" \in Replies \ {"queued", "unused"}
    BY <1>2 DEF RunHead, Replies
  <2> QED
    BY <1>1, <2>1, SettledIsSafe
<1>3. CASE ~(request[Head(operations)].op = "enroll" /\ Claimed)
  <2>1. hashing' /\ hashing' \in BOOLEAN /\ UNCHANGED <<reply, operations>>
    BY <1>3 DEF RunHead
  <2>2. FileTypeOK(Passwords, Records)' /\ FileInOrder' /\ (Renamed' <=> Renamed) /\ Newest' = Newest
    BY <1>1, FileIsLeft
  <2>3. CredentialTypes' /\ RecordFollowsFile'
    BY <1>1, <2>1, <2>2, RecordFileIsGood DEF CredentialIInv, CredentialTypes, RecordFollowsFile
  <2>4. WaitingTypes' /\ OperationsAreWaiting'
    BY <1>1, <2>1, RecordFileIsGood DEF CredentialIInv, WaitingTypes, OperationsAreWaiting
  <2>5. HeadIsAtWork'
    BY <1>1, <1>3, <2>1 DEF HeadIsAtWork, At, Claimed
  <2>6. RecordsComeWithRename'
    BY <1>1, <2>1, <2>2 DEF CredentialIInv, RecordsComeWithRename
  <2> QED
    BY <2>2, <2>3, <2>4, <2>5, <2>6, CredentialTogether
<1> QED
  BY <1>2, <1>3

\* The hasher has answered: the password is compared, or the file is replaced.
LEMMA HashedIsSafe ==
    ASSUME CredentialsAreGood, CredentialIInv, Hashed
    PROVE  CredentialIInv'
<1>1. /\ hashing /\ startup = "up" /\ operations # <<>> /\ At("idle")
      /\ request[Head(operations)].op = "enroll" => record = None
      /\ UNCHANGED <<versions, hostile, temp, litter, startup, record, request>>
  BY DEF Hashed, CredentialIInv, HeadIsAtWork
<1>2. ASSUME NEW a \in {"right", "wrong", "failed"}, Settle(a), UNCHANGED file
      PROVE  CredentialIInv'
  <2>1. a \in Replies \ {"queued", "unused"}
    BY DEF Replies
  <2> QED
    BY <1>1, <1>2, <2>1, SettledIsSafe
<1>3. ASSUME request[Head(operations)].op # "verify",
             Begin("replace", request[Head(operations)].password, Head(operations)),
             hashing' = FALSE, UNCHANGED <<reply, operations>>
      PROVE  CredentialIInv'
  <2>1. /\ request[Head(operations)] \in Requests /\ Head(operations) \in Callers
        /\ Head(operations) \notin Checks
    BY <1>1, <1>3, HeadIsAsking
  <2>2. PICK p \in Passwords : p = request[Head(operations)].password
    BY <2>1 DEF Requests
  <2>3. PICK h \in Calls : h = Head(operations)
    BY <2>1 DEF Callers
  <2>4. Begin("replace", p, h) /\ p \in Passwords \cup {None} /\ h \in Calls \cup {None}
    BY <1>3, <2>2, <2>3
  <2>5. /\ file' \in FileRecord(Passwords) /\ file'.op = "replace" /\ file'.call = h
        /\ file'.value = p /\ file'.open = {} /\ file'.pc = "openingParent"
    BY <2>4, FileBegins DEF CredentialsAreGood
  <2>6. FileTypeOK(Passwords, Records)' /\ FileInOrder' /\ ~Renamed' /\ Newest' = Newest
    BY <1>1, <2>5, FreshRecordFile
  <2>7. ~Renamed
    BY <1>1 DEF Renamed, At
  <2>8. CredentialTypes' /\ RecordFollowsFile'
    BY <1>1, <1>3, <2>6, <2>7, RecordFileIsGood DEF CredentialIInv, CredentialTypes,
                                                    RecordFollowsFile
  <2>9. WaitingTypes' /\ OperationsAreWaiting'
    BY <1>1, <1>3, RecordFileIsGood DEF CredentialIInv, WaitingTypes, OperationsAreWaiting
  <2>10. HeadIsAtWork'
    BY <1>1, <1>3, <2>3, <2>5 DEF HeadIsAtWork, At
  <2>11. RecordsComeWithRename'
    BY <1>1, <1>3, <2>6, <2>7, NobodyElseIsRenamed DEF RecordsComeWithRename
  <2> QED
    BY <2>6, <2>8, <2>9, <2>10, <2>11, CredentialTogether
<1> QED
  BY <1>2, <1>3 DEF Hashed

\* The outcome and the reply of the replacement at the head of the queue.
LEMMA OutcomeIsReplied ==
    ASSUME CredentialIInv, startup = "up", At("done")
    PROVE  /\ operations # <<>> /\ Head(operations) \in Calls /\ file.call = Head(operations)
           /\ file.op = "replace" /\ file.value \in Passwords
           /\ ReplyTo(file.result) \in {"durable", "uncertain", "failed"}
           /\ Renamed <=> Stored
           /\ ReplyTo(file.result) = "durable" => Stored /\ Len(versions) = 1
           /\ ReplyTo(file.result) = "uncertain" => Stored
           /\ ReplyTo(file.result) = "failed" => ~Stored
<1>1. /\ operations # <<>> /\ Head(operations) \in Calls /\ file.call = Head(operations)
      /\ file.op = "replace" /\ file.value \in Passwords
  BY DEF CredentialIInv, HeadIsAtWork, At
<1>2. file.result \in Commits \cup {"threw", "not_committed"}
  BY <1>1 DEF CredentialIInv, FileInOrder
<1>3. file.result = "committed" => Len(versions) = 1
  BY DEF CredentialIInv, FileInOrder
<1>4. /\ file.result = "committed" => ReplyTo(file.result) = "durable"
      /\ file.result = "committed_durability_uncertain" => ReplyTo(file.result) = "uncertain"
      /\ file.result \in {"threw", "not_committed"} => ReplyTo(file.result) = "failed"
  BY DEF ReplyTo
<1>5. Renamed <=> Stored
  BY <1>1 DEF Renamed, Stored, Commits, At
<1> QED
  BY <1>1, <1>2, <1>3, <1>4, <1>5 DEF Commits, Stored

\* The replacement is over and its caller is answered.
LEMMA ReplacedIsSafe ==
    ASSUME CredentialsAreGood, CredentialIInv, Replaced
    PROVE  CredentialIInv'
<1>1. /\ startup = "up" /\ At("done") /\ file' = IdleFile /\ ~hashing' /\ hashing' \in BOOLEAN
      /\ record' = IF Stored THEN file.value ELSE record
      /\ operations' = Tail(operations)
      /\ reply' = [reply EXCEPT ![Head(operations)] = ReplyTo(file.result)]
      /\ UNCHANGED <<versions, hostile, temp, litter, startup, request>>
  BY DEF Replaced, Settle
<1>2. PICK h \in Calls : h = Head(operations)
  BY <1>1, OutcomeIsReplied
<1>3. PICK a \in {"durable", "uncertain", "failed"} : a = ReplyTo(file.result)
  BY <1>1, OutcomeIsReplied
<1>4. operations # <<>> /\ file.call = h /\ file.value \in Passwords /\ h \in Callers
      /\ a \in Replies \ {"queued"}
  BY <1>1, <1>2, OutcomeIsReplied DEF Callers, Replies
<1>5. Stored => Newest.doc = file.value
  BY <1>1, OutcomeIsReplied DEF CredentialIInv, RecordsComeWithRename
<1>6. None \notin Passwords
  BY DEF CredentialsAreGood, RecordsAssumption
<1>7. WaitingTypes' /\ OperationsAreWaiting'
  <2>1. WaitingTypes /\ OperationsAreWaiting
    BY RecordFileIsGood DEF CredentialIInv
  <2>2. record # None => record' # None
    BY <1>1, <1>4, <1>6
  <2> QED
    BY <1>1, <1>3, <1>4, <2>1, <2>2, OperationLeaves
<1>8. /\ file' \in FileRecord(Passwords) /\ file'.op = None /\ file'.call = None
      /\ file'.open = {} /\ file'.pc = "idle"
  BY <1>1, IdleIsRecord DEF CredentialsAreGood
<1>9. FileTypeOK(Passwords, Records)' /\ FileInOrder' /\ ~Renamed' /\ Newest' = Newest
  BY <1>1, <1>8, FreshRecordFile
<1>10. CredentialTypes'
  BY <1>1, <1>4, RecordFileIsGood DEF CredentialTypes
<1>11. RecordFollowsFile'
  BY <1>1, <1>5, <1>9, OutcomeIsReplied DEF CredentialIInv, RecordFollowsFile
<1>12. HeadIsAtWork'
  BY <1>1, <1>8 DEF HeadIsAtWork, At
<1>13. ASSUME NEW c \in Calls, reply'[c] \in {"unused", "queued"}
       PROVE  \A i \in DOMAIN versions : c \notin versions[i].calls
  <2>1. c # h /\ reply[c] \in {"unused", "queued"}
    BY <1>1, <1>2, <1>3, <1>13, RecordFileIsGood DEF WaitingTypes, Callers
  <2> QED
    BY <1>4, <2>1, NobodyElseIsRenamed
<1>14. RecordsComeWithRename'
  BY <1>1, <1>9, <1>13 DEF RecordsComeWithRename
<1> QED
  BY <1>7, <1>9, <1>10, <1>11, <1>12, <1>14, CredentialTogether

\* The process ends: the queue and the record in memory are lost, and a power failure
\* chooses the version of the file that is found again.
LEMMA ServerEndsIsSafe ==
    ASSUME CredentialsAreGood, CredentialIInv, ServerEnds,
           UNCHANGED versions \/ \E i \in DOMAIN versions : versions' = <<versions[i]>>
    PROVE  CredentialIInv'
<1> DEFINE E == [doc : Records, calls : SUBSET Calls]
<1>1. /\ startup' = "down" /\ record' = None /\ hashing' = FALSE /\ operations' = <<>>
      /\ reply' = [c \in Callers |-> IF reply[c] = "queued" THEN "lost" ELSE reply[c]]
      /\ UNCHANGED <<request, hostile>> /\ temp' = NoTemp /\ file' = IdleFile
      /\ litter' = (litter \/ temp.exists)
  BY DEF ServerEnds, FileLost
<1>2. versions \in Seq(E) /\ versions # <<>> /\ hostile \in {"no", "early", "late"} /\ litter \in BOOLEAN
      /\ temp \in [exists : BOOLEAN, written : 0 .. Size, synced : BOOLEAN]
  BY RecordFileIsGood DEF FileTypeOK
<1>3. /\ versions' \in Seq(E) /\ versions' # <<>>
      /\ \A j \in DOMAIN versions' : \E i \in DOMAIN versions : versions'[j] = versions[i]
  <2>1. CASE UNCHANGED versions
    BY <1>2, <2>1
  <2>2. ASSUME NEW i \in DOMAIN versions, versions' = <<versions[i]>>
        PROVE  /\ versions' \in Seq(E) /\ versions' # <<>>
               /\ \A j \in DOMAIN versions' : \E k \in DOMAIN versions : versions'[j] = versions[k]
    <3> HIDE DEF E
    <3>1. PICK e \in E : e = versions[i]
      <4>1. versions[i] \in E
        BY <1>2, <2>2
      <4> QED
        BY <4>1
    <3>2. <<e>> \in Seq(E) /\ <<e>> # <<>> /\ DOMAIN <<e>> = {1} /\ <<e>>[1] = e
      OBVIOUS
    <3> QED
      BY <2>2, <3>1, <3>2
  <2> QED
    BY <2>1, <2>2
<1>4. /\ file' \in FileRecord(Passwords) /\ file'.op = None /\ file'.call = None
      /\ file'.open = {} /\ file'.pc = "idle"
  BY <1>1, IdleIsRecord DEF CredentialsAreGood
<1>5. temp' \in [exists : BOOLEAN, written : 0 .. Size, synced : BOOLEAN] /\ ~temp'.exists
  <2>1. PICK no \in BOOLEAN : no = FALSE
    OBVIOUS
  <2>2. temp' = [exists |-> no, written |-> 0, synced |-> no]
    BY <1>1, <2>1 DEF NoTemp
  <2> QED
    BY <2>1, <2>2 DEF CredentialsAreGood, SizeAssumption
<1>6. FileTypeOK(Passwords, Records)'
  <2>1. litter' \in BOOLEAN
    BY <1>1, <1>2
  <2> QED
    BY <1>1, <1>2, <1>3, <1>4, <1>5, <2>1 DEF FileTypeOK
<1>7. FileInOrder' /\ ~Renamed'
  BY <1>1, <1>4, <1>5 DEF FileInOrder, Renamed, At, Writing
<1>8. \A c \in Callers : reply'[c] # "queued" /\ (reply'[c] = "unused" => reply[c] = "unused")
  BY <1>1
<1>9. WaitingTypes' /\ OperationsAreWaiting'
  <2>1. WaitingTypes'
    BY <1>1, RecordFileIsGood DEF WaitingTypes, Replies
  <2> QED
    BY <1>1, <1>8, <2>1 DEF OperationsAreWaiting
<1>10. CredentialTypes'
  BY <1>1 DEF CredentialTypes
<1>11. RecordFollowsFile' /\ HeadIsAtWork'
  BY <1>1, <1>4 DEF RecordFollowsFile, HeadIsAtWork, At
<1>12. RecordsComeWithRename'
  <2>1. SUFFICES ASSUME NEW c \in Calls, reply'[c] \in {"unused", "queued"}, NEW j \in DOMAIN versions'
                 PROVE  c \notin versions'[j].calls
    BY <1>7 DEF RecordsComeWithRename
  <2>2. reply[c] = "unused"
    BY <1>8, <2>1 DEF Callers
  <2>3. PICK i \in DOMAIN versions : versions'[j] = versions[i]
    BY <1>3, <2>1
  <2> QED
    BY <2>2, <2>3, UnmadeIsUnknown
<1> QED
  BY <1>6, <1>7, <1>9, <1>10, <1>11, <1>12, CredentialTogether

\* Somebody else puts something hostile at the path.
LEMMA TamperingIsSafe ==
    ASSUME CredentialIInv, Tamper, UNCHANGED recordVars
    PROVE  CredentialIInv'
<1>1. /\ UNCHANGED <<versions, temp, litter, file, startup, record, hashing, operations, request, reply>>
      /\ hostile' = IF At("renaming") THEN "late" ELSE "early"
  BY DEF Tamper, recordVars
<1>2. FileTypeOK(Passwords, Records)'
  BY <1>1, RecordFileIsGood DEF FileTypeOK
<1>3. FileInOrder' /\ (Renamed' <=> Renamed) /\ Newest' = Newest
  BY <1>1 DEF CredentialIInv, FileInOrder, Renamed, Newest, At
<1>4. CredentialTypes' /\ WaitingTypes' /\ OperationsAreWaiting'
  BY <1>1, RecordFileIsGood DEF CredentialIInv, CredentialTypes, WaitingTypes, OperationsAreWaiting
<1>5. HeadIsAtWork' /\ RecordsComeWithRename' /\ RecordFollowsFile'
  BY <1>1, <1>3 DEF CredentialIInv, HeadIsAtWork, RecordsComeWithRename, RecordFollowsFile, At
<1> QED
  BY <1>2, <1>3, <1>4, <1>5, CredentialTogether

\* A process that is not running keeps nothing but the file.
LEMMA CredentialInitIsSafe ==
    ASSUME CredentialsAreGood, CredentialInit
    PROVE  CredentialIInv
<1> DEFINE E == [doc : Records, calls : SUBSET Calls]
<1>1. PICK initial \in Records : FileInit(initial)
  BY DEF CredentialInit, Records
<1>2. PICK e \in E : e = [doc |-> initial, calls |-> {}]
  OBVIOUS
<1>3. e.calls = {} /\ versions = <<e>>
  BY <1>1, <1>2 DEF FileInit
<1> HIDE DEF E
<1>4. versions \in Seq(E) /\ versions # <<>> /\ DOMAIN versions = {1} /\ versions[1] = e
  BY <1>3
<1>5. PICK no \in BOOLEAN : no = FALSE
  OBVIOUS
<1>6. temp = [exists |-> no, written |-> 0, synced |-> no] /\ hostile = "no" /\ litter = no
      /\ file = IdleFile
  BY <1>1, <1>5 DEF FileInit, NoTemp
<1>7. temp \in [exists : BOOLEAN, written : 0 .. Size, synced : BOOLEAN] /\ ~temp.exists
  BY <1>5, <1>6 DEF CredentialsAreGood, SizeAssumption
<1>8. file \in FileRecord(Passwords) /\ file.pc = "idle" /\ file.op = None /\ file.open = {}
  BY <1>6, IdleIsRecord DEF CredentialsAreGood
<1>9. FileTypeOK(Passwords, Records)
  <2>1. litter \in BOOLEAN /\ hostile \in {"no", "early", "late"}
    BY <1>6
  <2> QED
    BY <1>4, <1>7, <1>8, <2>1 DEF FileTypeOK, E
<1>10. FileInOrder /\ ~Renamed
  BY <1>6, <1>7, <1>8 DEF FileInOrder, Renamed, At, Writing
<1>11. CredentialTypes
  BY DEF CredentialInit, CredentialTypes
<1>12. WaitingTypes /\ OperationsAreWaiting
  <2>1. /\ operations = <<>> /\ request = [c \in Callers |-> None]
        /\ reply = [c \in Callers |-> "unused"]
    BY DEF CredentialInit
  <2>2. WaitingTypes
    BY <2>1 DEF WaitingTypes, Replies
  <2> QED
    BY <2>1, <2>2 DEF OperationsAreWaiting
<1>13. HeadIsAtWork /\ RecordFollowsFile
  BY <1>8 DEF CredentialInit, HeadIsAtWork, RecordFollowsFile, At
<1>14. RecordsComeWithRename
  BY <1>3, <1>4, <1>10 DEF RecordsComeWithRename
<1> QED
  BY <1>9, <1>10, <1>11, <1>12, <1>13, <1>14, CredentialTypesApart DEF CredentialIInv

\* Calls are made by those who write or by those who check.
LEMMA AskersAreKnown ==
    ASSUME CredentialsAreGood,
           \/ \E c \in Calls, op \in {"enroll", "replace"}, p \in Passwords : Ask(c, op, p)
           \/ \E c \in Checks, p \in Passwords : Ask(c, "verify", p)
    PROVE  \E c \in Callers, op \in {"enroll", "replace", "verify"}, p \in Passwords :
              (op = "verify" <=> c \in Checks) /\ Ask(c, op, p)
<1>1. ASSUME NEW c \in Calls, NEW op \in {"enroll", "replace"}, NEW p \in Passwords, Ask(c, op, p)
      PROVE  c \in Callers /\ (op = "verify" <=> c \in Checks)
  BY DEF Callers, CredentialsAreGood, ChecksAssumption
<1>2. Checks \subseteq Callers
  BY DEF Callers
<1> QED
  BY <1>1, <1>2

\* Every step keeps the invariant.
LEMMA CredentialStepIsSafe ==
    ASSUME CredentialsAreGood, CredentialIInv, [CredentialNext]_credentialVars
    PROVE  CredentialIInv'
<1>1. CASE UNCHANGED credentialVars
  <2>1. UNCHANGED <<versions, hostile, temp, litter, file, startup, record, hashing, operations,
                    request, reply>>
    BY <1>1 DEF credentialVars, fileVars, recordVars
  <2>2. FileTypeOK(Passwords, Records)' /\ FileInOrder' /\ (Renamed' <=> Renamed) /\ Newest' = Newest
    BY <2>1, FileIsLeft
  <2>3. CredentialTypes' /\ WaitingTypes' /\ OperationsAreWaiting'
    BY <2>1, RecordFileIsGood DEF CredentialIInv, CredentialTypes, WaitingTypes, OperationsAreWaiting
  <2>4. HeadIsAtWork' /\ RecordsComeWithRename' /\ RecordFollowsFile'
    BY <2>1, <2>2 DEF CredentialIInv, HeadIsAtWork, RecordsComeWithRename, RecordFollowsFile, At
  <2> QED
    BY <2>2, <2>3, <2>4, CredentialTogether
<1>2. CASE InitializeLocal \/ RecordLoaded
  BY <1>2, InitializationIsSafe
<1>3. CASE RunHead \/ Hashed \/ Replaced
  BY <1>3, RunHeadIsSafe, HashedIsSafe, ReplacedIsSafe
<1>4. ASSUME FileStep, UNCHANGED recordVars PROVE CredentialIInv'
  BY <1>4, RecordFileStepIsSafe
<1>5. CASE ServerCrash \/ ServerLosesPower
  BY <1>5, ServerEndsIsSafe DEF ServerCrash, ServerLosesPower
<1>6. CASE \/ \E c \in Calls, op \in {"enroll", "replace"}, p \in Passwords : Ask(c, op, p)
           \/ \E c \in Checks, p \in Passwords : Ask(c, "verify", p)
  BY <1>6, AskersAreKnown, AskIsSafe
<1>7. ASSUME Tamper, UNCHANGED recordVars PROVE CredentialIInv'
  BY <1>7, TamperingIsSafe
<1> QED
  BY <1>1, <1>2, <1>3, <1>4, <1>5, <1>6, <1>7 DEF CredentialNext, CredentialStep

\* credential-store.ts keeps, through failures of the hasher and of the file system,
\* crashes and power failures: the file operation belongs to the head of the queue, a
\* call waits exactly once until it is answered, the record in memory is that of
\* auth.json but for a rename not yet answered, an enrolment under way found none, and
\* requireCurrent never throws inside the queue.
THEOREM CredentialsAreSound ==
    ASSUME CredentialsAreGood
    PROVE  CredentialSpec => []CredentialIInv
<1>1. CredentialInit => CredentialIInv
  BY CredentialInitIsSafe
<1>2. CredentialIInv /\ [CredentialNext]_credentialVars => CredentialIInv'
  BY CredentialStepIsSafe
<1> QED
  BY <1>1, <1>2, PTL DEF CredentialSpec

-----------------------------------------------------------------------------
(***************************************************************************)
(* Claims and verification.                                                *)
(***************************************************************************)
\* A step that leaves the versions alone, or one of them only, writes nothing.
LEMMA NothingIsClaimed ==
    ASSUME CredentialIInv,
           \/ versions' = versions \/ versions' = <<Newest>>
           \/ \E i \in DOMAIN versions : versions' = <<versions[i]>>
    PROVE  EnrolmentClaimsOnce
<1>1. Len(versions) \in Nat \ {0}
  BY RecordFileIsGood
<1>2. ~(Len(versions') > Len(versions))
  BY <1>1, OneVersionIsLeft
<1> QED
  BY <1>2 DEF EnrolmentClaimsOnce

\* Nobody hears that a password is right.
LEMMA NothingIsVerified ==
    ASSUME \A c \in Checks : reply'[c] = "right" => reply[c] = "right"
    PROVE  VerifiesNewest
  BY DEF VerifiesNewest

\* The head of the queue hears something else.
LEMMA OthersHearNothing ==
    ASSUME CredentialIInv, operations # <<>>, NEW a \in Replies,
           reply' = [reply EXCEPT ![Head(operations)] = a]
    PROVE  /\ reply'[Head(operations)] = a
           /\ \A c \in Callers \ {Head(operations)} : reply'[c] = reply[c]
<1>1. Head(operations) \in Callers /\ reply \in [Callers -> Replies]
  BY HeadIsAsking, RecordFileIsGood DEF WaitingTypes
<1> QED
  BY <1>1

\* The rename of an enrolment finds no record: of two first visitors that race, and of one that
\* tries again after a restart, only one claims the server.  And verify accepts only the
\* password that is on disk, also right after a replacement of uncertain durability.
THEOREM ClaimsStayCareful ==
    ASSUME CredentialsAreGood
    PROVE  CredentialSpec => [][ClaimsAreCareful]_credentialVars
<1>1. ASSUME CredentialIInv, [CredentialNext]_credentialVars
      PROVE  [ClaimsAreCareful]_credentialVars
  <2>1. ASSUME UNCHANGED <<versions, reply>> PROVE ClaimsAreCareful
    BY <1>1, <2>1, NothingIsClaimed, NothingIsVerified DEF ClaimsAreCareful
  <2>2. CASE InitializeLocal \/ RecordLoaded
    BY <2>1, <2>2 DEF InitializeLocal, RecordLoaded
  <2>3. ASSUME operations # <<>>, NEW a \in Replies, Settle(a), UNCHANGED versions,
               a = "right" => request[Head(operations)].password = Newest.doc
        PROVE  ClaimsAreCareful
    <3>1. EnrolmentClaimsOnce
      BY <1>1, <2>3, NothingIsClaimed
    <3>2. /\ reply'[Head(operations)] = a
          /\ \A c \in Callers \ {Head(operations)} : reply'[c] = reply[c]
      BY <1>1, <2>3, OthersHearNothing DEF Settle
    <3>3. ASSUME NEW c \in Checks, reply'[c] = "right", reply[c] # "right"
          PROVE  request[c].password = Newest.doc
      <4>1. c = Head(operations)
        BY <3>2, <3>3 DEF Callers
      <4> QED
        BY <2>3, <3>2, <3>3, <4>1
    <3> QED
      BY <3>1, <3>3 DEF ClaimsAreCareful, VerifiesNewest
  <2>4. CASE RunHead
    <3>1. operations # <<>> /\ UNCHANGED versions
      BY <2>4 DEF RunHead, fileVars
    <3>2. CASE Settle("already")
      <4>1. PICK a \in Replies : a = "already"
        BY DEF Replies
      <4>2. Settle(a) /\ a # "right"
        BY <3>2, <4>1
      <4> QED
        BY <2>3, <3>1, <4>2
    <3>3. CASE UNCHANGED reply
      BY <2>1, <3>1, <3>3
    <3>4. Settle("already") \/ UNCHANGED reply
      BY <2>4 DEF RunHead
    <3> QED
      BY <3>2, <3>3, <3>4
  <2>5. CASE Hashed
    <3>1. operations # <<>> /\ UNCHANGED versions /\ record = Newest.doc
      BY <1>1, <2>5 DEF Hashed, CredentialIInv, HeadIsAtWork, RecordFollowsFile, Renamed, At
    <3>2. CASE Settle(IF request[Head(operations)].password = record THEN "right" ELSE "wrong")
      <4>1. PICK a \in {"right", "wrong"} :
               a = IF request[Head(operations)].password = record THEN "right" ELSE "wrong"
        OBVIOUS
      <4>2. a \in Replies /\ Settle(a)
        BY <3>2, <4>1 DEF Replies, Settle
      <4>3. a = "right" => request[Head(operations)].password = Newest.doc
        BY <3>1, <4>1
      <4> QED
        BY <2>3, <3>1, <4>2, <4>3
    <3>3. CASE Settle("failed")
      <4>1. PICK a \in Replies : a = "failed"
        BY DEF Replies
      <4>2. Settle(a) /\ a # "right"
        BY <3>3, <4>1
      <4> QED
        BY <2>3, <3>1, <4>2
    <3>4. CASE UNCHANGED reply
      BY <2>1, <3>1, <3>4
    <3> QED
      BY <2>5, <3>2, <3>3, <3>4 DEF Hashed
  <2>6. CASE Replaced
    <3>1. startup = "up" /\ At("done") /\ UNCHANGED versions /\ Settle(ReplyTo(file.result))
      BY <2>6 DEF Replaced
    <3>2. operations # <<>> /\ ReplyTo(file.result) \in {"durable", "uncertain", "failed"}
      BY <1>1, <3>1, OutcomeIsReplied
    <3>3. PICK a \in {"durable", "uncertain", "failed"} : a = ReplyTo(file.result)
      BY <3>2
    <3>4. Settle(a) /\ a \in Replies /\ a # "right"
      BY <3>1, <3>3 DEF Settle, Replies
    <3> QED
      BY <2>3, <3>1, <3>2, <3>4
  <2>7. CASE ServerCrash \/ ServerLosesPower
    <3>1. /\ reply' = [c \in Callers |-> IF reply[c] = "queued" THEN "lost" ELSE reply[c]]
          /\ versions' = versions \/ \E i \in DOMAIN versions : versions' = <<versions[i]>>
      BY <2>7 DEF ServerCrash, ServerLosesPower, ServerEnds
    <3>2. \A c \in Checks : reply'[c] = "right" => reply[c] = "right"
      BY <3>1 DEF Callers
    <3> QED
      BY <1>1, <3>1, <3>2, NothingIsClaimed, NothingIsVerified DEF ClaimsAreCareful
  <2>8. CASE \/ \E c \in Calls, op \in {"enroll", "replace"}, p \in Passwords : Ask(c, op, p)
             \/ \E c \in Checks, p \in Passwords : Ask(c, "verify", p)
    <3>1. PICK c : /\ \/ reply' = [reply EXCEPT ![c] = "refused"]
                      \/ reply' = [reply EXCEPT ![c] = "queued"]
                   /\ UNCHANGED versions
      BY <2>8 DEF Ask, fileVars
    <3>2. reply \in [Callers -> Replies]
      BY <1>1, RecordFileIsGood DEF WaitingTypes
    <3>3. \A d \in Checks : reply'[d] = "right" => reply[d] = "right"
      BY <3>1, <3>2 DEF Callers
    <3> QED
      BY <1>1, <3>1, <3>3, NothingIsClaimed, NothingIsVerified DEF ClaimsAreCareful
  <2>9. ASSUME FileStep, UNCHANGED recordVars PROVE ClaimsAreCareful
    <3>1. /\ Silent \/ Hardens \/ Renames
          /\ SameOperation
      BY <1>1, <2>9, RecordFileIsGood, FileStepIsGood, CredentialTypesApart
         DEF CredentialsAreGood, FileEffect
    <3>2. VerifiesNewest
      BY <2>9, NothingIsVerified DEF recordVars
    <3>3. CASE Silent
      BY <1>1, <3>2, <3>3, NothingIsClaimed DEF Silent, ClaimsAreCareful
    <3>4. CASE Hardens
      BY <1>1, <3>2, <3>4, NothingIsClaimed DEF Hardens, ClaimsAreCareful
    <3>5. CASE Renames
      <4>1. file.op = "replace" /\ ~Renamed /\ ~At("idle")
        BY <3>1, <3>5 DEF Renames, SameOperation, At
      <4>2. startup = "up" /\ file.call = Head(operations)
            /\ (request[Head(operations)].op = "enroll" => record = None)
        BY <1>1, <4>1, RecordFileIsGood DEF CredentialIInv, HeadIsAtWork, CredentialTypes
      <4>3. record = Newest.doc
        BY <1>1, <4>1, <4>2 DEF CredentialIInv, RecordFollowsFile
      <4> QED
        BY <3>2, <4>2, <4>3 DEF EnrolmentClaimsOnce, ClaimsAreCareful
    <3> QED
      BY <3>1, <3>3, <3>4, <3>5
  <2>10. ASSUME Tamper, UNCHANGED recordVars PROVE ClaimsAreCareful
    BY <2>1, <2>10 DEF Tamper, recordVars
  <2> QED
    BY <1>1, <2>2, <2>4, <2>5, <2>6, <2>7, <2>8, <2>9, <2>10 DEF CredentialNext, CredentialStep
<1>2. CredentialIInv /\ [CredentialNext]_credentialVars => [ClaimsAreCareful]_credentialVars
  BY <1>1
<1> QED
  BY <1>2, CredentialsAreSound, PTL DEF CredentialSpec

-----------------------------------------------------------------------------
(***************************************************************************)
(* It implements the answered file.                                        *)
(***************************************************************************)
\* What a caller has heard, for each reply.
Heard(a) == CASE a \in {"unused", "queued", "lost"} -> "nothing"
              [] a \in {"refused", "already", "failed"} -> "failed"
              [] OTHER -> a

\* The mapping, one caller at a time.
LEMMA RepliedIsHeard ==
    /\ Replied = [c \in Calls |-> Heard(reply[c])]
    /\ Replied' = [c \in Calls |-> Heard(reply'[c])]
  BY Zenon DEF Replied, Heard

\* What is heard of the replies there are.
LEMMA HeardIsKnown ==
    /\ Heard("unused") = "nothing" /\ Heard("queued") = "nothing" /\ Heard("lost") = "nothing"
    /\ Heard("refused") = "failed" /\ Heard("already") = "failed" /\ Heard("failed") = "failed"
    /\ Heard("durable") = "durable" /\ Heard("uncertain") = "uncertain"
  BY DEF Heard

\* A step that answers no call that writes tells nobody anything.
LEMMA NobodyHears ==
    ASSUME \A c \in Calls : \/ reply'[c] = reply[c]
                            \/ /\ reply[c] \in {"unused", "queued", "lost"}
                               /\ reply'[c] \in {"unused", "queued", "lost"}
    PROVE  Replied' = Replied
<1>1. ASSUME NEW c \in Calls PROVE Heard(reply'[c]) = Heard(reply[c])
  BY HeardIsKnown
<1> QED
  BY <1>1, RepliedIsHeard

\* One caller is told something true.
LEMMA CallerIsTold ==
    ASSUME CredentialIInv, NEW h \in Calls, reply[h] \in {"unused", "queued"},
           NEW a \in {"refused", "already", "failed", "durable", "uncertain"},
           reply' = [reply EXCEPT ![h] = a], UNCHANGED versions,
           a \in {"refused", "already", "failed"} =>
              \A i \in DOMAIN versions : h \notin versions[i].calls,
           a = "durable" => \A i \in DOMAIN versions : h \in versions[i].calls,
           a = "uncertain" => h \in Newest.calls
    PROVE  PromisedStep
<1>1. reply \in [Callers -> Replies] /\ h \in Callers
  BY RecordFileIsGood DEF WaitingTypes, Callers
<1>2. reply'[h] = a /\ \A c \in Calls \ {h} : reply'[c] = reply[c]
  BY <1>1 DEF Callers
<1>3. PICK b \in {"durable", "uncertain", "failed"} : b = Heard(a)
  BY HeardIsKnown
<1>4. Replied[h] = "nothing"
  BY RepliedIsHeard, HeardIsKnown
<1>5. Replied' = [Replied EXCEPT ![h] = b]
  <2>1. \A c \in Calls : Heard(reply'[c]) = IF c = h THEN b ELSE Heard(reply[c])
    BY <1>2, <1>3
  <2>2. Replied' = [c \in Calls |-> IF c = h THEN b ELSE Heard(reply[c])]
    BY <2>1, RepliedIsHeard
  <2>3. Replied = [c \in Calls |-> Heard(reply[c])]
    BY RepliedIsHeard
  <2> QED
    BY <2>2, <2>3
<1>6. Promised!Newest = Newest
  BY DEF Promised!Newest, Newest
<1>7. Promised!Truthful(h, b)
  <2>1. CASE b = "durable"
    <3>1. a = "durable"
      BY <1>3, <2>1, HeardIsKnown
    <3> QED
      BY <2>1, <3>1 DEF Promised!Truthful
  <2>2. CASE b = "uncertain"
    <3>1. a = "uncertain"
      BY <1>3, <2>2, HeardIsKnown
    <3> QED
      BY <1>6, <2>2, <3>1 DEF Promised!Truthful
  <2>3. CASE b = "failed"
    <3>1. a \in {"refused", "already", "failed"}
      BY <1>3, <2>3, HeardIsKnown
    <3> QED
      BY <2>3, <3>1 DEF Promised!Truthful
  <2> QED
    BY <2>1, <2>2, <2>3
<1>8. Promised!Tell(h)
  BY <1>3, <1>4, <1>5, <1>7 DEF Promised!Tell
<1> QED
  BY <1>8 DEF PromisedStep, Promised!Next

\* The head of the queue hears that nothing was done, or whether a password is right.
LEMMA SettledIsPromised ==
    ASSUME CredentialsAreGood, CredentialIInv, operations # <<>>, At("idle"), UNCHANGED versions,
           NEW a \in {"already", "failed", "right", "wrong"}, Settle(a),
           Head(operations) \in Checks \/ a \in {"already", "failed"}
    PROVE  PromisedStep
<1>1. PICK h \in Callers : h = Head(operations)
  BY HeadIsAsking
<1>2. reply' = [reply EXCEPT ![h] = a] /\ reply[h] = "queued" /\ reply \in [Callers -> Replies]
  BY <1>1, HeadIsAsking, RecordFileIsGood DEF Settle, WaitingTypes
<1>3. CASE h \in Checks
  <2>1. \A c \in Calls : reply'[c] = reply[c]
    BY <1>2, <1>3 DEF Callers, CredentialsAreGood, ChecksAssumption
  <2> QED
    BY <2>1, NobodyHears DEF PromisedStep
<1>4. CASE h \notin Checks
  <2>1. h \in Calls /\ a \in {"already", "failed"}
    BY <1>1, <1>4 DEF Callers
  <2>2. ~Renamed
    BY DEF Renamed, At
  <2>3. \A i \in DOMAIN versions : h \notin versions[i].calls
    BY <1>2, <2>1, <2>2, NobodyElseIsRenamed
  <2> QED
    BY <1>2, <2>1, <2>3, CallerIsTold
<1> QED
  BY <1>3, <1>4

\* The reply to a finished replacement is true.
LEMMA ReplacedIsPromised ==
    ASSUME CredentialsAreGood, CredentialIInv, Replaced
    PROVE  PromisedStep
<1>1. /\ startup = "up" /\ At("done") /\ UNCHANGED versions
      /\ reply' = [reply EXCEPT ![Head(operations)] = ReplyTo(file.result)]
  BY DEF Replaced, Settle
<1>2. PICK h \in Calls : h = Head(operations)
  BY <1>1, OutcomeIsReplied
<1>3. PICK a \in {"durable", "uncertain", "failed"} : a = ReplyTo(file.result)
  BY <1>1, OutcomeIsReplied
<1>4. reply[h] = "queued" /\ file.call = h /\ h # None
  BY <1>1, <1>2, OutcomeIsReplied, HeadIsAsking DEF CredentialsAreGood, ChecksAssumption
<1>5. a # "failed" => h \in Newest.calls
  BY <1>1, <1>3, <1>4, OutcomeIsReplied DEF CredentialIInv, RecordsComeWithRename
<1>6. a = "failed" => \A i \in DOMAIN versions : h \notin versions[i].calls
  BY <1>1, <1>3, <1>4, OutcomeIsReplied, NobodyElseIsRenamed
<1>7. a = "durable" => \A i \in DOMAIN versions : h \in versions[i].calls
  <2>1. SUFFICES ASSUME a = "durable" PROVE \A i \in DOMAIN versions : h \in versions[i].calls
    OBVIOUS
  <2>2. Len(versions) = 1 /\ h \in Newest.calls
    BY <1>1, <1>3, <1>5, <2>1, OutcomeIsReplied
  <2>3. DOMAIN versions = 1 .. Len(versions)
    BY RecordFileIsGood DEF FileTypeOK
  <2> QED
    BY <2>2, <2>3 DEF Newest
<1>8. a \in {"refused", "already", "failed", "durable", "uncertain"} /\ reply' = [reply EXCEPT ![h] = a]
      /\ (a \in {"refused", "already", "failed"} => a = "failed") /\ reply[h] \in {"unused", "queued"}
  BY <1>1, <1>2, <1>3, <1>4
<1>9. a \in {"refused", "already", "failed"} => \A i \in DOMAIN versions : h \notin versions[i].calls
  BY <1>6, <1>8
<1>10. a = "uncertain" => h \in Newest.calls
  BY <1>5
<1> QED
  BY <1>1, <1>7, <1>8, <1>9, <1>10, CallerIsTold

\* A step of the secure file writes, hardens or does nothing to the file.
LEMMA RecordFileStepIsPromised ==
    ASSUME CredentialsAreGood, CredentialIInv, FileStep, UNCHANGED recordVars
    PROVE  PromisedStep
<1>1. SameOperation /\ (Silent \/ Hardens \/ Renames)
  BY RecordFileIsGood, FileStepIsGood, CredentialTypesApart DEF CredentialsAreGood, FileEffect
<1>2. Replied' = Replied
  BY NobodyHears DEF recordVars
<1>3. CASE Silent
  BY <1>2, <1>3 DEF PromisedStep, Silent
<1>4. CASE Hardens
  BY <1>2, <1>4 DEF PromisedStep, Hardens, Newest, Promised!Next, Promised!Harden, Promised!Newest
<1>5. CASE Renames
  <2>1. /\ versions' = Append(versions, [doc |-> file.value,
                                         calls |-> Newest.calls \cup ({file.call} \ {None})])
        /\ file.op = "replace" /\ ~Renamed /\ ~At("idle")
    BY <1>1, <1>5 DEF Renames, SameOperation, At
  <2>2. /\ operations # <<>> /\ Head(operations) \in Calls /\ file.call = Head(operations)
        /\ file.value \in Passwords /\ Promised!Newest = Newest
    BY <2>1, RecordFileIsGood DEF CredentialIInv, HeadIsAtWork, CredentialTypes, Promised!Newest, Newest
  <2>3. PICK c \in Calls : c = file.call
    BY <2>2
  <2>4. reply[c] = "queued"
    BY <2>2, <2>3, HeadIsAsking
  <2>5. \A i \in DOMAIN versions : c \notin versions[i].calls
    BY <2>1, <2>4, NobodyElseIsRenamed
  <2>6. Replied[c] = "nothing"
    BY <2>4, RepliedIsHeard, HeardIsKnown
  <2>7. {file.call} \ {None} = {c}
    BY <2>3 DEF CredentialsAreGood, ChecksAssumption
  <2>8. Promised!Write({c})
    BY <1>2, <2>1, <2>2, <2>5, <2>6, <2>7 DEF Promised!Write
  <2> QED
    BY <2>8 DEF PromisedStep, Promised!Next
<1> QED
  BY <1>1, <1>3, <1>4, <1>5

\* Every step of the store is a step of the answered file, or none.
LEMMA CredentialStepIsPromised ==
    ASSUME CredentialsAreGood, CredentialIInv, [CredentialNext]_credentialVars
    PROVE  PromisedStep
<1>0. reply \in [Callers -> Replies]
  BY RecordFileIsGood DEF WaitingTypes
<1>1. ASSUME \/ InitializeLocal \/ RecordLoaded
             \/ (Tamper /\ UNCHANGED recordVars) \/ UNCHANGED credentialVars
      PROVE  PromisedStep
  <2>1. UNCHANGED <<versions, reply>>
    BY <1>1 DEF InitializeLocal, RecordLoaded, Tamper, credentialVars, fileVars, recordVars
  <2> QED
    BY <2>1, NobodyHears DEF PromisedStep
<1>2. ASSUME NEW c \in Callers, NEW op \in {"enroll", "replace", "verify"}, NEW p \in Passwords,
             op = "verify" <=> c \in Checks, Ask(c, op, p)
      PROVE  PromisedStep
  <2>1. UNCHANGED versions /\ reply[c] = "unused"
    BY <1>2 DEF Ask, fileVars
  <2>2. CASE reply' = [reply EXCEPT ![c] = "queued"]
    <3>1. \A d \in Calls : \/ reply'[d] = reply[d]
                           \/ /\ reply[d] \in {"unused", "queued", "lost"}
                              /\ reply'[d] \in {"unused", "queued", "lost"}
      BY <1>0, <2>1, <2>2 DEF Callers
    <3> QED
      BY <2>1, <3>1, NobodyHears DEF PromisedStep
  <2>3. CASE reply' = [reply EXCEPT ![c] = "refused"]
    <3>1. CASE c \in Checks
      <4>1. \A d \in Calls : reply'[d] = reply[d]
        BY <1>0, <2>3, <3>1 DEF Callers, CredentialsAreGood, ChecksAssumption
      <4> QED
        BY <2>1, <4>1, NobodyHears DEF PromisedStep
    <3>2. CASE c \notin Checks
      <4>1. c \in Calls
        BY <3>2 DEF Callers
      <4>2. \A i \in DOMAIN versions : c \notin versions[i].calls
        BY <2>1, <4>1, UnmadeIsUnknown
      <4>3. PICK a \in {"refused", "already", "failed", "durable", "uncertain"} : a = "refused"
        OBVIOUS
      <4>4. reply' = [reply EXCEPT ![c] = a] /\ reply[c] \in {"unused", "queued"} /\ a # "durable"
            /\ a # "uncertain"
        BY <2>1, <2>3, <4>3
      <4> QED
        BY <2>1, <4>1, <4>2, <4>4, CallerIsTold
    <3> QED
      BY <3>1, <3>2
  <2> QED
    BY <1>2, <2>2, <2>3 DEF Ask
<1>3. CASE RunHead
  <2>1. operations # <<>> /\ At("idle") /\ UNCHANGED versions
    BY <1>3 DEF RunHead, fileVars
  <2>2. CASE UNCHANGED reply
    BY <2>1, <2>2, NobodyHears DEF PromisedStep
  <2>3. CASE Settle("already")
    BY <2>1, <2>3, SettledIsPromised
  <2> QED
    BY <1>3, <2>2, <2>3 DEF RunHead
<1>4. CASE Hashed
  <2>1. operations # <<>> /\ At("idle") /\ UNCHANGED versions
    BY <1>4 DEF Hashed, CredentialIInv, HeadIsAtWork
  <2>2. CASE UNCHANGED reply
    BY <2>1, <2>2, NobodyHears DEF PromisedStep
  <2>3. CASE Settle("failed")
    BY <2>1, <2>3, SettledIsPromised
  <2>4. ASSUME request[Head(operations)].op = "verify",
               Settle(IF request[Head(operations)].password = record THEN "right" ELSE "wrong")
        PROVE  PromisedStep
    <3>1. PICK a \in {"right", "wrong"} :
             a = IF request[Head(operations)].password = record THEN "right" ELSE "wrong"
      OBVIOUS
    <3>2. Settle(a) /\ a \in {"already", "failed", "right", "wrong"}
      BY <2>4, <3>1 DEF Settle
    <3>3. Head(operations) \in Checks
      BY <2>1, <2>4, HeadIsAsking
    <3> QED
      BY <2>1, <3>2, <3>3, SettledIsPromised
  <2> QED
    BY <1>4, <2>2, <2>3, <2>4 DEF Hashed
<1>5. CASE ServerCrash \/ ServerLosesPower
  <2>1. reply' = [c \in Callers |-> IF reply[c] = "queued" THEN "lost" ELSE reply[c]]
    BY <1>5 DEF ServerCrash, ServerLosesPower, ServerEnds
  <2>2. \A d \in Calls : \/ reply'[d] = reply[d]
                         \/ /\ reply[d] \in {"unused", "queued", "lost"}
                            /\ reply'[d] \in {"unused", "queued", "lost"}
    BY <2>1 DEF Callers
  <2>3. Replied' = Replied
    BY <2>2, NobodyHears
  <2>4. UNCHANGED versions \/ \E i \in DOMAIN versions : versions' = <<versions[i]>>
    BY <1>5 DEF ServerCrash, ServerLosesPower
  <2> QED
    BY <2>3, <2>4 DEF PromisedStep, Promised!Next, Promised!Lose
<1>6. CASE \/ \E c \in Calls, op \in {"enroll", "replace"}, p \in Passwords : Ask(c, op, p)
           \/ \E c \in Checks, p \in Passwords : Ask(c, "verify", p)
  BY <1>2, <1>6, AskersAreKnown
<1> QED
  BY <1>1, <1>3, <1>4, <1>5, <1>6, ReplacedIsPromised, RecordFileStepIsPromised
     DEF CredentialNext, CredentialStep

\* credential-store.ts implements the answered file: an enrolment or a new password
\* takes effect at most once and as a whole, a power failure takes auth.json back at
\* most to the last sync of the directory, and what a caller is told about its call is
\* true when it is told, "already" and refusals included, whichever await fails.
THEOREM CredentialsImplementAnsweredFile ==
    ASSUME CredentialsAreGood
    PROVE  CredentialSpec => PromisesAreKept
<1>1. ASSUME CredentialInit PROVE Promised!Init
  <2>1. PICK initial : versions = <<[doc |-> initial, calls |-> {}]>>
    BY <1>1 DEF CredentialInit, FileInit
  <2>2. Len(versions) = 1 /\ versions[1].calls = {}
    BY <2>1
  <2>3. \A c \in Calls : reply[c] = "unused"
    BY <1>1 DEF CredentialInit, Callers
  <2>4. Replied = [c \in Calls |-> "nothing"]
    BY <2>3, RepliedIsHeard, HeardIsKnown
  <2> QED
    BY <2>2, <2>4 DEF Promised!Init, Promised!Newest
<1>2. CredentialInit => Promised!Init
  BY <1>1
<1>3. CredentialIInv /\ [CredentialNext]_credentialVars => [Promised!Next]_<<versions, Replied>>
  BY CredentialStepIsPromised DEF PromisedStep
<1> QED
  BY <1>2, <1>3, CredentialsAreSound, PTL DEF CredentialSpec, PromisesAreKept, Promised!Spec
=============================================================================
