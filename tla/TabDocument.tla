---------------------------- MODULE TabDocument ----------------------------
(***************************************************************************)
(* The document kept in tabs.json and what each operation of the tab store *)
(* makes of it (tab-store.ts; the schema is in packages/shared tabs.ts).   *)
(* A tab keeps its identifier, display name, position, last activity and   *)
(* desired state; the creation time, which no operation changes, is left   *)
(* out.  Names and identifiers are opaque, times are numbers.              *)
(***************************************************************************)
EXTENDS Naturals, Sequences

CONSTANTS Ids,        \* tab identifiers
          Names,      \* display names
          MaxCount    \* sessionMaxCount of the configuration

ASSUME MaxCountAssumption == MaxCount \in Nat

Tab == [id : Ids, name : Names, position : Nat, activity : Nat,
        desired : {"active", "stopped"}]
Document == [revision : Nat, tabs : Seq(Tab)]

EmptyDocument == [revision |-> 0, tabs |-> <<>>]

\* persistedTabsDocumentSchema, and the limit readPrimary checks.
ValidDocument(d) ==
    /\ d \in Document
    /\ Len(d.tabs) <= MaxCount
    /\ \A i \in DOMAIN d.tabs : d.tabs[i].position = i - 1
    /\ \A i, j \in DOMAIN d.tabs : d.tabs[i].id = d.tabs[j].id => i = j

IdsOf(d) == {d.tabs[i].id : i \in DOMAIN d.tabs}

\* The requests a caller can make.
Creation  == [op : {"create", "ensureInitialTab"}, id : Ids, name : Names]
Operation ==
    Creation
    \cup [op : {"rename"}, id : Ids, name : Names]
    \cup [op : {"reorder"}, ids : Seq(Ids)]
    \cup [op : {"setDesiredState"}, id : Ids, desired : {"active", "stopped"}]
    \cup [op : {"remove"}, id : Ids]
    \cup [op : {"flushActivity"}, ids : SUBSET Ids, now : Nat]

-----------------------------------------------------------------------------
StructuralDocument(d, tabs) == [revision |-> d.revision + 1, tabs |-> tabs]

NewTab(o, d) ==
    [id |-> o.id, name |-> o.name, position |-> Len(d.tabs), activity |-> 0,
     desired |-> "active"]

Created(d, o) == StructuralDocument(d, Append(d.tabs, NewTab(o, d)))

Renamed(d, o) ==
    StructuralDocument(d, [i \in DOMAIN d.tabs |->
        IF d.tabs[i].id = o.id THEN [d.tabs[i] EXCEPT !.name = o.name] ELSE d.tabs[i]])

StateSet(d, o) ==
    StructuralDocument(d, [i \in DOMAIN d.tabs |->
        IF d.tabs[i].id = o.id THEN [d.tabs[i] EXCEPT !.desired = o.desired] ELSE d.tabs[i]])

IndexOf(d, id) == CHOOSE i \in DOMAIN d.tabs : d.tabs[i].id = id

Reordered(d, o) ==
    StructuralDocument(d, [i \in DOMAIN o.ids |->
        [d.tabs[IndexOf(d, o.ids[i])] EXCEPT !.position = i - 1]])

\* The tab is filtered out and the others are numbered again.
Removed(d, o) ==
    StructuralDocument(d, [i \in 1 .. Len(d.tabs) - 1 |->
        [d.tabs[IF i < IndexOf(d, o.id) THEN i ELSE i + 1] EXCEPT !.position = i - 1]])

\* Activity is no change of structure: the revision stays.
Flushed(d, o) ==
    [d EXCEPT !.tabs = [i \in DOMAIN d.tabs |->
        IF d.tabs[i].id \in o.ids THEN [d.tabs[i] EXCEPT !.activity = o.now] ELSE d.tabs[i]]]

-----------------------------------------------------------------------------
\* ids names every tab exactly once.
IsPermutation(ids, d) ==
    /\ Len(ids) = Len(d.tabs)
    /\ \A i \in DOMAIN ids : ids[i] \in IdsOf(d)
    /\ \A i, j \in DOMAIN ids : ids[i] = ids[j] => i = j

\* SessionLimitError, TabNotFoundError and OrderConflictError.
Refused(o, revision, d) ==
    \/ o.op = "create" /\ Len(d.tabs) >= MaxCount
    \/ o.op = "ensureInitialTab" /\ d.tabs = <<>> /\ MaxCount = 0
    \/ o.op \in {"rename", "setDesiredState", "remove"} /\ o.id \notin IdsOf(d)
    \/ o.op = "reorder" /\ (revision # d.revision \/ ~IsPermutation(o.ids, d))

\* Nothing needs to be written.
Idle(o, d) ==
    \/ o.op = "ensureInitialTab" /\ d.tabs # <<>>
    \/ o.op = "flushActivity" /\ IdsOf(d) \cap o.ids = {}

\* e is the document that operation o writes when it finds d.
Mutation(o, revision, d, e) ==
    /\ ~Refused(o, revision, d)
    /\ ~Idle(o, d)
    /\ \/ o.op \in {"create", "ensureInitialTab"} /\ e = Created(d, o)
       \/ o.op = "rename" /\ e = Renamed(d, o)
       \/ o.op = "reorder" /\ e = Reordered(d, o)
       \/ o.op = "setDesiredState" /\ e = StateSet(d, o)
       \/ o.op = "remove" /\ e = Removed(d, o)
       \/ o.op = "flushActivity" /\ e = Flushed(d, o)

=============================================================================
