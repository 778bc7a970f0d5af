-------------------------- MODULE DurableDocument --------------------------
(***************************************************************************)
(* What the tab store promises about tabs.json: the document changes by    *)
(* whole operations, each applied at most once to the newest version; a    *)
(* power failure throws the file back to a version since the last          *)
(* directory sync, never to a mixture of versions or a part of one.        *)
(*                                                                         *)
(* A version remembers which calls went into it.                           *)
(***************************************************************************)
EXTENDS TabDocument

CONSTANTS Calls,        \* calls of the store's operations
          Operations,   \* what they may ask for
          None          \* the file does not exist

VARIABLE versions       \* what tabs.json may be after a power failure; the
                        \* last version is what the running system reads

Newest == versions[Len(versions)]

Init ==
    /\ Len(versions) = 1
    /\ Newest.calls = {}
    /\ Newest.doc = None \/ ValidDocument(Newest.doc)

Extend(v) == versions' = Append(versions, v)

CreateFile ==
    /\ Newest.doc = None
    /\ Extend([doc |-> EmptyDocument, calls |-> Newest.calls])

Commit(c, o) ==
    /\ Newest.doc # None
    /\ \A i \in DOMAIN versions : c \notin versions[i].calls
    /\ Mutation(o, Newest.doc.revision, Newest.doc, Newest'.doc)
    /\ Extend([doc |-> Newest'.doc, calls |-> Newest.calls \cup {c}])

Harden == versions' = <<Newest>>

Lose == \E i \in DOMAIN versions : versions' = <<versions[i]>>

Next ==
    \/ CreateFile
    \/ \E c \in Calls, o \in Operations : Commit(c, o)
    \/ Harden
    \/ Lose

Spec == Init /\ [][Next]_versions

=============================================================================
