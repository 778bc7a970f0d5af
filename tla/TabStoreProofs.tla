--------------------------- MODULE TabStoreProofs ---------------------------
(***************************************************************************)
(* Proofs about the tab store (tab-store.ts), for any documents, calls and *)
(* operations: that every operation makes a valid document of a valid one, *)
(* that StoreIsHonest holds through crashes and power failures, and that   *)
(* the store implements the durable document.                              *)
(***************************************************************************)
EXTENDS TabStore, ClientTabs, SequenceTheorems, NaturalsInduction, WellFoundedInduction, TLAPS

\* The fields that the operations of the store carry.
LEMMA OperationFields ==
    ASSUME NEW o \in Operation
    PROVE  /\ o.op \in {"create", "ensureInitialTab", "rename", "reorder", "setDesiredState",
                        "remove", "flushActivity"}
           /\ o.op \in {"create", "ensureInitialTab"} <=> o \in Creation
           /\ o.op \in {"create", "ensureInitialTab", "rename"} => o.id \in Ids /\ o.name \in Names
           /\ o.op = "setDesiredState" => o.id \in Ids /\ o.desired \in {"active", "stopped"}
           /\ o.op = "remove" => o.id \in Ids
           /\ o.op = "reorder" => o.ids \in Seq(Ids)
           /\ o.op = "flushActivity" => o.now \in Nat
<1> USE DEF Creation
<1>1. CASE o \in Creation  BY <1>1
<1>2. CASE o \in [op : {"rename"}, id : Ids, name : Names]  BY <1>2
<1>3. CASE o \in [op : {"reorder"}, ids : Seq(Ids)]  BY <1>3
<1>4. CASE o \in [op : {"setDesiredState"}, id : Ids, desired : {"active", "stopped"}]  BY <1>4
<1>5. CASE o \in [op : {"remove"}, id : Ids]  BY <1>5
<1>6. CASE o \in [op : {"flushActivity"}, ids : SUBSET Ids, now : Nat]  BY <1>6
<1>7. QED  BY <1>1, <1>2, <1>3, <1>4, <1>5, <1>6 DEF Operation

\* A function on 1..n is a sequence of length n.
LEMMA FunctionIsSeq ==
    ASSUME NEW S, NEW n \in Nat, NEW f \in [1..n -> S]
    PROVE  f \in Seq(S) /\ Len(f) = n /\ DOMAIN f = 1..n
<1>1. f \in Seq(S)  BY IsASeq
<1>2. QED  BY <1>1, LenProperties

\* What is known of a valid document.
LEMMA DocumentFields ==
    ASSUME NEW d \in Document
    PROVE  /\ d.revision \in Nat /\ d.tabs \in Seq(Tab)
           /\ DOMAIN d.tabs = 1..Len(d.tabs) /\ Len(d.tabs) \in Nat
           /\ \A i \in DOMAIN d.tabs :
                 /\ d.tabs[i] \in Tab /\ d.tabs[i].id \in Ids /\ d.tabs[i].name \in Names
                 /\ d.tabs[i].desired \in {"active", "stopped"}
<1>1. d.revision \in Nat /\ d.tabs \in Seq(Tab)  BY DEF Document
<1>2. DOMAIN d.tabs = 1..Len(d.tabs) /\ Len(d.tabs) \in Nat /\ \A i \in DOMAIN d.tabs : d.tabs[i] \in Tab
  BY <1>1
<1>3. \A t \in Tab : t.id \in Ids /\ t.name \in Names /\ t.desired \in {"active", "stopped"}
  BY DEF Tab
<1>4. QED  BY <1>1, <1>2, <1>3

\* A document is valid when its tabs are a list of the right length whose
\* positions count up and whose identifiers differ.
LEMMA ValidFromTabs ==
    ASSUME NEW r \in Nat, NEW n \in Nat, n <= MaxCount, NEW tabs \in [1..n -> Tab],
           \A i \in 1..n : tabs[i].position = i - 1,
           \A i, j \in 1..n : tabs[i].id = tabs[j].id => i = j
    PROVE  /\ ValidDocument([revision |-> r, tabs |-> tabs])
           /\ IdsOf([revision |-> r, tabs |-> tabs]) = {tabs[i].id : i \in 1..n}
<1>1. tabs \in Seq(Tab) /\ Len(tabs) = n /\ DOMAIN tabs = 1..n  BY FunctionIsSeq
<1> DEFINE e == [revision |-> r, tabs |-> tabs]
<1>2. e.tabs = tabs /\ e.revision = r  OBVIOUS
<1>3. e \in Document  BY <1>1 DEF Document
<1> HIDE DEF e
<1>4. ValidDocument(e)  BY <1>1, <1>2, <1>3 DEF ValidDocument
<1>5. IdsOf(e) = {tabs[i].id : i \in 1..n}  BY <1>1, <1>2 DEF IdsOf
<1>6. QED  BY <1>4, <1>5 DEF e

\* IndexOf finds the tab of an identifier that is in the document.
LEMMA IndexOfFinds ==
    ASSUME NEW d, NEW id \in IdsOf(d)
    PROVE  IndexOf(d, id) \in DOMAIN d.tabs /\ d.tabs[IndexOf(d, id)].id = id
<1>1. \E i \in DOMAIN d.tabs : d.tabs[i].id = id  BY DEF IdsOf
<1>2. QED  BY <1>1 DEF IndexOf

\* An operation replaces some fields of the tabs and keeps their order:
\* rename, setDesiredState and flushActivity.
LEMMA EditedTabs ==
    ASSUME NEW d, ValidDocument(d), NEW r \in Nat, NEW tabs,
           tabs \in [DOMAIN d.tabs -> Tab],
           \A i \in DOMAIN d.tabs :
               tabs[i].id = d.tabs[i].id /\ tabs[i].position = d.tabs[i].position
    PROVE  /\ ValidDocument([revision |-> r, tabs |-> tabs])
           /\ IdsOf([revision |-> r, tabs |-> tabs]) = IdsOf(d)
<1> DEFINE n == Len(d.tabs)
<1>1. d \in Document /\ DOMAIN d.tabs = 1..n /\ n \in Nat /\ n <= MaxCount
  BY DocumentFields DEF ValidDocument
<1>2. /\ \A i \in 1..n : tabs[i].position = i - 1
      /\ \A i, j \in 1..n : tabs[i].id = tabs[j].id => i = j
  BY <1>1 DEF ValidDocument
<1>3. {tabs[i].id : i \in 1..n} = IdsOf(d)  BY <1>1 DEF IdsOf
<1>4. tabs \in [1..n -> Tab]  BY <1>1
<1> HIDE DEF n
<1>5. /\ ValidDocument([revision |-> r, tabs |-> tabs])
      /\ IdsOf([revision |-> r, tabs |-> tabs]) = {tabs[i].id : i \in 1..n}
  BY <1>1, <1>2, <1>4, ValidFromTabs
<1>6. QED  BY <1>3, <1>5

\* create and ensureInitialTab append a tab with an unused identifier.
LEMMA CreatedIsValid ==
    ASSUME NEW d, ValidDocument(d), NEW o, o.id \in Ids, o.name \in Names,
           o.id \notin IdsOf(d), Len(d.tabs) < MaxCount
    PROVE  ValidDocument(Created(d, o)) /\ IdsOf(Created(d, o)) = IdsOf(d) \cup {o.id}
<1> DEFINE n == Len(d.tabs)
           tabs == Append(d.tabs, NewTab(o, d))
<1>1. d \in Document /\ d.tabs \in Seq(Tab) /\ DOMAIN d.tabs = 1..n /\ n \in Nat /\ d.revision \in Nat
  BY DocumentFields DEF ValidDocument
<1>2. NewTab(o, d) \in Tab /\ NewTab(o, d).id = o.id /\ NewTab(o, d).position = n
  BY <1>1 DEF NewTab, Tab
<1>3. /\ tabs \in Seq(Tab) /\ Len(tabs) = n + 1
      /\ \A i \in 1..n : tabs[i] = d.tabs[i]
      /\ tabs[n + 1] = NewTab(o, d)
  BY <1>1, <1>2
<1>4. tabs \in [1..n + 1 -> Tab]
  <2>1. DOMAIN tabs = 1..n + 1 /\ tabs \in [DOMAIN tabs -> Tab]
    BY <1>3, LenProperties, ElementOfSeq
  <2>2. QED  BY <2>1
<1>5. n + 1 \in Nat /\ n + 1 <= MaxCount /\ d.revision + 1 \in Nat
  BY <1>1, MaxCountAssumption
<1>6. \A i \in 1..n : d.tabs[i].position = i - 1 /\ d.tabs[i].id # o.id
  BY <1>1 DEF ValidDocument, IdsOf
<1>7. \A i, j \in 1..n : d.tabs[i].id = d.tabs[j].id => i = j
  BY <1>1 DEF ValidDocument
<1>8. IdsOf(d) = {d.tabs[i].id : i \in 1..n}  BY <1>1 DEF IdsOf
<1>9. Created(d, o) = [revision |-> d.revision + 1, tabs |-> tabs]
  BY DEF Created, StructuralDocument
<1> HIDE DEF n, tabs
<1>10. \A i \in 1..n + 1 : i \in 1..n \/ i = n + 1  BY <1>1
<1>11. \A i \in 1..n + 1 : tabs[i].position = i - 1
  BY <1>1, <1>2, <1>3, <1>6, <1>10
<1>12. \A i, j \in 1..n + 1 : tabs[i].id = tabs[j].id => i = j
  BY <1>2, <1>3, <1>6, <1>7, <1>10
<1>13. {tabs[i].id : i \in 1..n + 1} = IdsOf(d) \cup {o.id}
  <2>1. \A i \in 1..n + 1 : tabs[i].id \in IdsOf(d) \cup {o.id}
    BY <1>2, <1>3, <1>8, <1>10
  <2>2. \A i \in 1..n : i \in 1..n + 1 /\ d.tabs[i].id = tabs[i].id  BY <1>1, <1>3
  <2>3. n + 1 \in 1..n + 1 /\ tabs[n + 1].id = o.id  BY <1>1, <1>2, <1>3
  <2>4. QED  BY <2>1, <2>2, <2>3, <1>8
<1>14. /\ ValidDocument([revision |-> d.revision + 1, tabs |-> tabs])
       /\ IdsOf([revision |-> d.revision + 1, tabs |-> tabs]) = {tabs[i].id : i \in 1..n + 1}
  <2>1. PICK m \in Nat, r \in Nat : m = n + 1 /\ r = d.revision + 1
    BY <1>5, Zenon
  <2>2. /\ m <= MaxCount /\ tabs \in [1..m -> Tab]
        /\ \A i \in 1..m : tabs[i].position = i - 1
        /\ \A i, j \in 1..m : tabs[i].id = tabs[j].id => i = j
    BY <1>4, <1>5, <1>11, <1>12, <2>1, Zenon
  <2>3. /\ ValidDocument([revision |-> r, tabs |-> tabs])
        /\ IdsOf([revision |-> r, tabs |-> tabs]) = {tabs[i].id : i \in 1..m}
    BY <2>2, ValidFromTabs
  <2> QED
    BY <2>1, <2>3, Zenon
<1>15. QED  BY <1>9, <1>13, <1>14

\* reorder puts each tab once into the order asked for.
LEMMA ReorderedIsValid ==
    ASSUME NEW d, ValidDocument(d), NEW o, o.ids \in Seq(Ids), IsPermutation(o.ids, d)
    PROVE  ValidDocument(Reordered(d, o)) /\ IdsOf(Reordered(d, o)) \subseteq IdsOf(d)
<1> DEFINE n == Len(d.tabs)
           tabs == [i \in DOMAIN o.ids |-> [d.tabs[IndexOf(d, o.ids[i])] EXCEPT !.position = i - 1]]
<1>1. d \in Document /\ n \in Nat /\ d.revision + 1 \in Nat /\ n <= MaxCount
      /\ \A i \in DOMAIN d.tabs : d.tabs[i] \in Tab
  BY DocumentFields DEF ValidDocument
<1>2. DOMAIN o.ids = 1..n  BY DEF IsPermutation
<1>3. ASSUME NEW i \in 1..n
      PROVE  tabs[i] \in Tab /\ tabs[i].id = o.ids[i] /\ tabs[i].position = i - 1 /\ tabs[i].id \in IdsOf(d)
  <2>1. o.ids[i] \in IdsOf(d)  BY <1>2 DEF IsPermutation
  <2>2. d.tabs[IndexOf(d, o.ids[i])] \in Tab /\ d.tabs[IndexOf(d, o.ids[i])].id = o.ids[i]
    BY <1>1, <2>1, IndexOfFinds
  <2>3. i - 1 \in Nat  OBVIOUS
  <2>4. QED  BY <1>2, <2>1, <2>2, <2>3 DEF Tab
<1>4. \A i, j \in 1..n : tabs[i].id = tabs[j].id => i = j
  <2>1. \A i \in 1..n : tabs[i].id = o.ids[i]
    BY <1>3, Zenon
  <2> HIDE DEF tabs, n
  <2>2. \A i, j \in 1..n : o.ids[i] = o.ids[j] => i = j
    BY <1>2 DEF IsPermutation
  <2> QED
    BY <2>1, <2>2
<1>5. tabs \in [1..n -> Tab]  BY <1>2, <1>3
<1>6. Reordered(d, o) = [revision |-> d.revision + 1, tabs |-> tabs]
  BY DEF Reordered, StructuralDocument
<1> HIDE DEF tabs, n
<1>7. /\ \A i \in 1..n : tabs[i].position = i - 1
      /\ \A i \in 1..n : tabs[i].id \in IdsOf(d)
  BY <1>3
<1>8. /\ ValidDocument([revision |-> d.revision + 1, tabs |-> tabs])
      /\ IdsOf([revision |-> d.revision + 1, tabs |-> tabs]) = {tabs[i].id : i \in 1..n}
  BY <1>1, <1>4, <1>5, <1>7, ValidFromTabs
<1>9. QED  BY <1>6, <1>7, <1>8

\* remove drops one tab and numbers the others again.
LEMMA RemovedIsValid ==
    ASSUME NEW d, ValidDocument(d), NEW o, o.id \in IdsOf(d)
    PROVE  ValidDocument(Removed(d, o)) /\ IdsOf(Removed(d, o)) \subseteq IdsOf(d)
<1> DEFINE n == Len(d.tabs) - 1
           k == IndexOf(d, o.id)
           tabs == [i \in 1..n |-> [d.tabs[IF i < k THEN i ELSE i + 1] EXCEPT !.position = i - 1]]
<1>1. /\ d \in Document /\ DOMAIN d.tabs = 1..Len(d.tabs) /\ Len(d.tabs) \in Nat
      /\ d.revision + 1 \in Nat /\ Len(d.tabs) <= MaxCount
      /\ \A i \in DOMAIN d.tabs : d.tabs[i] \in Tab
  BY DocumentFields DEF ValidDocument
<1>2. k \in 1..Len(d.tabs)  BY <1>1, IndexOfFinds
<1>3. n \in Nat /\ n <= MaxCount  BY <1>1, <1>2, MaxCountAssumption
<1>4. ASSUME NEW i \in 1..n
      PROVE  /\ tabs[i] \in Tab /\ tabs[i].position = i - 1
             /\ (IF i < k THEN i ELSE i + 1) \in DOMAIN d.tabs
             /\ tabs[i].id = d.tabs[IF i < k THEN i ELSE i + 1].id
  <2>1. (IF i < k THEN i ELSE i + 1) \in DOMAIN d.tabs  BY <1>1, <1>2
  <2>2. d.tabs[IF i < k THEN i ELSE i + 1] \in Tab  BY <1>1, <2>1
  <2>3. i - 1 \in Nat  BY <1>3
  <2>4. tabs[i] = [d.tabs[IF i < k THEN i ELSE i + 1] EXCEPT !.position = i - 1]  OBVIOUS
  <2> HIDE DEF tabs, k, n
  <2>5. QED  BY <2>1, <2>2, <2>3, <2>4 DEF Tab
<1>5. ASSUME NEW i \in 1..n, NEW j \in 1..n, tabs[i].id = tabs[j].id PROVE i = j
  <2>1. (IF i < k THEN i ELSE i + 1) = (IF j < k THEN j ELSE j + 1)
    BY <1>4, <1>5 DEF ValidDocument
  <2>2. QED  BY <2>1, <1>1, <1>2
<1>6. tabs \in [1..n -> Tab]  BY <1>4
<1>7. Removed(d, o) = [revision |-> d.revision + 1, tabs |-> tabs]
  BY DEF Removed, StructuralDocument
<1>8. \A i \in 1..n : tabs[i].id \in IdsOf(d)  BY <1>4 DEF IdsOf
<1> HIDE DEF tabs, k, n
<1>9. /\ \A i \in 1..n : tabs[i].position = i - 1
      /\ \A i, j \in 1..n : tabs[i].id = tabs[j].id => i = j
  BY <1>4, <1>5
<1>10. /\ ValidDocument([revision |-> d.revision + 1, tabs |-> tabs])
       /\ IdsOf([revision |-> d.revision + 1, tabs |-> tabs]) = {tabs[i].id : i \in 1..n}
  BY <1>1, <1>3, <1>6, <1>9, ValidFromTabs
<1>11. QED  BY <1>7, <1>8, <1>10

\* What any operation makes of a valid document: a valid document with the
\* next revision, or (activity alone) the same revision and structure, and no
\* identifier but the one a creation brings.  So the parse in front of every
\* write accepts its candidate.
LEMMA MutationFacts ==
    ASSUME NEW d, ValidDocument(d), NEW o \in Operation, NEW r, NEW e, Mutation(o, r, d, e),
           o \in Creation => o.id \notin IdsOf(d)
    PROVE  /\ ValidDocument(e)
           /\ IdsOf(e) \subseteq IdsOf(d) \cup (IF o \in Creation THEN {o.id} ELSE {})
           /\ \/ e.revision = d.revision + 1
              \/ e.revision = d.revision /\ Structure(e) = Structure(d)
<1>0. /\ d \in Document /\ d.tabs \in Seq(Tab) /\ d.revision \in Nat /\ d.revision + 1 \in Nat
      /\ Len(d.tabs) \in Nat /\ \A i \in DOMAIN d.tabs : d.tabs[i] \in Tab
  BY DocumentFields DEF ValidDocument
<1>1. CASE o.op \in {"create", "ensureInitialTab"}
  <2>1. e = Created(d, o) /\ o \in Creation /\ o.id \in Ids /\ o.name \in Names
    BY <1>1, OperationFields DEF Mutation
  <2>2. Len(d.tabs) < MaxCount
    <3>1. CASE o.op = "create"  BY <3>1, <1>0, MaxCountAssumption DEF Mutation, Refused
    <3>2. CASE o.op = "ensureInitialTab"
      <4>1. d.tabs = <<>> /\ MaxCount # 0  BY <3>2 DEF Mutation, Refused, Idle
      <4>2. Len(d.tabs) = 0  BY <4>1
      <4>3. QED  BY <4>1, <4>2, MaxCountAssumption
    <3>3. QED  BY <1>1, <3>1, <3>2
  <2>3. e.revision = d.revision + 1  BY <2>1 DEF Created, StructuralDocument
  <2>4. QED  BY <2>1, <2>2, <2>3, CreatedIsValid
<1>2. CASE o.op = "rename"
  <2> DEFINE tabs == [i \in DOMAIN d.tabs |->
        IF d.tabs[i].id = o.id THEN [d.tabs[i] EXCEPT !.name = o.name] ELSE d.tabs[i]]
  <2>1. o.name \in Names /\ e = [revision |-> d.revision + 1, tabs |-> tabs] /\ o \notin Creation
    BY <1>2, OperationFields DEF Mutation, Renamed, StructuralDocument
  <2>2. \A t \in Tab : LET u == [t EXCEPT !.name = o.name] IN
            u \in Tab /\ u.id = t.id /\ u.position = t.position
    BY <2>1 DEF Tab
  <2>3. /\ tabs \in [DOMAIN d.tabs -> Tab]
        /\ \A i \in DOMAIN d.tabs : tabs[i].id = d.tabs[i].id /\ tabs[i].position = d.tabs[i].position
    BY <1>0, <2>2
  <2> HIDE DEF tabs
  <2>4. /\ ValidDocument([revision |-> d.revision + 1, tabs |-> tabs])
        /\ IdsOf([revision |-> d.revision + 1, tabs |-> tabs]) = IdsOf(d)
    BY <1>0, <2>3, EditedTabs
  <2>5. QED  BY <2>1, <2>4
<1>3. CASE o.op = "setDesiredState"
  <2> DEFINE tabs == [i \in DOMAIN d.tabs |->
        IF d.tabs[i].id = o.id THEN [d.tabs[i] EXCEPT !.desired = o.desired] ELSE d.tabs[i]]
  <2>1. o.desired \in {"active", "stopped"} /\ e = [revision |-> d.revision + 1, tabs |-> tabs]
        /\ o \notin Creation
    BY <1>3, OperationFields DEF Mutation, StateSet, StructuralDocument
  <2>2. \A t \in Tab : LET u == [t EXCEPT !.desired = o.desired] IN
            u \in Tab /\ u.id = t.id /\ u.position = t.position
    BY <2>1 DEF Tab
  <2>3. /\ tabs \in [DOMAIN d.tabs -> Tab]
        /\ \A i \in DOMAIN d.tabs : tabs[i].id = d.tabs[i].id /\ tabs[i].position = d.tabs[i].position
    BY <1>0, <2>2
  <2> HIDE DEF tabs
  <2>4. /\ ValidDocument([revision |-> d.revision + 1, tabs |-> tabs])
        /\ IdsOf([revision |-> d.revision + 1, tabs |-> tabs]) = IdsOf(d)
    BY <1>0, <2>3, EditedTabs
  <2>5. QED  BY <2>1, <2>4
<1>4. CASE o.op = "flushActivity"
  <2> DEFINE tabs == [i \in DOMAIN d.tabs |->
        IF d.tabs[i].id \in o.ids THEN [d.tabs[i] EXCEPT !.activity = o.now] ELSE d.tabs[i]]
  <2>1. o.now \in Nat /\ e = [d EXCEPT !.tabs = tabs] /\ o \notin Creation
    BY <1>4, OperationFields DEF Mutation, Flushed
  <2>2. \A t \in Tab : LET u == [t EXCEPT !.activity = o.now] IN
            /\ u \in Tab /\ u.id = t.id /\ u.position = t.position
            /\ u.name = t.name /\ u.desired = t.desired
    BY <2>1 DEF Tab
  <2>3. /\ tabs \in [DOMAIN d.tabs -> Tab]
        /\ \A i \in DOMAIN d.tabs : tabs[i].id = d.tabs[i].id /\ tabs[i].position = d.tabs[i].position
        /\ \A i \in DOMAIN d.tabs : tabs[i].name = d.tabs[i].name /\ tabs[i].desired = d.tabs[i].desired
    BY <1>0, <2>2
  <2> HIDE DEF tabs
  <2>4. e = [revision |-> d.revision, tabs |-> tabs]  BY <1>0, <2>1 DEF Document
  <2>5. ValidDocument(e) /\ IdsOf(e) = IdsOf(d)
    BY <1>0, <2>3, <2>4, EditedTabs
  <2>6. Structure(e) = Structure(d)
    <3>1. e.tabs = tabs /\ DOMAIN tabs = DOMAIN d.tabs  BY <2>3, <2>4
    <3>2. QED  BY <3>1, <2>3 DEF Structure
  <2>7. e.revision = d.revision  BY <2>4
  <2>8. QED  BY <2>1, <2>5, <2>6, <2>7
<1>5. CASE o.op = "reorder"
  <2>1. e = Reordered(d, o) /\ o.ids \in Seq(Ids) /\ IsPermutation(o.ids, d) /\ o \notin Creation
    BY <1>5, OperationFields DEF Mutation, Refused
  <2>2. e.revision = d.revision + 1  BY <2>1 DEF Reordered, StructuralDocument
  <2>3. QED  BY <2>1, <2>2, ReorderedIsValid
<1>6. CASE o.op = "remove"
  <2>1. e = Removed(d, o) /\ o.id \in IdsOf(d) /\ o \notin Creation
    BY <1>6, OperationFields DEF Mutation, Refused
  <2>2. e.revision = d.revision + 1  BY <2>1 DEF Removed, StructuralDocument
  <2>3. QED  BY <2>1, <2>2, RemovedIsValid
<1>7. QED  BY <1>1, <1>2, <1>3, <1>4, <1>5, <1>6, OperationFields

\* The revision counts every change of structure, and activity is none.
LEMMA MutationRevision ==
    ASSUME NEW d, ValidDocument(d), NEW o \in Operation, NEW r, NEW e, Mutation(o, r, d, e)
    PROVE  \/ e.revision = d.revision + 1
           \/ e.revision = d.revision /\ Structure(e) = Structure(d)
<1>1. CASE o.op # "flushActivity"
  BY <1>1 DEF Mutation, Created, Renamed, Reordered, StateSet, Removed, StructuralDocument
<1>2. CASE o.op = "flushActivity"
  <2>1. o \notin Creation  BY <1>2 DEF Creation
  <2>2. QED  BY <2>1, <1>2, MutationFacts DEF Mutation, Flushed
<1>3. QED  BY <1>1, <1>2

-----------------------------------------------------------------------------
\* The newest version is one of the versions, and a document in memory is
\* valid because a restart would find it.
LEMMA NewestFacts ==
    ASSUME StoreIsHonest
    PROVE  /\ versions \in Seq(Version) /\ Len(versions) \in DOMAIN versions
           /\ DOMAIN versions = 1..Len(versions) /\ Len(versions) \in Nat
           /\ \A i \in DOMAIN versions : versions[i] \in Version /\ versions[i].calls \subseteq Calls
           /\ document # None => document = Newest.doc /\ ValidDocument(document) /\ document \in Document
<1>1. versions \in Seq(Version) /\ versions # <<>>  BY DEF StoreIsHonest, TypeOK
<1>2. /\ Len(versions) \in DOMAIN versions /\ DOMAIN versions = 1..Len(versions) /\ Len(versions) \in Nat
      /\ \A i \in DOMAIN versions : versions[i] \in Version
  BY <1>1
<1>3. \A v \in Version : v.calls \subseteq Calls  BY DEF Version
<1>4. document # None => document = Newest.doc /\ ValidDocument(document)
  BY <1>2 DEF StoreIsHonest, MemoryMatchesFile, RestartFindsValidDocument, Newest
<1>5. QED  BY <1>1, <1>2, <1>3, <1>4 DEF ValidDocument

\* The running operation is the head of the queue, a call without an answer.
LEMMA HeadFacts ==
    ASSUME StoreIsHonest, queue # <<>>
    PROVE  /\ queue \in Seq(Calls) /\ DOMAIN queue = 1..Len(queue) /\ Len(queue) \in Nat \ {0}
           /\ Head(queue) \in Calls /\ Head(queue) = queue[1] /\ 1 \in DOMAIN queue
           /\ status[Head(queue)] = "queued"
           /\ call[Head(queue)] \in Request
           /\ call[Head(queue)].o \in Operation /\ call[Head(queue)].o \in Operations
           /\ document # None
<1>1. queue \in Seq(Calls)  BY DEF StoreIsHonest, TypeOK
<1>2. /\ DOMAIN queue = 1..Len(queue) /\ Len(queue) \in Nat \ {0} /\ Head(queue) \in Calls
      /\ Head(queue) = queue[1] /\ 1 \in DOMAIN queue
  BY <1>1
<1>3. status[Head(queue)] = "queued"
  BY <1>2 DEF StoreIsHonest, QueueHoldsTheUnanswered
<1>4. call[Head(queue)] \in Request
  BY <1>2, <1>3 DEF StoreIsHonest, QueueHoldsTheUnanswered
<1>5. \A r \in Request : r.o \in Operations  BY DEF Request
<1>6. document # None  BY DEF StoreIsHonest, WriterIsCurrent
<1>7. QED  BY <1>1, <1>2, <1>3, <1>4, <1>5, <1>6, OperationsAssumption

\* Settling a call takes it off the queue and leaves the others as they are.
LEMMA SettleQueue ==
    ASSUME StoreIsHonest, queue # <<>>, NEW x \in Outcomes \ {"unused", "queued"}, Settle(x),
           UNCHANGED call
    PROVE  /\ QueueHoldsTheUnanswered'
           /\ queue' \in Seq(Calls) /\ status' \in [Calls -> Outcomes]
           /\ \A c \in Calls : status'[c] = IF c = Head(queue) THEN x ELSE status[c]
           /\ \A c \in Calls : ~Applied(c)' /\ ~Begun(c)'
<1> DEFINE h == Head(queue)
<1>1. /\ queue \in Seq(Calls) /\ DOMAIN queue = 1..Len(queue) /\ Len(queue) \in Nat \ {0}
      /\ h \in Calls /\ h = queue[1] /\ 1 \in DOMAIN queue /\ status[h] = "queued"
  BY HeadFacts
<1>2. /\ pc' = "idle" /\ queue' = Tail(queue) /\ status' = [status EXCEPT ![h] = x]
      /\ status \in [Calls -> Outcomes]
  BY DEF Settle, StoreIsHonest, TypeOK
<1> HIDE DEF h
<1>3. /\ queue' \in Seq(Calls) /\ DOMAIN queue' = 1..Len(queue) - 1
      /\ \A i \in 1..Len(queue) - 1 : queue'[i] = queue[i + 1] /\ i + 1 \in DOMAIN queue /\ i \in Nat
  BY <1>1, <1>2
<1>4. status' \in [Calls -> Outcomes] /\ \A c \in Calls : status'[c] = IF c = h THEN x ELSE status[c]
  BY <1>1, <1>2
<1>5. /\ \A i, j \in DOMAIN queue : queue[i] = queue[j] => i = j
      /\ \A c \in Calls : status[c] = "queued" <=> \E i \in DOMAIN queue : queue[i] = c
      /\ \A c \in Calls : status[c] # "unused" => call[c] \in Request
  BY DEF StoreIsHonest, QueueHoldsTheUnanswered
<1>6. \A i, j \in DOMAIN queue' : queue'[i] = queue'[j] => i = j
  <2>1. SUFFICES ASSUME NEW i \in DOMAIN queue', NEW j \in DOMAIN queue', queue'[i] = queue'[j]
                 PROVE  i = j
    OBVIOUS
  <2>2. i + 1 = j + 1  BY <2>1, <1>3, <1>5
  <2>3. QED  BY <2>2, <1>3
<1>7. ASSUME NEW c \in Calls PROVE status'[c] = "queued" <=> \E i \in DOMAIN queue' : queue'[i] = c
  <2>1. ASSUME status'[c] = "queued" PROVE \E i \in DOMAIN queue' : queue'[i] = c
    <3>1. c # h /\ status[c] = "queued"  BY <2>1, <1>4
    <3>2. PICK i \in DOMAIN queue : queue[i] = c  BY <3>1, <1>5
    <3>3. i # 1  BY <3>1, <3>2, <1>1
    <3>4. i - 1 \in DOMAIN queue' /\ (i - 1) + 1 = i  BY <3>3, <1>1, <1>3
    <3>5. QED  BY <3>2, <3>4, <1>3
  <2>2. ASSUME NEW i \in DOMAIN queue', queue'[i] = c PROVE status'[c] = "queued"
    <3>1. queue[i + 1] = c /\ i + 1 \in DOMAIN queue /\ i + 1 # 1  BY <2>2, <1>3
    <3>2. c # h  BY <3>1, <1>1, <1>5
    <3>3. QED  BY <3>1, <3>2, <1>4, <1>5
  <2>3. QED  BY <2>1, <2>2
<1>8. \A c \in Calls : status'[c] # "unused" => call'[c] \in Request
  BY <1>1, <1>4, <1>5
<1>9. ~Booting'  BY <1>2 DEF Booting
<1>10. \A c \in Calls : ~Applied(c)' /\ ~Begun(c)'  BY <1>2 DEF Applied, Begun
<1>11. QueueHoldsTheUnanswered'
  BY <1>6, <1>7, <1>8, <1>9 DEF QueueHoldsTheUnanswered
<1>12. QED  BY <1>3, <1>4, <1>10, <1>11 DEF h

\* The versions after a step that keeps one of them (directory sync, power
\* failure).
LEMMA CutVersions ==
    ASSUME StoreIsHonest, NEW k \in DOMAIN versions, versions' = <<versions[k]>>
    PROVE  /\ versions' \in Seq(Version) /\ versions' # <<>>
           /\ Newest' = versions[k]
           /\ \A i \in DOMAIN versions' : versions'[i] = versions[k]
<1>1. versions[k] \in Version  BY NewestFacts
<1>2. versions' \in Seq(Version) /\ versions' # <<>> /\ Len(versions') = 1 /\ DOMAIN versions' = {1}
      /\ versions'[1] = versions[k]
  BY <1>1
<1>3. QED  BY <1>2 DEF Newest

\* The answer of the running call keeps the store honest when it is the one
\* its write deserves: no success before the rename, no failure after it, and
\* durable only with the directory synced.
LEMMA SettleKeeps ==
    ASSUME StoreIsHonest, queue # <<>>, NEW x, Settle(x), UNCHANGED <<call, document>>,
           temp' \in {"none", "created", "written", "synced"}, orphans' \in BOOLEAN, ready' \in BOOLEAN,
           \/ x \in {"refused", "failed", "unchanged"} /\ pc # "syncingDirectory"
                 /\ UNCHANGED <<versions, ready>>
           \/ x = "committed" /\ pc = "syncingDirectory" /\ UNCHANGED versions /\ (~DirectorySync \/ ~ready')
           \/ x = "durable" /\ pc = "syncingDirectory" /\ versions' = <<Newest>>
    PROVE  StoreIsHonest'
<1> DEFINE h == Head(queue)
<1>0. x \in Outcomes \ {"unused", "queued"}  BY DEF Outcomes
<1>1. /\ QueueHoldsTheUnanswered'
      /\ queue' \in Seq(Calls) /\ status' \in [Calls -> Outcomes]
      /\ \A c \in Calls : status'[c] = IF c = h THEN x ELSE status[c]
      /\ \A c \in Calls : ~Applied(c)' /\ ~Begun(c)'
  BY <1>0, SettleQueue
<1>2. h \in Calls /\ status[h] = "queued" /\ document # None  BY HeadFacts
<1>3. pc' = "idle" /\ next' = None /\ queue' = Tail(queue)  BY DEF Settle
<1>4. /\ Len(versions) \in DOMAIN versions /\ document = Newest.doc
      /\ versions \in Seq(Version) /\ versions # <<>>
  BY <1>2, NewestFacts DEF StoreIsHonest, TypeOK
<1>5. /\ versions' \in Seq(Version) /\ versions' # <<>> /\ Newest' = Newest
      /\ \A i \in DOMAIN versions' : \E j \in DOMAIN versions : versions'[i] = versions[j]
  <2>1. CASE UNCHANGED versions  BY <2>1, <1>4 DEF Newest
  <2>2. CASE versions' = <<Newest>>
    <3>1. versions' = <<versions[Len(versions)]>>  BY <2>2 DEF Newest
    <3>2. QED  BY <3>1, <1>4, CutVersions DEF Newest
  <2>3. QED  BY <2>1, <2>2
<1>6. TypeOK'
  BY <1>1, <1>3, <1>5 DEF StoreIsHonest, TypeOK, Stages
<1>7. RestartFindsValidDocument'
  BY <1>3, <1>5 DEF StoreIsHonest, RestartFindsValidDocument
<1>8. MemoryMatchesFile'
  BY <1>4, <1>5 DEF MemoryMatchesFile
<1>9. WriterIsCurrent'
  BY <1>2, <1>3 DEF WriterIsCurrent
<1>10. UnappliedLeavesNoTrace'
  <2>1. SUFFICES ASSUME NEW c \in Calls, status'[c] = "queued", NEW i \in DOMAIN versions'
                 PROVE  c \notin versions'[i].calls
    BY <1>1 DEF UnappliedLeavesNoTrace
  <2>2. c # h /\ status[c] = "queued" /\ ~Applied(c)  BY <2>1, <1>0, <1>1 DEF Applied
  <2>3. QED  BY <2>2, <1>5 DEF StoreIsHonest, UnappliedLeavesNoTrace
<1>11. WaitingIdIsUnused'
  <2>1. ASSUME NEW c \in Calls, status'[c] = "queued", call[c].o \in Creation,
               NEW i \in DOMAIN versions', versions'[i].doc \in Document
        PROVE  call[c].o.id \notin IdsOf(versions'[i].doc)
    <3>1. c # h /\ status[c] = "queued" /\ ~Begun(c)  BY <2>1, <1>0, <1>1 DEF Begun
    <3>2. QED  BY <3>1, <2>1, <1>5 DEF StoreIsHonest, WaitingIdIsUnused
  <2>2. ASSUME NEW c \in Calls, NEW d \in Calls, status'[c] # "unused", status'[d] # "unused",
               call[c].o \in Creation, call[d].o \in Creation, call[c].o.id = call[d].o.id
        PROVE  c = d
    <3>1. status[c] # "unused" /\ status[d] # "unused"  BY <2>2, <1>1, <1>2
    <3>2. QED  BY <3>1, <2>2 DEF StoreIsHonest, WaitingIdIsUnused
  <2>3. QED  BY <2>1, <2>2, <1>3 DEF WaitingIdIsUnused
<1>12. RevisionTellsStructure'
  <2>1. SUFFICES ASSUME NEW c \in Calls, status'[c] = "queued"
                 PROVE  /\ call[c].revision <= document.revision
                        /\ call[c].revision = document.revision => call[c].seen = Structure(document)
    BY DEF RevisionTellsStructure, Structure
  <2>2. c # h /\ status[c] = "queued" /\ ~Applied(c)  BY <2>1, <1>0, <1>1 DEF Applied
  <2>3. QED  BY <2>2 DEF StoreIsHonest, RevisionTellsStructure
<1>13. ReorderSeesNoOtherChange'
  BY <1>3 DEF ReorderSeesNoOtherChange
<1>14. OutcomeIsHonest'
  <2>1. ASSUME NEW c \in Calls, status'[c] \in {"unused", "refused", "failed", "unchanged"},
               NEW i \in DOMAIN versions'
        PROVE  c \notin versions'[i].calls
    <3>1. CASE c = h
      <4>1. pc # "syncingDirectory"  BY <2>1, <3>1, <1>1
      <4>2. ~Applied(c) /\ status[c] = "queued"  BY <4>1, <3>1, <1>2 DEF Applied
      <4>3. QED  BY <4>2, <1>5 DEF StoreIsHonest, UnappliedLeavesNoTrace
    <3>2. CASE c # h
      BY <2>1, <3>2, <1>1, <1>5 DEF StoreIsHonest, OutcomeIsHonest
    <3>3. QED  BY <3>1, <3>2
  <2>2. ASSUME NEW c \in Calls, status'[c] = "committed" PROVE c \in Newest'.calls
    <3>1. CASE c = h
      <4>1. Applied(c)  BY <2>2, <3>1, <1>1 DEF Applied
      <4>2. QED  BY <4>1, <1>5 DEF StoreIsHonest, UnappliedLeavesNoTrace
    <3>2. CASE c # h
      BY <2>2, <3>2, <1>1, <1>5 DEF StoreIsHonest, OutcomeIsHonest
    <3>3. QED  BY <3>1, <3>2
  <2>3. QED  BY <2>1, <2>2 DEF OutcomeIsHonest
<1>15. AcknowledgedSurvives'
  <2>1. SUFFICES ASSUME NEW c \in Calls,
                        status'[c] = "durable" \/ (status'[c] = "committed" /\ ready' /\ DirectorySync),
                        NEW i \in DOMAIN versions'
                 PROVE  c \in versions'[i].calls
    BY DEF AcknowledgedSurvives
  <2>2. CASE versions' = <<Newest>>
    <3>1. versions' = <<versions[Len(versions)]>>  BY <2>2 DEF Newest
    <3>2. versions'[i] = Newest  BY <3>1, <1>4, CutVersions DEF Newest
    <3>3. CASE c = h
      <4>1. x \in {"durable", "committed"}  BY <2>1, <3>3, <1>1
      <4>2. Applied(c)  BY <3>3, <4>1 DEF Applied
      <4>3. QED  BY <4>2, <3>2 DEF StoreIsHonest, UnappliedLeavesNoTrace
    <3>4. CASE c # h
      <4>1. status'[c] = status[c]  BY <3>4, <1>1
      <4>2. CASE status[c] = "durable"
        BY <4>2, <3>2, <1>4 DEF StoreIsHonest, AcknowledgedSurvives, Newest
      <4>3. CASE status[c] = "committed"
        BY <4>3, <3>2 DEF StoreIsHonest, OutcomeIsHonest
      <4>4. QED  BY <2>1, <4>1, <4>2, <4>3
    <3>5. QED  BY <3>3, <3>4
  <2>3. CASE UNCHANGED versions /\ versions' # <<Newest>>
    <3>1. x # "durable"  BY <2>3
    <3>2. CASE UNCHANGED ready
      <4>1. c # h \/ x = "committed"  BY <2>1, <3>1, <1>1
      <4>2. CASE c # h
        BY <4>2, <2>1, <2>3, <3>2, <1>1 DEF StoreIsHonest, AcknowledgedSurvives
      <4>3. CASE c = h
        <5>1. x = "committed" /\ status'[c] = "committed"  BY <4>1, <4>3, <1>1
        <5>2. QED  BY <5>1, <2>1
      <4>4. QED  BY <4>2, <4>3
    <3>3. CASE ~DirectorySync \/ ~ready'
      <4>1. status'[c] = "durable" /\ c # h  BY <2>1, <3>1, <3>3, <1>1
      <4>2. QED  BY <4>1, <2>3, <1>1 DEF StoreIsHonest, AcknowledgedSurvives
    <3>4. QED  BY <3>1, <3>2, <3>3
  <2>4. QED  BY <2>2, <2>3
<1>16. QED
  BY <1>1, <1>6, <1>7, <1>8, <1>9, <1>10, <1>11, <1>12, <1>13, <1>14, <1>15 DEF StoreIsHonest

\* Steps of initialize: no call is waiting and none has an answer that is not
\* durable yet.
LEMMA BootKeeps ==
    ASSUME StoreIsHonest, Booting, UNCHANGED <<queue, call, status>>,
           versions' = versions \/ versions' = <<Newest>>,
           pc' \in Stages,
           temp' \in {"none", "created", "written", "synced"}, orphans' \in BOOLEAN, ready' \in BOOLEAN,
           document' \in {document, Newest.doc}, document' \in Document \cup {None},
           next' \in {next, None, EmptyDocument},
           WriterIsCurrent'
    PROVE  StoreIsHonest'
<1>1. /\ queue = <<>> /\ Len(versions) \in DOMAIN versions
      /\ versions \in Seq(Version) /\ versions # <<>>
  BY NewestFacts DEF StoreIsHonest, TypeOK, Booting
<1>2. /\ versions' \in Seq(Version) /\ versions' # <<>> /\ Newest' = Newest
      /\ \A i \in DOMAIN versions' : \E j \in DOMAIN versions : versions'[i] = versions[j]
  <2>1. CASE UNCHANGED versions  BY <2>1, <1>1 DEF Newest
  <2>2. CASE versions' = <<Newest>>
    <3>1. versions' = <<versions[Len(versions)]>>  BY <2>2 DEF Newest
    <3>2. QED  BY <3>1, <1>1, CutVersions DEF Newest
  <2>3. QED  BY <2>1, <2>2
<1>3. \A c \in Calls : status[c] \notin {"queued", "committed"}
  BY <1>1 DEF StoreIsHonest, QueueHoldsTheUnanswered
<1>4. ValidDocument(EmptyDocument) /\ EmptyDocument \in Document
  <2>1. <<>> \in Seq(Tab) /\ Len(<<>>) = 0 /\ DOMAIN <<>> = {}  OBVIOUS
  <2>2. EmptyDocument.tabs = <<>> /\ EmptyDocument \in Document  BY <2>1 DEF EmptyDocument, Document
  <2>3. QED  BY <2>1, <2>2, MaxCountAssumption DEF ValidDocument
<1>5. TypeOK'
  BY <1>2, <1>4 DEF StoreIsHonest, TypeOK
<1>6. RestartFindsValidDocument'
  BY <1>2, <1>4 DEF StoreIsHonest, RestartFindsValidDocument
<1>7. MemoryMatchesFile'
  BY <1>2 DEF StoreIsHonest, MemoryMatchesFile
<1>8. QueueHoldsTheUnanswered'
  BY <1>1, <1>3 DEF StoreIsHonest, QueueHoldsTheUnanswered
<1>9. UnappliedLeavesNoTrace' /\ WaitingIdIsUnused' /\ RevisionTellsStructure' /\ ReorderSeesNoOtherChange'
  BY <1>1, <1>3 DEF StoreIsHonest, UnappliedLeavesNoTrace, WaitingIdIsUnused, RevisionTellsStructure,
     ReorderSeesNoOtherChange, Applied
<1>10. OutcomeIsHonest'
  BY <1>2, <1>3 DEF StoreIsHonest, OutcomeIsHonest
<1>11. AcknowledgedSurvives'
  BY <1>2, <1>3 DEF StoreIsHonest, AcknowledgedSurvives
<1>12. QED
  BY <1>5, <1>6, <1>7, <1>8, <1>9, <1>10, <1>11 DEF StoreIsHonest

\* Steps of a write before its rename change nothing anyone can see.
LEMMA WriteKeeps ==
    ASSUME StoreIsHonest, queue # <<>>, UNCHANGED <<queue, call, status, versions, document, next, ready>>,
           temp' \in {"none", "created", "written", "synced"}, orphans' \in BOOLEAN,
           pc \in {"opening", "writing"}, pc' \in {"writing", "discarding"}
    PROVE  StoreIsHonest'
<1>1. Newest' = Newest /\ Booting' = Booting /\ ~Booting  BY DEF Newest, Booting
<1>2. \A c \in Calls : ~Applied(c) /\ ~Applied(c)' /\ (Begun(c)' <=> Begun(c))  BY DEF Applied, Begun
<1>3. TypeOK'  BY DEF StoreIsHonest, TypeOK, Stages
<1>4. RestartFindsValidDocument' /\ MemoryMatchesFile' /\ OutcomeIsHonest' /\ AcknowledgedSurvives'
  BY <1>1 DEF StoreIsHonest, RestartFindsValidDocument, MemoryMatchesFile, OutcomeIsHonest,
     AcknowledgedSurvives
<1>5. ReorderSeesNoOtherChange'  BY DEF ReorderSeesNoOtherChange
<1>6. WriterIsCurrent'
  <2>1. /\ document # None /\ next # None
        /\ Mutation(call[Head(queue)].o, call[Head(queue)].revision, document, next)
    BY DEF StoreIsHonest, WriterIsCurrent
  <2>2. QED  BY <2>1 DEF WriterIsCurrent
<1>7. QueueHoldsTheUnanswered'
  BY <1>1 DEF StoreIsHonest, QueueHoldsTheUnanswered
<1>8. UnappliedLeavesNoTrace' /\ WaitingIdIsUnused'
  BY <1>2 DEF StoreIsHonest, UnappliedLeavesNoTrace, WaitingIdIsUnused
<1>9. RevisionTellsStructure'
  BY <1>2 DEF StoreIsHonest, RevisionTellsStructure, Structure
<1>10. QED
  BY <1>3, <1>4, <1>5, <1>6, <1>7, <1>8, <1>9 DEF StoreIsHonest

\* The rename makes the candidate the newest version and the document in
\* memory at once.
LEMMA RenameKeeps ==
    ASSUME StoreIsHonest, pc = "writing", pc' = "syncingDirectory",
           versions' = Append(versions,
               [doc |-> next, calls |-> Newest.calls \cup (IF Booting THEN {} ELSE {Head(queue)})]),
           document' = next, temp' = "none",
           UNCHANGED <<orphans, ready, next, queue, call, status>>
    PROVE  StoreIsHonest'
<1> DEFINE h == Head(queue)
           v == [doc |-> next, calls |-> Newest.calls \cup (IF Booting THEN {} ELSE {h})]
<1>1. /\ Len(versions) \in DOMAIN versions /\ versions \in Seq(Version)
      /\ DOMAIN versions = 1..Len(versions) /\ Len(versions) \in Nat
  BY NewestFacts
<1>2. next # None /\ next \in Document /\ ValidDocument(next)
  <2>1. EmptyDocument # None
    <3>1. EmptyDocument \in Document  BY DEF EmptyDocument, Document
    <3>2. QED  BY <3>1, NoneAssumption
  <2>2. QED  BY <2>1 DEF StoreIsHonest, WriterIsCurrent, TypeOK, RestartFindsValidDocument
<1>3. v.doc = next /\ Newest.calls \subseteq v.calls /\ v \in Version
  <2>1. ~Booting => h \in Calls  BY HeadFacts DEF Booting
  <2>2. Newest.calls \subseteq Calls  BY <1>1, NewestFacts DEF Newest
  <2>3. QED  BY <2>1, <2>2, <1>2 DEF Version
<1>4. /\ versions' \in Seq(Version) /\ versions' # <<>> /\ Newest' = v
      /\ \A i \in DOMAIN versions' : (i \in DOMAIN versions /\ versions'[i] = versions[i]) \/ versions'[i] = v
  <2>1. versions' = Append(versions, v)  OBVIOUS
  <2> HIDE DEF v
  <2>2. /\ versions' \in Seq(Version) /\ Len(versions') = Len(versions) + 1
        /\ versions'[Len(versions) + 1] = v /\ DOMAIN versions' = 1..Len(versions) + 1
        /\ \A i \in 1..Len(versions) : versions'[i] = versions[i]
    BY <2>1, <1>1, <1>3
  <2>3. \A i \in DOMAIN versions' : i \in 1..Len(versions) \/ i = Len(versions) + 1  BY <2>2, <1>1
  <2>4. versions' # <<>>  BY <2>2, <1>1
  <2>5. QED  BY <2>2, <2>3, <2>4, <1>1 DEF Newest
<1>5. ~Booting =>
         /\ queue # <<>> /\ h \in Calls /\ status[h] = "queued" /\ document # None
         /\ call[h].o \in Operation
         /\ Mutation(call[h].o, call[h].revision, document, next)
  BY HeadFacts DEF Booting, StoreIsHonest, WriterIsCurrent
<1>6. Booting => queue = <<>> /\ (\A c \in Calls : status[c] \notin {"queued", "committed"}) /\ v.calls = Newest.calls
  BY DEF Booting, StoreIsHonest, QueueHoldsTheUnanswered
<1>7. ~Booting => v.calls = Newest.calls \cup {h}  OBVIOUS
<1>8. Booting' = Booting  BY DEF Booting
<1> HIDE DEF v
<1>9. TypeOK'  BY <1>2, <1>4 DEF StoreIsHonest, TypeOK, Stages
<1>10. RestartFindsValidDocument'
  BY <1>2, <1>3, <1>4 DEF StoreIsHonest, RestartFindsValidDocument
<1>11. MemoryMatchesFile'  BY <1>3, <1>4 DEF MemoryMatchesFile
<1>12. WriterIsCurrent'  BY <1>2 DEF WriterIsCurrent
<1>13. QueueHoldsTheUnanswered'  BY <1>8 DEF StoreIsHonest, QueueHoldsTheUnanswered
<1>14. ReorderSeesNoOtherChange'  BY DEF ReorderSeesNoOtherChange
<1>15. \A c \in Calls : status[c] = "queued" =>
          ~Booting /\ ~Applied(c) /\ (Applied(c)' <=> c = h) /\ (Begun(c) <=> c = h) /\ (Begun(c)' <=> c = h)
  BY <1>5, <1>6 DEF Applied, Begun
<1>16. UnappliedLeavesNoTrace'
  <2>1. ASSUME NEW c \in Calls, status[c] = "queued", c # h, NEW i \in DOMAIN versions'
        PROVE  c \notin versions'[i].calls
    <3>1. \A j \in DOMAIN versions : c \notin versions[j].calls
      BY <2>1, <1>15 DEF StoreIsHonest, UnappliedLeavesNoTrace
    <3>2. c \notin v.calls  BY <2>1, <3>1, <1>1, <1>7, <1>15 DEF Newest
    <3>3. QED  BY <3>1, <3>2, <1>4
  <2>2. ASSUME NEW c \in Calls, Applied(c)' PROVE c \in Newest'.calls
    <3>1. ~Booting /\ c = h  BY <2>2 DEF Applied, Booting
    <3>2. QED  BY <3>1, <1>4, <1>7
  <2>3. QED  BY <2>1, <2>2, <1>15 DEF UnappliedLeavesNoTrace
<1>17. WaitingIdIsUnused'
  <2>1. ASSUME NEW c \in Calls, status[c] = "queued", c # h, call[c].o \in Creation
        PROVE  /\ \A i \in DOMAIN versions' :
                     versions'[i].doc \in Document => call[c].o.id \notin IdsOf(versions'[i].doc)
               /\ call[c].o.id \notin IdsOf(next)
    <3>1. /\ \A i \in DOMAIN versions :
                     versions[i].doc \in Document => call[c].o.id \notin IdsOf(versions[i].doc)
          /\ call[c].o.id \notin IdsOf(next)
      BY <2>1, <1>2, <1>15 DEF StoreIsHonest, WaitingIdIsUnused
    <3>2. QED  BY <3>1, <1>3, <1>4
  <2>2. QED  BY <2>1, <1>15 DEF StoreIsHonest, WaitingIdIsUnused
<1>18. RevisionTellsStructure'
  <2>1. SUFFICES ASSUME NEW c \in Calls, status[c] = "queued", c # h
                 PROVE  /\ call[c].revision <= next.revision
                        /\ call[c].revision = next.revision => call[c].seen = Structure(next)
    BY <1>15 DEF RevisionTellsStructure, Structure
  <2>2. /\ call[c].revision <= document.revision
        /\ call[c].revision = document.revision => call[c].seen = Structure(document)
    BY <2>1, <1>15 DEF StoreIsHonest, RevisionTellsStructure
  <2>3. document \in Document /\ ValidDocument(document) /\ document.revision \in Nat
    BY <2>1, <1>5, <1>15, NewestFacts, DocumentFields
  <2>4. call[c].revision \in Nat
    <3>1. call[c] \in Request  BY <2>1 DEF StoreIsHonest, QueueHoldsTheUnanswered
    <3>2. QED  BY <3>1 DEF Request
  <2>5. \/ next.revision = document.revision + 1
        \/ next.revision = document.revision /\ Structure(next) = Structure(document)
    BY <2>1, <2>3, <1>5, <1>15, MutationRevision
  <2>6. QED  BY <2>2, <2>3, <2>4, <2>5
<1>19. OutcomeIsHonest'
  <2>1. ASSUME NEW c \in Calls, status[c] \in {"unused", "refused", "failed", "unchanged"},
               NEW i \in DOMAIN versions'
        PROVE  c \notin versions'[i].calls
    <3>1. \A j \in DOMAIN versions : c \notin versions[j].calls
      BY <2>1 DEF StoreIsHonest, OutcomeIsHonest
    <3>2. c \notin v.calls  BY <2>1, <3>1, <1>1, <1>5, <1>6, <1>7 DEF Newest
    <3>3. QED  BY <3>1, <3>2, <1>4
  <2>2. ASSUME NEW c \in Calls, status[c] = "committed" PROVE c \in Newest'.calls
    BY <2>2, <1>3, <1>4 DEF StoreIsHonest, OutcomeIsHonest
  <2>3. QED  BY <2>1, <2>2 DEF OutcomeIsHonest
<1>20. AcknowledgedSurvives'
  <2>1. SUFFICES ASSUME NEW c \in Calls,
                        status[c] = "durable" \/ (status[c] = "committed" /\ ready /\ DirectorySync),
                        NEW i \in DOMAIN versions'
                 PROVE  c \in versions'[i].calls
    BY DEF AcknowledgedSurvives
  <2>2. \A j \in DOMAIN versions : c \in versions[j].calls
    BY <2>1 DEF StoreIsHonest, AcknowledgedSurvives
  <2>3. c \in v.calls  BY <2>2, <1>1, <1>3 DEF Newest
  <2>4. QED  BY <2>2, <2>3, <1>4
<1>21. QED
  BY <1>9, <1>10, <1>11, <1>12, <1>13, <1>14, <1>16, <1>17, <1>18, <1>19, <1>20 DEF StoreIsHonest

\* What a caller sees of a document is a list of identifiers, names and states.
LEMMA StructureType ==
    ASSUME NEW d \in Document
    PROVE  Structure(d) \in Seq(Ids \X Names \X {"active", "stopped"})
<1> DEFINE S == Ids \X Names \X {"active", "stopped"}
           n == Len(d.tabs)
<1>1. /\ DOMAIN d.tabs = 1..n /\ n \in Nat
      /\ \A i \in 1..n : /\ d.tabs[i].id \in Ids /\ d.tabs[i].name \in Names
                         /\ d.tabs[i].desired \in {"active", "stopped"}
  BY DocumentFields
<1>2. \A i \in 1..n : <<d.tabs[i].id, d.tabs[i].name, d.tabs[i].desired>> \in S  BY <1>1
<1>3. Structure(d) = [i \in 1..n |-> <<d.tabs[i].id, d.tabs[i].name, d.tabs[i].desired>>]
  BY <1>1 DEF Structure
<1> HIDE DEF S, n
<1>4. Structure(d) \in [1..n -> S]  BY <1>2, <1>3
<1>5. Structure(d) \in Seq(S)  BY <1>1, <1>4, FunctionIsSeq
<1>6. QED  BY <1>5 DEF S

\* A new call joins the queue with what its caller sees at that moment.
LEMMA EnqueueKeeps ==
    ASSUME StoreIsHonest, NEW c \in Calls, NEW o \in Operations, Enqueue(c, o)
    PROVE  StoreIsHonest'
<1> DEFINE q == [o |-> o, revision |-> document.revision, seen |-> Structure(document)]
<1>1. /\ status[c] = "unused" /\ (pc = "idle" \/ queue # <<>>) /\ Fresh(o)
      /\ call' = [call EXCEPT ![c] = q] /\ status' = [status EXCEPT ![c] = "queued"]
      /\ queue' = Append(queue, c)
      /\ UNCHANGED <<versions, temp, orphans, document, ready, next, pc>>
  BY DEF Enqueue, fileVars, memoryVars
<1>2. /\ queue \in Seq(Calls) /\ call \in [Calls -> Request \cup {None}] /\ status \in [Calls -> Outcomes]
  BY DEF StoreIsHonest, TypeOK
<1>3. document # None /\ document \in Document
  BY <1>1, NewestFacts DEF StoreIsHonest, WriterIsCurrent
<1>4. q \in Request /\ q.o = o /\ q.revision = document.revision /\ q.seen = Structure(document)
  <2>1. document.revision \in Nat  BY <1>3, DocumentFields
  <2>2. QED  BY <2>1, <1>3, StructureType DEF Request
<1> HIDE DEF q
<1>5. /\ \A d \in Calls : call'[d] = IF d = c THEN q ELSE call[d]
      /\ \A d \in Calls : status'[d] = IF d = c THEN "queued" ELSE status[d]
  BY <1>1, <1>2
<1>6. /\ queue' \in Seq(Calls) /\ queue' # <<>> /\ DOMAIN queue = 1..Len(queue) /\ Len(queue) \in Nat
      /\ DOMAIN queue' = 1..Len(queue) + 1
      /\ \A i \in DOMAIN queue : queue'[i] = queue[i] /\ i \in DOMAIN queue'
      /\ queue'[Len(queue) + 1] = c /\ Len(queue) + 1 \in DOMAIN queue'
      /\ \A i \in DOMAIN queue' : i \in DOMAIN queue \/ i = Len(queue) + 1
      /\ queue # <<>> => Head(queue') = Head(queue)
  BY <1>1, <1>2
<1>7. \A i \in DOMAIN queue : queue[i] # c
  BY <1>1 DEF StoreIsHonest, QueueHoldsTheUnanswered
<1>8. /\ pc # "idle" => queue # <<>> /\ Head(queue') = Head(queue) /\ Head(queue) # c /\ Head(queue) \in Calls
      /\ ~Booting /\ ~Booting'
  BY <1>1, <1>6, HeadFacts DEF Booting
<1>9. /\ \A d \in Calls : (Applied(d)' <=> Applied(d)) /\ (d # c => (Begun(d)' <=> Begun(d)))
      /\ ~Applied(c) /\ ~Begun(c)'
  BY <1>1, <1>6, <1>8 DEF Applied, Begun
<1>10. TypeOK'
  <2>1. call' \in [Calls -> Request \cup {None}]  BY <1>1, <1>2, <1>4
  <2>2. status' \in [Calls -> Outcomes]  BY <1>1, <1>2 DEF Outcomes
  <2>3. QED  BY <2>1, <2>2, <1>1, <1>6 DEF StoreIsHonest, TypeOK
<1>11. Newest' = Newest  BY <1>1 DEF Newest
<1>12. RestartFindsValidDocument' /\ MemoryMatchesFile'
  BY <1>1, <1>11 DEF StoreIsHonest, RestartFindsValidDocument, MemoryMatchesFile
<1>13. OutcomeIsHonest' /\ AcknowledgedSurvives'
  BY <1>1, <1>5, <1>11 DEF StoreIsHonest, OutcomeIsHonest, AcknowledgedSurvives
<1>14. WriterIsCurrent'
  <2>1. pc # "idle" => call'[Head(queue')] = call[Head(queue)]  BY <1>5, <1>8
  <2>2. pc \notin {"down", "reading", "cleaning"}
    BY <1>1 DEF StoreIsHonest, WriterIsCurrent
  <2>3. next = None \/ pc # "idle"  BY DEF StoreIsHonest, WriterIsCurrent
  <2>4. pc \in {"opening", "writing", "discarding"} =>
           next # None /\ Mutation(call'[Head(queue')].o, call'[Head(queue')].revision, document, next)
    BY <2>1, <1>8 DEF StoreIsHonest, WriterIsCurrent
  <2>5. QED  BY <2>2, <2>3, <2>4, <1>1, <1>3, <1>6 DEF WriterIsCurrent
<1>15. ReorderSeesNoOtherChange'
  <2>1. SUFFICES ASSUME pc = "opening", call'[Head(queue')].o.op = "reorder"
                 PROVE  Structure(document) = call'[Head(queue')].seen
    BY <1>1 DEF ReorderSeesNoOtherChange, Structure
  <2>2. queue # <<>> /\ call'[Head(queue')] = call[Head(queue)]  BY <2>1, <1>5, <1>8
  <2>3. QED  BY <2>1, <2>2 DEF StoreIsHonest, ReorderSeesNoOtherChange
<1>16. QueueHoldsTheUnanswered'
  <2>1. /\ \A i, j \in DOMAIN queue : queue[i] = queue[j] => i = j
        /\ \A d \in Calls : status[d] = "queued" <=> \E i \in DOMAIN queue : queue[i] = d
        /\ \A d \in Calls : status[d] # "unused" => call[d] \in Request
    BY DEF StoreIsHonest, QueueHoldsTheUnanswered
  <2>2. \A i, j \in DOMAIN queue' : queue'[i] = queue'[j] => i = j
    BY <2>1, <1>6, <1>7
  <2>3. ASSUME NEW d \in Calls PROVE status'[d] = "queued" <=> \E i \in DOMAIN queue' : queue'[i] = d
    <3>1. CASE d = c  BY <3>1, <1>5, <1>6
    <3>2. CASE d # c  BY <3>2, <2>1, <1>5, <1>6
    <3>3. QED  BY <3>1, <3>2
  <2>4. \A d \in Calls : status'[d] # "unused" => call'[d] \in Request
    BY <2>1, <1>4, <1>5
  <2>5. QED  BY <2>2, <2>3, <2>4, <1>8 DEF QueueHoldsTheUnanswered
<1>17. UnappliedLeavesNoTrace'
  <2>1. \A i \in DOMAIN versions : c \notin versions[i].calls
    BY <1>1 DEF StoreIsHonest, OutcomeIsHonest
  <2>2. QED  BY <2>1, <1>1, <1>5, <1>9, <1>11 DEF StoreIsHonest, UnappliedLeavesNoTrace
<1>18. WaitingIdIsUnused'
  <2>1. ASSUME NEW d \in Calls, status'[d] = "queued", ~Begun(d)', call'[d].o \in Creation
        PROVE  /\ \A i \in DOMAIN versions :
                     versions[i].doc \in Document => call'[d].o.id \notin IdsOf(versions[i].doc)
               /\ next # None => call'[d].o.id \notin IdsOf(next)
    <3>1. CASE d = c  BY <3>1, <2>1, <1>1, <1>4, <1>5 DEF Fresh
    <3>2. CASE d # c  BY <3>2, <2>1, <1>5, <1>9 DEF StoreIsHonest, WaitingIdIsUnused
    <3>3. QED  BY <3>1, <3>2
  <2>2. ASSUME NEW d \in Calls, status[d] # "unused", call[d].o \in Creation, o \in Creation
        PROVE  call[d].o.id # o.id
    <3>1. call[d] # None
      BY <2>2, NoneAssumption DEF StoreIsHonest, QueueHoldsTheUnanswered
    <3>2. QED  BY <3>1, <2>2, <1>1 DEF Fresh
  <2>3. ASSUME NEW d \in Calls, NEW e \in Calls, status'[d] # "unused", status'[e] # "unused",
               call'[d].o \in Creation, call'[e].o \in Creation, call'[d].o.id = call'[e].o.id
        PROVE  d = e
    <3>1. CASE d = c /\ e # c  BY <3>1, <2>2, <2>3, <1>4, <1>5
    <3>2. CASE e = c /\ d # c  BY <3>2, <2>2, <2>3, <1>4, <1>5
    <3>3. CASE d # c /\ e # c  BY <3>3, <2>3, <1>5 DEF StoreIsHonest, WaitingIdIsUnused
    <3>4. QED  BY <3>1, <3>2, <3>3
  <2>4. QED  BY <2>1, <2>3, <1>1 DEF WaitingIdIsUnused
<1>19. RevisionTellsStructure'
  <2>1. SUFFICES ASSUME NEW d \in Calls, status'[d] = "queued", ~Applied(d)'
                 PROVE  /\ call'[d].revision <= document.revision
                        /\ call'[d].revision = document.revision => call'[d].seen = Structure(document)
    BY <1>1 DEF RevisionTellsStructure, Structure
  <2>2. CASE d = c
    <3>1. document.revision \in Nat  BY <1>3, DocumentFields
    <3>2. QED  BY <3>1, <2>2, <1>4, <1>5
  <2>3. CASE d # c  BY <2>1, <2>3, <1>5, <1>9 DEF StoreIsHonest, RevisionTellsStructure
  <2>4. QED  BY <2>2, <2>3
<1>20. QED
  BY <1>10, <1>12, <1>13, <1>14, <1>15, <1>16, <1>17, <1>18, <1>19 DEF StoreIsHonest

\* The running operation computes its candidate from the current document.
LEMMA BeginKeeps ==
    ASSUME StoreIsHonest, pc = "idle", queue # <<>>,
           Mutation(call[Head(queue)].o, call[Head(queue)].revision, document, next'),
           pc' = "opening",
           UNCHANGED <<versions, temp, orphans, document, ready, queue, call, status>>
    PROVE  StoreIsHonest'
<1> DEFINE h == Head(queue)
<1>1. /\ h \in Calls /\ status[h] = "queued" /\ call[h].o \in Operation /\ document # None
      /\ call[h] \in Request
  BY HeadFacts
<1>2. /\ Len(versions) \in DOMAIN versions /\ document = Newest.doc
      /\ ValidDocument(document) /\ document \in Document
  BY <1>1, NewestFacts
<1>3. ~Begun(h) /\ ~Booting /\ ~Booting' /\ next = None
      /\ \A c \in Calls : ~Begun(c) /\ ~Applied(c) /\ ~Applied(c)' /\ (Begun(c)' <=> c = h)
  BY DEF Begun, Booting, Applied, StoreIsHonest, WriterIsCurrent
<1>4. call[h].o \in Creation => call[h].o.id \notin IdsOf(document)
  BY <1>1, <1>2, <1>3 DEF StoreIsHonest, WaitingIdIsUnused, Newest
<1>5. /\ ValidDocument(next')
      /\ IdsOf(next') \subseteq IdsOf(document) \cup (IF call[h].o \in Creation THEN {call[h].o.id} ELSE {})
  BY <1>1, <1>2, <1>4, MutationFacts
<1>6. next' \in Document /\ next' # None  BY <1>5, NoneAssumption DEF ValidDocument
<1>7. TypeOK'  BY <1>6 DEF StoreIsHonest, TypeOK, Stages
<1>8. Newest' = Newest  BY DEF Newest
<1>9. /\ RestartFindsValidDocument' /\ MemoryMatchesFile' /\ OutcomeIsHonest' /\ AcknowledgedSurvives'
  BY <1>5, <1>8 DEF StoreIsHonest, RestartFindsValidDocument, MemoryMatchesFile, OutcomeIsHonest,
     AcknowledgedSurvives
<1>10. ReorderSeesNoOtherChange'
  <2>1. SUFFICES ASSUME call[h].o.op = "reorder" PROVE Structure(document) = call[h].seen
    BY DEF ReorderSeesNoOtherChange, Structure
  <2>2. call[h].revision = document.revision  BY <2>1 DEF Mutation, Refused
  <2>3. QED  BY <2>2, <1>1, <1>3 DEF StoreIsHonest, RevisionTellsStructure
<1>11. WriterIsCurrent'  BY <1>1, <1>6 DEF WriterIsCurrent
<1>12. QueueHoldsTheUnanswered'  BY <1>3 DEF StoreIsHonest, QueueHoldsTheUnanswered
<1>13. UnappliedLeavesNoTrace' /\ RevisionTellsStructure'
  BY <1>3, <1>8 DEF StoreIsHonest, UnappliedLeavesNoTrace, RevisionTellsStructure, Structure
<1>14. WaitingIdIsUnused'
  <2>1. ASSUME NEW c \in Calls, status[c] = "queued", c # h, call[c].o \in Creation
        PROVE  /\ \A i \in DOMAIN versions :
                     versions[i].doc \in Document => call[c].o.id \notin IdsOf(versions[i].doc)
               /\ call[c].o.id \notin IdsOf(next')
    <3>1. \A i \in DOMAIN versions :
             versions[i].doc \in Document => call[c].o.id \notin IdsOf(versions[i].doc)
      BY <2>1, <1>3 DEF StoreIsHonest, WaitingIdIsUnused
    <3>2. call[c].o.id \notin IdsOf(document)  BY <3>1, <1>2 DEF Newest
    <3>3. call[h].o \in Creation => call[h].o.id # call[c].o.id
      BY <2>1, <1>1 DEF StoreIsHonest, WaitingIdIsUnused
    <3>4. QED  BY <3>1, <3>2, <3>3, <1>5
  <2>2. QED  BY <2>1, <1>3 DEF StoreIsHonest, WaitingIdIsUnused
<1>15. QED
  BY <1>7, <1>9, <1>10, <1>11, <1>12, <1>13, <1>14 DEF StoreIsHonest

\* The process ends, and tabs.json is left as it is or falls back to one of
\* the versions since the last directory sync.
LEMMA EndKeeps ==
    ASSUME StoreIsHonest, ProcessEnds,
           UNCHANGED versions \/ \E k \in DOMAIN versions : versions' = <<versions[k]>>
    PROVE  StoreIsHonest'
<1>1. /\ pc' = "down" /\ document' = None /\ ready' = FALSE /\ next' = None /\ temp' = "none"
      /\ queue' = <<>> /\ UNCHANGED call
      /\ status' = [c \in Calls |->
                       IF status[c] = "queued" THEN "lost"
                       ELSE IF status[c] = "committed" THEN "uncertain" ELSE status[c]]
      /\ orphans' = (orphans \/ temp # "none")
  BY DEF ProcessEnds
<1>2. versions \in Seq(Version) /\ versions # <<>> /\ Len(versions) \in DOMAIN versions
      /\ status \in [Calls -> Outcomes]
  BY NewestFacts DEF StoreIsHonest, TypeOK
<1>3. /\ versions' \in Seq(Version) /\ versions' # <<>>
      /\ \A i \in DOMAIN versions' : \E j \in DOMAIN versions : versions'[i] = versions[j]
  <2>1. CASE UNCHANGED versions  BY <2>1, <1>2
  <2>2. ASSUME NEW k \in DOMAIN versions, versions' = <<versions[k]>>
        PROVE  /\ versions' \in Seq(Version) /\ versions' # <<>>
               /\ \A i \in DOMAIN versions' : \E j \in DOMAIN versions : versions'[i] = versions[j]
    BY <2>2, CutVersions
  <2>3. QED  BY <2>1, <2>2
<1>4. /\ status' \in [Calls -> Outcomes]
      /\ \A c \in Calls : /\ status'[c] \notin {"queued", "committed"}
                          /\ status'[c] \in {"unused", "refused", "failed", "unchanged", "durable"} =>
                                status'[c] = status[c]
                          /\ status'[c] # "unused" => status[c] # "unused"
  BY <1>1, <1>2 DEF Outcomes
<1>5. TypeOK'
  <2>1. orphans' \in BOOLEAN  BY <1>1 DEF StoreIsHonest, TypeOK
  <2>2. <<>> \in Seq(Calls)  OBVIOUS
  <2>3. QED  BY <2>1, <2>2, <1>1, <1>3, <1>4 DEF StoreIsHonest, TypeOK, Stages
<1>6. RestartFindsValidDocument'  BY <1>1, <1>3 DEF StoreIsHonest, RestartFindsValidDocument
<1>7. MemoryMatchesFile' /\ ReorderSeesNoOtherChange'
  BY <1>1 DEF MemoryMatchesFile, ReorderSeesNoOtherChange
<1>8. OutcomeIsHonest'  BY <1>3, <1>4 DEF StoreIsHonest, OutcomeIsHonest
<1>9. AcknowledgedSurvives'  BY <1>3, <1>4 DEF StoreIsHonest, AcknowledgedSurvives
<1>10. WriterIsCurrent'  BY <1>1 DEF WriterIsCurrent
<1>11. QueueHoldsTheUnanswered'  BY <1>1, <1>4 DEF StoreIsHonest, QueueHoldsTheUnanswered
<1>12. UnappliedLeavesNoTrace' /\ RevisionTellsStructure'
  BY <1>1, <1>4 DEF UnappliedLeavesNoTrace, RevisionTellsStructure, Applied
<1>13. WaitingIdIsUnused'  BY <1>1, <1>4 DEF StoreIsHonest, WaitingIdIsUnused
<1>14. QED
  BY <1>5, <1>6, <1>7, <1>8, <1>9, <1>10, <1>11, <1>12, <1>13 DEF StoreIsHonest

\* Before the first start the file is valid or missing, and nobody has asked
\* for anything.
LEMMA InitIsHonest == Init => StoreIsHonest
<1> SUFFICES ASSUME Init PROVE StoreIsHonest  OBVIOUS
<1>1. PICK d \in InitialDocuments : versions = <<[doc |-> d, calls |-> {}]>>  BY DEF Init
<1>2. d = None \/ ValidDocument(d)  BY InitialAssumption
<1>3. [doc |-> d, calls |-> {}] \in Version  BY <1>2 DEF Version, ValidDocument
<1>4. /\ versions \in Seq(Version) /\ versions # <<>> /\ DOMAIN versions = {1}
      /\ versions[1].doc = d /\ versions[1].calls = {}
  BY <1>1, <1>3
<1>5. TypeOK
  <2>1. <<>> \in Seq(Calls)  OBVIOUS
  <2>2. QED  BY <2>1, <1>4 DEF Init, TypeOK, Stages, Outcomes
<1>6. RestartFindsValidDocument  BY <1>2, <1>4 DEF Init, RestartFindsValidDocument
<1>7. MemoryMatchesFile /\ ReorderSeesNoOtherChange /\ WriterIsCurrent
  BY DEF Init, MemoryMatchesFile, ReorderSeesNoOtherChange, WriterIsCurrent
<1>8. OutcomeIsHonest /\ AcknowledgedSurvives
  BY <1>4 DEF Init, OutcomeIsHonest, AcknowledgedSurvives
<1>9. QueueHoldsTheUnanswered
  <2>1. queue = <<>> /\ DOMAIN queue = {} /\ \A c \in Calls : status[c] = "unused"  BY DEF Init
  <2>2. QED  BY <2>1 DEF QueueHoldsTheUnanswered
<1>10. UnappliedLeavesNoTrace /\ WaitingIdIsUnused /\ RevisionTellsStructure
  BY DEF Init, UnappliedLeavesNoTrace, WaitingIdIsUnused, RevisionTellsStructure, Applied
<1>11. QED
  BY <1>5, <1>6, <1>7, <1>8, <1>9, <1>10 DEF StoreIsHonest

\* Every step of the store, every crash and every power failure keeps it honest.
LEMMA HonestStep == StoreIsHonest /\ [Next]_vars => StoreIsHonest'
<1> SUFFICES ASSUME StoreIsHonest, [Next]_vars PROVE StoreIsHonest'  OBVIOUS
<1> USE DEF fileVars, memoryVars, callVars
<1>t. /\ temp \in {"none", "created", "written", "synced"} /\ orphans \in BOOLEAN /\ ready \in BOOLEAN
      /\ document \in Document \cup {None} /\ pc \in Stages
  BY DEF StoreIsHonest, TypeOK
<1>w. WriterIsCurrent  BY DEF StoreIsHonest
<1>1. ASSUME NEW c \in Calls, NEW o \in Operations, Enqueue(c, o) PROVE StoreIsHonest'
  BY <1>1, EnqueueKeeps
<1>2. ASSUME Mutate PROVE StoreIsHonest'
  <2>1. /\ pc = "idle" /\ queue # <<>> /\ pc # "syncingDirectory"
        /\ UNCHANGED <<versions, temp, orphans, document, ready, call>>
    BY <1>2 DEF Mutate
  <2>2. CASE Settle("refused") \/ Settle("unchanged")
    BY <2>1, <2>2, <1>t, SettleKeeps
  <2>3. CASE /\ Mutation(call[Head(queue)].o, call[Head(queue)].revision, document, next')
             /\ pc' = "opening" /\ UNCHANGED <<queue, status>>
    BY <2>1, <2>3, BeginKeeps
  <2>4. QED  BY <1>2, <2>2, <2>3 DEF Mutate
<1>a. ASSUME Abort, pc \in {"opening", "discarding"}, UNCHANGED <<versions, document, ready, call>>,
             temp' \in {"none", temp}, orphans' \in BOOLEAN
      PROVE  StoreIsHonest'
  <2>1. CASE Booting
    <3>1. pc' = "down" /\ next' = None /\ UNCHANGED <<queue, status>> /\ queue = <<>>
      BY <1>a, <2>1 DEF Abort, Booting
    <3>2. document = None  BY <3>1, <1>a, <1>w DEF WriterIsCurrent
    <3>3. WriterIsCurrent'  BY <3>1, <3>2, <1>a DEF WriterIsCurrent
    <3>4. QED  BY <2>1, <3>1, <3>3, <1>a, <1>t, BootKeeps DEF Stages
  <2>2. CASE ~Booting
    <3>1. queue # <<>> /\ Settle("failed")  BY <1>a, <2>2 DEF Abort, Booting
    <3>2. QED  BY <3>1, <1>a, <1>t, SettleKeeps
  <2>3. QED  BY <2>1, <2>2
<1>b. ASSUME pc \in {"opening", "writing"}, pc' \in {"writing", "discarding"},
             UNCHANGED <<queue, call, status, versions, document, next, ready, orphans>>,
             temp' \in {"created", "written", "synced", temp}
      PROVE  StoreIsHonest'
  <2>1. CASE queue # <<>>  BY <2>1, <1>b, <1>t, WriteKeeps
  <2>2. CASE queue = <<>>
    <3>1. Booting /\ Newest' = Newest  BY <2>2, <1>b DEF Booting, Newest
    <3>2. WriterIsCurrent'  BY <2>2, <3>1, <1>b, <1>w DEF WriterIsCurrent
    <3>3. QED  BY <3>1, <3>2, <1>b, <1>t, BootKeeps DEF Stages
  <2>3. QED  BY <2>1, <2>2
<1>3. ASSUME OpenTemp PROVE StoreIsHonest'
  <2>1. CASE Abort /\ UNCHANGED temp
    BY <1>3, <2>1, <1>a, <1>t DEF OpenTemp
  <2>2. CASE temp' = "created" /\ pc' = "writing" /\ UNCHANGED <<next, queue, status>>
    BY <1>3, <2>2, <1>b DEF OpenTemp
  <2>3. QED  BY <1>3, <2>1, <2>2 DEF OpenTemp
<1>4. ASSUME WriteTemp PROVE StoreIsHonest'
  BY <1>4, <1>b DEF WriteTemp, Discard
<1>5. ASSUME SyncTemp PROVE StoreIsHonest'
  BY <1>5, <1>b DEF SyncTemp, Discard
<1>6. ASSUME CommitTemp PROVE StoreIsHonest'
  <2>1. CASE Discard /\ UNCHANGED <<versions, document, temp>>
    BY <1>6, <2>1, <1>b DEF CommitTemp, Discard
  <2>2. CASE /\ versions' = Append(versions,
                   [doc |-> Contents(next),
                    calls |-> Newest.calls \cup (IF Booting THEN {} ELSE {Head(queue)})])
             /\ document' = next /\ temp' = "none" /\ pc' = "syncingDirectory"
    <3>1. /\ pc = "writing" /\ Contents(next) = next
          /\ UNCHANGED <<orphans, ready, next, queue, call, status>>
      BY <1>6 DEF CommitTemp, Contents
    <3>2. QED  BY <2>2, <3>1, RenameKeeps
  <2>3. QED  BY <1>6, <2>1, <2>2 DEF CommitTemp
<1>7. ASSUME DiscardTemp PROVE StoreIsHonest'
  BY <1>7, <1>a, <1>t DEF DiscardTemp
<1>8. ASSUME SyncDirectory PROVE StoreIsHonest'
  <2>1. pc = "syncingDirectory" /\ UNCHANGED <<temp, orphans, document, call>> /\ ready' \in BOOLEAN
        /\ document # None
    BY <1>8, <1>w DEF SyncDirectory, WriterIsCurrent
  <2>2. PICK x : /\ Resume(x)
                 /\ \/ x = "durable" /\ versions' = <<Newest>>
                    \/ x = "committed" /\ UNCHANGED versions /\ (~DirectorySync \/ ~ready')
    BY <1>8 DEF SyncDirectory
  <2>3. CASE Booting
    <3>1. pc' = "cleaning" /\ next' = None /\ UNCHANGED <<queue, status>> /\ queue = <<>>
      BY <2>2, <2>3 DEF Resume, Booting
    <3>2. WriterIsCurrent'  BY <2>1, <3>1 DEF WriterIsCurrent
    <3>3. QED  BY <2>1, <2>2, <2>3, <3>1, <3>2, <1>t, BootKeeps DEF Stages
  <2>4. CASE ~Booting
    <3>1. queue # <<>> /\ Settle(x)  BY <2>1, <2>2, <2>4 DEF Resume, Booting
    <3>2. QED  BY <2>1, <2>2, <3>1, <1>t, SettleKeeps
  <2>5. QED  BY <2>3, <2>4
<1>9. ASSUME Start PROVE StoreIsHonest'
  <2>1. Booting /\ WriterIsCurrent'
    BY <1>9, <1>w DEF Start, Booting, WriterIsCurrent
  <2>2. QED  BY <1>9, <2>1, <1>t, BootKeeps DEF Start, Stages
<1>10. ASSUME ReadPrimary PROVE StoreIsHonest'
  <2>1. pc = "reading" /\ UNCHANGED <<versions, temp, orphans, queue, call, status>>
        /\ queue = <<>> /\ document = None /\ next = None /\ Booting /\ Newest' = Newest
    BY <1>10, <1>w DEF ReadPrimary, Booting, WriterIsCurrent, Newest
  <2>2. CASE /\ Newest.doc \notin {None, Torn} /\ document' = Newest.doc /\ ready' = TRUE
             /\ pc' = "cleaning" /\ UNCHANGED next
    <3>1. Newest.doc \in Document
      <4>1. Newest \in Version  BY NewestFacts DEF Newest
      <4>2. QED  BY <2>2, <4>1 DEF Version
    <3>2. WriterIsCurrent'  BY <2>1, <2>2 DEF WriterIsCurrent
    <3>3. QED  BY <2>1, <2>2, <3>1, <3>2, <1>t, BootKeeps DEF Stages
  <2>3. CASE Newest.doc = None /\ next' = EmptyDocument /\ pc' = "opening" /\ UNCHANGED <<document, ready>>
    <3>1. WriterIsCurrent'  BY <2>1, <2>3 DEF WriterIsCurrent
    <3>2. QED  BY <2>1, <2>3, <3>1, <1>t, BootKeeps DEF Stages
  <2>4. CASE pc' = "down" /\ UNCHANGED <<document, ready, next>>
    <3>1. WriterIsCurrent'  BY <2>1, <2>4 DEF WriterIsCurrent
    <3>2. QED  BY <2>1, <2>4, <3>1, <1>t, BootKeeps DEF Stages
  <2>5. QED  BY <1>10, <2>2, <2>3, <2>4 DEF ReadPrimary
<1>11. ASSUME CleanupTemps PROVE StoreIsHonest'
  <2>1. Booting /\ WriterIsCurrent'
    BY <1>11, <1>w DEF CleanupTemps, Booting, WriterIsCurrent
  <2>2. QED  BY <1>11, <2>1, <1>t, BootKeeps DEF CleanupTemps, Stages
<1>12. ASSUME Crash \/ PowerFailure PROVE StoreIsHonest'
  BY <1>12, EndKeeps DEF Crash, PowerFailure
<1>13. ASSUME UNCHANGED vars PROVE StoreIsHonest'
  <2> USE <1>13 DEF vars
  <2>1. Newest' = Newest /\ Booting' = Booting /\ \A c \in Calls : (Applied(c)' <=> Applied(c)) /\ (Begun(c)' <=> Begun(c))
    BY DEF Newest, Booting, Applied, Begun
  <2>2. TypeOK' /\ RestartFindsValidDocument' /\ MemoryMatchesFile' /\ OutcomeIsHonest' /\ AcknowledgedSurvives'
    BY <2>1 DEF StoreIsHonest, TypeOK, RestartFindsValidDocument, MemoryMatchesFile, OutcomeIsHonest,
       AcknowledgedSurvives
  <2>3. ReorderSeesNoOtherChange' /\ WriterIsCurrent' /\ QueueHoldsTheUnanswered'
    BY <2>1 DEF StoreIsHonest, ReorderSeesNoOtherChange, WriterIsCurrent, QueueHoldsTheUnanswered, Structure
  <2>4. UnappliedLeavesNoTrace' /\ WaitingIdIsUnused' /\ RevisionTellsStructure'
    BY <2>1 DEF StoreIsHonest, UnappliedLeavesNoTrace, WaitingIdIsUnused, RevisionTellsStructure, Structure
  <2>5. QED  BY <2>2, <2>3, <2>4 DEF StoreIsHonest
<1>14. QED
  BY <1>1, <1>2, <1>3, <1>4, <1>5, <1>6, <1>7, <1>8, <1>9, <1>10, <1>11, <1>12, <1>13
     DEF Next, StoreStep

\* What the store shows and tells is true at any moment, through crashes and
\* power failures at every await: a restart finds a valid document, memory is
\* the newest version, a failed or refused call has left no trace, an
\* acknowledged one survives, and a reorder has lost no other change.
THEOREM StoreIsAlwaysHonest == Spec => []StoreIsHonest
<1>1. QED  BY InitIsHonest, HonestStep, PTL DEF Spec

-----------------------------------------------------------------------------
\* The abstract specification computes documents as the store does.
LEMMA SameMutation ==
    ASSUME NEW o, NEW r, NEW d, NEW e
    PROVE  Durable!Mutation(o, r, d, e) <=> Mutation(o, r, d, e)
BY DEF Durable!Mutation, Mutation, Durable!Refused, Refused, Durable!Idle, Idle,
   Durable!IsPermutation, IsPermutation, Durable!IdsOf, IdsOf,
   Durable!Created, Created, Durable!NewTab, NewTab, Durable!StructuralDocument, StructuralDocument,
   Durable!Renamed, Renamed, Durable!Reordered, Reordered, Durable!IndexOf, IndexOf,
   Durable!StateSet, StateSet, Durable!Removed, Removed, Durable!Flushed, Flushed

\* It accepts the same documents as valid.
LEMMA SameValidity ==
    ASSUME NEW d
    PROVE  Durable!ValidDocument(d) <=> ValidDocument(d)
BY DEF Durable!ValidDocument, ValidDocument, Durable!Document, Document, Durable!Tab, Tab

\* Every step of the store is a step of the durable document: the rename of an
\* operation commits it, the rename of initialize creates the file, a directory
\* sync hardens the newest version, a power failure loses the others; every
\* other step leaves tabs.json alone.
LEMMA StepIsDurable == StoreIsHonest /\ [Next]_vars => [Durable!Next]_versions
<1> SUFFICES ASSUME StoreIsHonest, [Next]_vars PROVE [Durable!Next]_versions  OBVIOUS
<1> USE DEF fileVars, memoryVars, callVars
<1>0. Durable!Newest = Newest /\ Len(versions) \in DOMAIN versions
  BY NewestFacts DEF Durable!Newest, Newest
<1>1. ASSUME CommitTemp PROVE [Durable!Next]_versions
  <2> DEFINE v == [doc |-> next,
                   calls |-> Newest.calls \cup (IF Booting THEN {} ELSE {Head(queue)})]
  <2>1. CASE UNCHANGED versions  BY <2>1
  <2>2. CASE versions' = Append(versions, v) /\ pc = "writing"
    <3>1. Newest' = v /\ Durable!Newest' = v
      <4>1. versions \in Seq(Version) /\ Len(versions) \in Nat  BY NewestFacts
      <4>2. v \in Version
        <5>1. next \in Document \cup {None, Torn} /\ Newest.calls \subseteq Calls
          BY NewestFacts DEF StoreIsHonest, TypeOK, Newest
        <5>2. ~Booting => Head(queue) \in Calls  BY <2>2, HeadFacts DEF Booting
        <5>3. QED  BY <5>1, <5>2 DEF Version
      <4> HIDE DEF v
      <4>3. Len(versions') = Len(versions) + 1 /\ versions'[Len(versions) + 1] = v
        BY <2>2, <4>1, <4>2
      <4>4. QED  BY <4>3 DEF Newest, Durable!Newest
    <3>2. CASE Booting
      <4>1. Newest.doc = None /\ next = EmptyDocument
        BY <2>2, <3>2 DEF Booting, StoreIsHonest, WriterIsCurrent
      <4>2. v = [doc |-> EmptyDocument, calls |-> Newest.calls]  BY <3>2, <4>1
      <4>3. Durable!EmptyDocument = EmptyDocument  BY DEF Durable!EmptyDocument, EmptyDocument
      <4>4. Durable!CreateFile
        BY <2>2, <4>1, <4>2, <4>3, <1>0 DEF Durable!CreateFile, Durable!Extend
      <4>5. QED  BY <4>4 DEF Durable!Next
    <3>3. CASE ~Booting
      <4> DEFINE h == Head(queue)
      <4>1. queue # <<>> /\ h \in Calls /\ status[h] = "queued" /\ call[h].o \in Operations
            /\ document # None /\ document = Newest.doc
        BY <2>2, <3>3, HeadFacts, NewestFacts DEF Booting
      <4>2. Mutation(call[h].o, call[h].revision, document, next)
        BY <2>2, <4>1 DEF StoreIsHonest, WriterIsCurrent
      <4>3. Mutation(call[h].o, document.revision, document, next)
        BY <4>2 DEF Mutation, Refused
      <4>4. \A i \in DOMAIN versions : h \notin versions[i].calls
        BY <2>2, <4>1 DEF StoreIsHonest, UnappliedLeavesNoTrace, Applied
      <4>5. v.doc = next /\ v = [doc |-> v.doc, calls |-> Newest.calls \cup {h}]  BY <3>3
      <4> HIDE DEF h, v
      <4>6. Durable!Mutation(call[h].o, Durable!Newest.doc.revision, Durable!Newest.doc, Durable!Newest'.doc)
        BY <4>1, <4>3, <4>5, <3>1, <1>0, SameMutation
      <4>7. Durable!Commit(h, call[h].o)
        BY <2>2, <4>1, <4>4, <4>5, <4>6, <3>1, <1>0 DEF Durable!Commit, Durable!Extend
      <4>8. QED  BY <4>1, <4>7 DEF Durable!Next
    <3>4. QED  BY <3>2, <3>3
  <2>3. QED  BY <1>1, <2>1, <2>2 DEF CommitTemp, Contents, Discard
<1>2. ASSUME SyncDirectory PROVE [Durable!Next]_versions
  BY <1>2, <1>0 DEF SyncDirectory, Durable!Next, Durable!Harden
<1>3. ASSUME PowerFailure PROVE [Durable!Next]_versions
  BY <1>3 DEF PowerFailure, Durable!Next, Durable!Lose
<1>4. ASSUME NEW c \in Calls, NEW o \in Operations, Enqueue(c, o) PROVE UNCHANGED versions
  BY <1>4 DEF Enqueue
<1>5. ASSUME \/ Mutate \/ OpenTemp \/ WriteTemp \/ SyncTemp \/ DiscardTemp \/ ReadPrimary
             \/ CleanupTemps \/ Start \/ Crash \/ UNCHANGED vars
      PROVE  UNCHANGED versions
  BY <1>5 DEF Mutate, OpenTemp, WriteTemp, SyncTemp, DiscardTemp, ReadPrimary, CleanupTemps, Start,
     Crash, vars
<1>6. QED  BY <1>1, <1>2, <1>3, <1>4, <1>5 DEF Next, StoreStep

\* tab-store.ts implements the durable document: whatever crashes in between,
\* tabs.json changes by whole operations, each at most once, and a power
\* failure only takes it back to a version since the last directory sync.
THEOREM StoreImplementsDurableDocument == Spec => DurableSpec
<1>1. Init => Durable!Init
  <2> SUFFICES ASSUME Init PROVE Durable!Init  OBVIOUS
  <2>1. PICK d \in InitialDocuments : versions = <<[doc |-> d, calls |-> {}]>>  BY DEF Init
  <2>2. Len(versions) = 1 /\ versions[1].doc = d /\ versions[1].calls = {}  BY <2>1
  <2>3. QED  BY <2>2, InitialAssumption, SameValidity DEF Durable!Init, Durable!Newest
<1>2. QED
  BY <1>1, StepIsDurable, StoreIsAlwaysHonest, PTL DEF Spec, DurableSpec, Durable!Spec

-----------------------------------------------------------------------------
(***************************************************************************)
(* The list of tabs in a browser.                                          *)
(*                                                                         *)
(* Each answer is shown to leave the list with a selection that is shown,  *)
(* whatever list it meets: this is what makes the order of the answers     *)
(* irrelevant.  Only the answer to a close is not immediate, as it filters *)
(* the list.                                                               *)
(***************************************************************************)
\* A set of natural numbers has a least element.
LEMMA LeastNatural ==
    ASSUME NEW T \in SUBSET Nat, T # {}
    PROVE  \E x \in T : \A y \in T : x <= y
<1> DEFINE R == OpToRel(<, Nat)
<1>1. IsWellFoundedOn(R, Nat)  BY NatLessThanWellFounded
<1>2. \A x, y \in Nat : x < y => <<x, y>> \in R  BY DEF OpToRel
<1> HIDE DEF R
<1> PICK x \in T : \A y \in T : ~(<<y, x>> \in R)  BY <1>1, WFMin
<1>3. x \in Nat /\ \A y \in T : y \in Nat /\ ~(y < x)  BY <1>2
<1>4. \A y \in T : x <= y  BY <1>3
<1>5. QED  BY <1>4

\* Induction up to n: a set that has 0, and each number whose predecessor it has
LEMMA UpTo ==
    ASSUME NEW n \in Nat, NEW S, 0 \in S, \A k \in 1 .. n : k - 1 \in S => k \in S
    PROVE  \A k \in 0 .. n : k \in S
<1> DEFINE T == {k \in 0 .. n : k \notin S}
<1> SUFFICES ASSUME T # {} PROVE FALSE  OBVIOUS
<1>1. T \in SUBSET Nat  OBVIOUS
<1>2. \E x \in T : \A y \in T : x <= y
  <2> HIDE DEF T
  <2>1. QED  BY <1>1, LeastNatural
<1> PICK x \in T : \A y \in T : x <= y  BY <1>2
<1>3. x \in 1 .. n /\ x \notin S /\ x - 1 \in 0 .. n /\ ~(x <= x - 1)  OBVIOUS
<1>4. x - 1 \in S  BY <1>3
<1>5. QED  BY <1>3, <1>4

\* What a list of tabs shows
LEMMA ListFacts ==
    ASSUME NEW q \in Seq(Tab)
    PROVE  /\ Len(q) \in Nat /\ DOMAIN q = 1 .. Len(q)
           /\ \A i \in 1 .. Len(q) : q[i] \in Tab /\ q[i].id \in Ids /\ q[i].id \in ShownIn(q)
           /\ ShownIn(q) \subseteq Ids
           /\ q = <<>> <=> ShownIn(q) = {}
           /\ q # <<>> => 1 \in 1 .. Len(q)
<1>1. Len(q) \in Nat /\ DOMAIN q = 1 .. Len(q) /\ \A i \in 1 .. Len(q) : q[i] \in Tab  OBVIOUS
<1>2. \A t \in Tab : t.id \in Ids  BY DEF Tab
<1>3. q # <<>> => 1 \in 1 .. Len(q)
  <2>1. q # <<>> => Len(q) # 0  BY EmptySeq
  <2>2. QED  BY <1>1, <2>1
<1>4. q = <<>> => DOMAIN q = {}  OBVIOUS
<1>5. q = <<>> <=> ShownIn(q) = {}  BY <1>1, <1>3, <1>4 DEF ShownIn
<1>6. QED  BY <1>1, <1>2, <1>3, <1>5 DEF ShownIn

\* A tab is added at the end.
LEMMA AppendedIsShown ==
    ASSUME NEW q \in Seq(Tab), NEW t \in Tab
    PROVE  Append(q, t) \in Seq(Tab) /\ ShownIn(Append(q, t)) = ShownIn(q) \cup {t.id}
<1> DEFINE p == Append(q, t)
<1>1. /\ p \in Seq(Tab) /\ Len(p) = Len(q) + 1 /\ Len(q) \in Nat
      /\ \A i \in 1 .. Len(q) : p[i] = q[i]
      /\ p[Len(q) + 1] = t /\ DOMAIN q = 1 .. Len(q) /\ DOMAIN p = 1 .. Len(p)
  OBVIOUS
<1> HIDE DEF p
<1>2. ShownIn(p) \subseteq ShownIn(q) \cup {t.id}
  <2>1. ASSUME NEW i \in 1 .. Len(p) PROVE p[i].id \in ShownIn(q) \cup {t.id}
    <3>1. CASE i = Len(q) + 1  BY <1>1, <3>1
    <3>2. CASE i # Len(q) + 1
      <4>1. i \in 1 .. Len(q)  BY <1>1, <3>2
      <4>2. QED  BY <1>1, <4>1 DEF ShownIn
    <3>3. QED  BY <3>1, <3>2
  <2>2. QED  BY <1>1, <2>1 DEF ShownIn
<1>3. t.id \in ShownIn(p)
  <2>1. Len(q) + 1 \in DOMAIN p  BY <1>1
  <2>2. QED  BY <1>1, <2>1 DEF ShownIn
<1>4. ShownIn(q) \subseteq ShownIn(p)
  <2>1. ASSUME NEW i \in 1 .. Len(q) PROVE q[i].id \in ShownIn(p)
    <3>1. i \in DOMAIN p /\ p[i] = q[i]  BY <1>1
    <3>2. QED  BY <3>1 DEF ShownIn
  <2>2. QED  BY <1>1, <2>1 DEF ShownIn
<1>5. QED  BY <1>1, <1>2, <1>3, <1>4 DEF p

\* The filter of a close, tab by tab
Filtering(f, q, x, n) ==
    /\ f \in [0 .. n -> Seq(Tab)] /\ f[0] = <<>>
    /\ \A k \in 1 .. n : f[k] = IF q[k].id = x THEN f[k - 1] ELSE Append(f[k - 1], q[k])

LEMMA FilteringExists ==
    ASSUME NEW q \in Seq(Tab), NEW x
    PROVE  \E f : Filtering(f, q, x, Len(q))
<1> DEFINE S == {n \in Nat : \E f : Filtering(f, q, x, n)}
<1>0. Len(q) \in Nat /\ \A i \in 1 .. Len(q) : q[i] \in Tab  OBVIOUS
<1>1. 0 \in S
  <2> DEFINE f == [k \in 0 .. 0 |-> <<>>]
  <2>0. <<>> \in Seq(Tab)  OBVIOUS
  <2>1. f \in [0 .. 0 -> Seq(Tab)] /\ f[0] = <<>>  BY <2>0
  <2> HIDE DEF f
  <2>2. Filtering(f, q, x, 0)  BY <2>1 DEF Filtering
  <2>3. QED  BY <2>2
<1>2. ASSUME NEW k \in 1 .. Len(q), k - 1 \in S PROVE k \in S
  <2>1. PICK f : Filtering(f, q, x, k - 1)  BY <1>2
  <2>2. /\ f \in [0 .. k - 1 -> Seq(Tab)] /\ f[0] = <<>> /\ k \in Nat /\ q[k] \in Tab
        /\ k - 1 \in 0 .. k - 1 /\ f[k - 1] \in Seq(Tab)
    BY <1>0, <2>1 DEF Filtering
  <2> DEFINE last == IF q[k].id = x THEN f[k - 1] ELSE Append(f[k - 1], q[k])
             g == [i \in 0 .. k |-> IF i < k THEN f[i] ELSE last]
  <2>3. last \in Seq(Tab)  BY <2>2, AppendedIsShown
  <2> HIDE DEF last
  <2>4. /\ g \in [0 .. k -> Seq(Tab)] /\ g[k] = last
        /\ \A i \in 0 .. k - 1 : g[i] = f[i]
    <3>1. ASSUME NEW i \in 0 .. k PROVE (IF i < k THEN f[i] ELSE last) \in Seq(Tab)
      BY <2>2, <2>3
    <3>2. QED  BY <2>2, <3>1
  <2> HIDE DEF g
  <2>5. ASSUME NEW i \in 1 .. k
        PROVE  g[i] = IF q[i].id = x THEN g[i - 1] ELSE Append(g[i - 1], q[i])
    <3>1. CASE i = k
      <4>1. g[k - 1] = f[k - 1]  BY <2>2, <2>4
      <4>2. QED  BY <2>4, <3>1, <4>1 DEF last
    <3>2. CASE i # k
      <4>1. i \in 1 .. k - 1 /\ i \in 0 .. k - 1 /\ i - 1 \in 0 .. k - 1  BY <2>2, <3>2
      <4>2. f[i] = IF q[i].id = x THEN f[i - 1] ELSE Append(f[i - 1], q[i])
        BY <2>1, <4>1 DEF Filtering
      <4>3. g[i] = f[i] /\ g[i - 1] = f[i - 1]  BY <2>4, <4>1
      <4>4. QED  BY <4>2, <4>3
    <3>3. QED  BY <3>1, <3>2
  <2>6. g[0] = <<>>
    <3>1. 0 \in 0 .. k - 1  BY <2>2
    <3>2. QED  BY <2>2, <2>4, <3>1
  <2>7. Filtering(g, q, x, k)  BY <2>4, <2>5, <2>6 DEF Filtering
  <2>8. QED  BY <2>2, <2>7
<1>3. Len(q) \in S
  <2>1. Len(q) \in 0 .. Len(q)  BY <1>0
  <2> HIDE DEF S
  <2>2. QED  BY <1>0, <1>1, <1>2, <2>1, UpTo
<1>4. QED  BY <1>3

\* Without is what the filter ends with.
LEMMA WithoutIsFiltered ==
    ASSUME NEW q \in Seq(Tab), NEW x
    PROVE  \E f : Filtering(f, q, x, Len(q)) /\ Without(q, x) = f[Len(q)]
<1> DEFINE Body(f, n) == IF n = 0 THEN <<>>
                         ELSE IF q[n].id = x THEN f[n - 1] ELSE Append(f[n - 1], q[n])
           Run(f) == f = [n \in 0 .. Len(q) |->
                             IF n = 0 THEN <<>>
                             ELSE IF q[n].id = x THEN f[n - 1] ELSE Append(f[n - 1], q[n])]
           f == CHOOSE f : Run(f)
<1>0. Len(q) \in Nat /\ \A i \in 1 .. Len(q) : q[i] \in Tab  OBVIOUS
<1>1. PICK h : Filtering(h, q, x, Len(q))  BY FilteringExists
<1>2. /\ h \in [0 .. Len(q) -> Seq(Tab)] /\ h[0] = <<>>
      /\ \A k \in 1 .. Len(q) : h[k] = IF q[k].id = x THEN h[k - 1] ELSE Append(h[k - 1], q[k])
  BY <1>1 DEF Filtering
<1>3. \A n \in 0 .. Len(q) : h[n] = IF n = 0 THEN <<>>
                         ELSE IF q[n].id = x THEN h[n - 1] ELSE Append(h[n - 1], q[n])
  <2> SUFFICES ASSUME NEW n \in 0 .. Len(q)
               PROVE  h[n] = IF n = 0 THEN <<>>
                             ELSE IF q[n].id = x THEN h[n - 1] ELSE Append(h[n - 1], q[n])
    OBVIOUS
  <2>1. CASE n = 0  BY <1>2, <2>1
  <2>2. CASE n # 0
    <3>1. n \in 1 .. Len(q)  BY <1>0, <2>2
    <3>2. h[n] = IF q[n].id = x THEN h[n - 1] ELSE Append(h[n - 1], q[n])  BY <1>2, <3>1
    <3>3. QED  BY <2>2, <3>2
  <2>3. QED  BY <2>1, <2>2
<1>4. Run(h)  BY <1>2, <1>3
<1>5. Run(f)  BY <1>4
<1>6. Without(q, x) = f[Len(q)]  BY DEF Without
<1> HIDE DEF f
<1>7. \A n \in 0 .. Len(q) : f[n] = Body(f, n)
  <2> DEFINE e == [n \in 0 .. Len(q) |-> Body(f, n)]
  <2>1. f = e  BY <1>5
  <2> HIDE DEF Body
  <2>2. \A n \in 0 .. Len(q) : e[n] = Body(f, n)  OBVIOUS
  <2> HIDE DEF e
  <2>3. QED  BY <2>1, <2>2
<1> DEFINE S == {n \in 0 .. Len(q) : f[n] = h[n]}
<1>8. 0 \in S
  <2>1. 0 \in 0 .. Len(q)  BY <1>0
  <2>2. QED  BY <1>2, <1>7, <2>1
<1>9. ASSUME NEW k \in 1 .. Len(q), k - 1 \in S PROVE k \in S
  <2>1. k \in 0 .. Len(q) /\ k # 0 /\ f[k - 1] = h[k - 1]  BY <1>0, <1>9
  <2>2. f[k] = IF q[k].id = x THEN f[k - 1] ELSE Append(f[k - 1], q[k])  BY <1>7, <2>1
  <2>3. QED  BY <1>2, <2>1, <2>2
<1>10. Len(q) \in S
  <2>1. Len(q) \in 0 .. Len(q)  BY <1>0
  <2> HIDE DEF S
  <2>2. QED  BY <1>0, <1>8, <1>9, <2>1, UpTo
<1>11. Without(q, x) = h[Len(q)]  BY <1>6, <1>10
<1>12. QED  BY <1>1, <1>11

\* A close takes exactly the tab it is of.
LEMMA WithoutFacts ==
    ASSUME NEW q \in Seq(Tab), NEW x
    PROVE  Without(q, x) \in Seq(Tab) /\ ShownIn(Without(q, x)) = ShownIn(q) \ {x}
<1>1. PICK f : Filtering(f, q, x, Len(q)) /\ Without(q, x) = f[Len(q)]  BY WithoutIsFiltered
<1>2. /\ f \in [0 .. Len(q) -> Seq(Tab)] /\ f[0] = <<>>
      /\ \A k \in 1 .. Len(q) : f[k] = IF q[k].id = x THEN f[k - 1] ELSE Append(f[k - 1], q[k])
  BY <1>1 DEF Filtering
<1>3. Len(q) \in Nat /\ DOMAIN q = 1 .. Len(q) /\ \A i \in 1 .. Len(q) : q[i] \in Tab  OBVIOUS
<1> DEFINE Upto(k) == {q[i].id : i \in 1 .. k}
           S == {k \in 0 .. Len(q) : ShownIn(f[k]) = Upto(k) \ {x}}
<1>4. 0 \in S
  <2>1. ShownIn(<<>>) = {} /\ Upto(0) = {}  BY DEF ShownIn
  <2>2. QED  BY <1>2, <1>3, <2>1
<1>5. ASSUME NEW k \in 1 .. Len(q), k - 1 \in S PROVE k \in S
  <2>1. /\ k \in 0 .. Len(q) /\ k - 1 \in 0 .. Len(q) /\ q[k] \in Tab /\ f[k - 1] \in Seq(Tab)
        /\ ShownIn(f[k - 1]) = Upto(k - 1) \ {x}
    <3>1. k \in 0 .. Len(q) /\ k - 1 \in 0 .. Len(q) /\ q[k] \in Tab  BY <1>3
    <3>2. f[k - 1] \in Seq(Tab)  BY <1>2, <3>1
    <3>3. ShownIn(f[k - 1]) = Upto(k - 1) \ {x}
      <4> HIDE DEF Upto
      <4>1. QED  BY <1>5
    <3>4. QED  BY <3>1, <3>2, <3>3
  <2>2. Upto(k) = Upto(k - 1) \cup {q[k].id}
    <3>1. \A i \in 1 .. k : i = k \/ i \in 1 .. k - 1  BY <1>3
    <3>2. k \in 1 .. k /\ \A i \in 1 .. k - 1 : i \in 1 .. k  BY <1>3
    <3>3. QED  BY <3>1, <3>2
  <2>3. f[k] = IF q[k].id = x THEN f[k - 1] ELSE Append(f[k - 1], q[k])  BY <1>2
  <2> HIDE DEF Upto
  <2>4. CASE q[k].id = x  BY <2>1, <2>2, <2>3, <2>4
  <2>5. CASE q[k].id # x
    <3>1. ShownIn(f[k]) = ShownIn(f[k - 1]) \cup {q[k].id}  BY <2>1, <2>3, <2>5, AppendedIsShown
    <3>2. QED  BY <2>1, <2>2, <2>5, <3>1
  <2>6. QED  BY <2>4, <2>5
<1>6. Len(q) \in S
  <2>1. Len(q) \in 0 .. Len(q)  BY <1>3
  <2> HIDE DEF S
  <2>2. QED  BY <1>3, <1>4, <1>5, <2>1, UpTo
<1>7. Upto(Len(q)) = ShownIn(q)  BY <1>3 DEF ShownIn
<1>8. f[Len(q)] \in Seq(Tab)
  <2>1. Len(q) \in 0 .. Len(q)  BY <1>3
  <2>2. QED  BY <1>2, <2>1
<1>9. QED  BY <1>1, <1>6, <1>7, <1>8

\* A list with a selection that is shown, of tabs whose identifiers are in use
ListFits(u, unused) == u \in Ui /\ Selected(u) /\ Unseen(u, unused)

\* Its fields
LEMMA UiFields ==
    ASSUME NEW u \in Ui
    PROVE  /\ u.tabs \in Seq(Tab) /\ u.revision \in Nat /\ u.selected \in Ids \cup {NoTab}
           /\ u.visited \subseteq Ids
BY DEF Ui

\* A selection that is shown, or null, is one the list may have.
LEMMA SelectionHasType ==
    ASSUME NEW q \in Seq(Tab), NEW s, IF q = <<>> THEN s = NoTab ELSE s \in ShownIn(q)
    PROVE  s \in Ids \cup {NoTab}
BY ListFacts

\* An answer leaves a list that fits when its fields do.
LEMMA FieldsFit ==
    ASSUME NEW unused, NEW u \in Ui, NEW q, NEW s, NEW v,
           u.tabs = q, u.selected = s, u.visited = v,
           IF q = <<>> THEN s = NoTab ELSE s \in ShownIn(q),
           ShownIn(q) \cap unused = {}, v \cap unused = {}
    PROVE  ListFits(u, unused)
BY DEF ListFits, Selected, Unseen

\* The answers to a list, a poll and a reorder
LEMMA ApplyCollectionFits ==
    ASSUME NEW unused, NEW u, ListFits(u, unused), NEW d \in Document, IdsOf(d) \cap unused = {}
    PROVE  ListFits(ApplyCollection(u, d), unused)
<1> DEFINE s == Reselect(d.tabs, u.selected)
<1>1. /\ u \in Ui /\ u.visited \subseteq Ids /\ u.visited \cap unused = {}
  BY UiFields DEF ListFits, Unseen
<1>2. d.tabs \in Seq(Tab) /\ d.revision \in Nat  BY DEF Document
<1>3. ShownIn(d.tabs) \cap unused = {}  BY DEF ShownIn, IdsOf
<1>4. IF d.tabs = <<>> THEN s = NoTab ELSE s \in ShownIn(d.tabs)  BY <1>2, ListFacts DEF Reselect
<1> HIDE DEF s
<1>5. s \in Ids \cup {NoTab}  BY <1>2, <1>4, SelectionHasType
<1> DEFINE new == ApplyCollection(u, d)
<1>6. new \in Ui /\ new.tabs = d.tabs /\ new.selected = s /\ new.visited = u.visited
  BY <1>1, <1>2, <1>5 DEF ApplyCollection, s, Ui
<1> HIDE DEF new
<1>7. ListFits(new, unused)  BY <1>1, <1>3, <1>4, <1>6, FieldsFit
<1>8. QED  BY <1>7 DEF new

LEMMA CreateAnsweredFits ==
    ASSUME NEW unused, NEW u, ListFits(u, unused), NEW t \in Tab, t.id \notin unused
    PROVE  ListFits(CreateAnswered(u, t), unused)
<1> DEFINE q == Append(u.tabs, t)
<1>1. /\ u \in Ui /\ u.tabs \in Seq(Tab) /\ u.visited \subseteq Ids /\ u.revision + 1 \in Nat
      /\ u.visited \cap unused = {} /\ ShownIn(u.tabs) \cap unused = {}
  BY UiFields DEF ListFits, Unseen
<1>2. q \in Seq(Tab) /\ ShownIn(q) = ShownIn(u.tabs) \cup {t.id}  BY <1>1, AppendedIsShown
<1> DEFINE new == CreateAnswered(u, t)
<1>3. new \in Ui /\ new.tabs = q /\ new.selected = t.id /\ new.visited = u.visited
  <2>1. t.id \in Ids  BY DEF Tab
  <2>2. QED  BY <1>1, <1>2, <2>1 DEF CreateAnswered, Ui
<1> HIDE DEF q, new
<1>4. q # <<>>  BY <1>2, ListFacts
<1>5. ListFits(new, unused)  BY <1>1, <1>2, <1>3, <1>4, FieldsFit
<1>6. QED  BY <1>5 DEF new

\* A tab that is replaced by its new view keeps its place and its identifier.
LEMMA SubstitutedIsShown ==
    ASSUME NEW q \in Seq(Tab), NEW t \in Tab
    PROVE  Substituted(q, t) \in Seq(Tab) /\ ShownIn(Substituted(q, t)) = ShownIn(q)
<1> DEFINE p == Substituted(q, t)
<1>1. Len(q) \in Nat /\ DOMAIN q = 1 .. Len(q) /\ \A i \in 1 .. Len(q) : q[i] \in Tab  OBVIOUS
<1>2. p \in [1 .. Len(q) -> Tab] /\ \A i \in 1 .. Len(q) : p[i].id = q[i].id
  BY <1>1 DEF Substituted
<1> HIDE DEF p
<1>3. p \in Seq(Tab) /\ DOMAIN p = DOMAIN q  BY <1>1, <1>2, FunctionIsSeq
<1>4. ShownIn(p) = ShownIn(q)  BY <1>1, <1>2, <1>3 DEF ShownIn
<1>5. QED  BY <1>3, <1>4 DEF p

\* The answers to a rename, and to what changes the state of a tab
LEMMA SubstitutionFits ==
    ASSUME NEW unused, NEW u, ListFits(u, unused), NEW t \in Tab
    PROVE  ListFits(RenameAnswered(u, t), unused) /\ ListFits(LifecycleAnswered(u, t), unused)
<1> DEFINE q == Substituted(u.tabs, t)
<1>1. /\ u \in Ui /\ u.tabs \in Seq(Tab) /\ u.visited \subseteq Ids
      /\ u.revision \in Nat /\ u.revision + 1 \in Nat
      /\ u.visited \cap unused = {} /\ ShownIn(u.tabs) \cap unused = {} /\ Selected(u)
  BY UiFields DEF ListFits, Unseen
<1>2. q \in Seq(Tab) /\ ShownIn(q) = ShownIn(u.tabs)  BY <1>1, SubstitutedIsShown
<1> DEFINE new == RenameAnswered(u, t)
           old == LifecycleAnswered(u, t)
<1>3. new \in Ui /\ new.tabs = q /\ new.selected = u.selected /\ new.visited = u.visited
  BY <1>1, <1>2 DEF RenameAnswered, Ui
<1>4. old \in Ui /\ old.tabs = q /\ old.selected = u.selected /\ old.visited = u.visited
  BY <1>1, <1>2 DEF LifecycleAnswered, Ui
<1> HIDE DEF q, new, old
<1>5. q = <<>> <=> u.tabs = <<>>  BY <1>1, <1>2, ListFacts
<1>6. IF q = <<>> THEN u.selected = NoTab ELSE u.selected \in ShownIn(q)
  BY <1>1, <1>2, <1>5 DEF Selected
<1>7. ListFits(new, unused)  BY <1>1, <1>2, <1>3, <1>6, FieldsFit
<1>8. ListFits(old, unused)  BY <1>1, <1>2, <1>4, <1>6, FieldsFit
<1>9. QED  BY <1>7, <1>8 DEF new, old

\* The neighbour of a tab that is closed is one of those that stay.
LEMMA NeighborIsShown ==
    ASSUME NEW q, NEW rest \in Seq(Tab), rest # <<>>, NEW at \in Nat
    PROVE  Neighbor(q, rest, at) \in ShownIn(rest)
<1> DEFINE before == IF at > 2 THEN at - 1 ELSE 1
           index == IF before > Len(rest) THEN Len(rest) ELSE before
<1>1. Len(rest) \in Nat /\ 1 \in 1 .. Len(rest)  BY ListFacts
<1>2. index \in 1 .. Len(rest)  BY <1>1
<1>3. Neighbor(q, rest, at) = rest[index].id  BY DEF Neighbor
<1> HIDE DEF index
<1>4. QED  BY <1>2, <1>3, ListFacts

\* A tab that is shown is found.
LEMMA FirstAtIsNatural ==
    ASSUME NEW q \in Seq(Tab), NEW id
    PROVE  FirstAt(q, id) \in Nat
<1>1. CASE id \notin ShownIn(q)  BY <1>1 DEF FirstAt
<1>2. CASE id \in ShownIn(q)
  <2> DEFINE T == {n \in DOMAIN q : q[n].id = id}
  <2>1. T \in SUBSET Nat /\ T # {}  BY <1>2, ListFacts DEF ShownIn
  <2>2. \E x \in T : \A y \in T : x <= y
    <3> HIDE DEF T
    <3>1. QED  BY <2>1, LeastNatural
  <2>3. \E n \in DOMAIN q : q[n].id = id /\ \A m \in DOMAIN q : q[m].id = id => n <= m  BY <2>2
  <2>4. FirstAt(q, id) \in DOMAIN q  BY <1>2, <2>3 DEF FirstAt
  <2>5. QED  BY <2>4, ListFacts
<1>3. QED  BY <1>1, <1>2

\* The tabs that stay are numbered again.
LEMMA NumberedIsShown ==
    ASSUME NEW q \in Seq(Tab)
    PROVE  Numbered(q) \in Seq(Tab) /\ ShownIn(Numbered(q)) = ShownIn(q)
<1> DEFINE p == Numbered(q)
<1>1. Len(q) \in Nat /\ DOMAIN q = 1 .. Len(q) /\ \A i \in 1 .. Len(q) : q[i] \in Tab  OBVIOUS
<1>2. \A t \in Tab : \A n \in Nat :
          [t EXCEPT !.position = n] \in Tab /\ [t EXCEPT !.position = n].id = t.id
  BY DEF Tab
<1>3. ASSUME NEW i \in 1 .. Len(q)
      PROVE  [q[i] EXCEPT !.position = i - 1] \in Tab /\ [q[i] EXCEPT !.position = i - 1].id = q[i].id
  <2>1. i - 1 \in Nat /\ q[i] \in Tab  BY <1>1
  <2>2. QED  BY <1>2, <2>1
<1>4. p = [i \in 1 .. Len(q) |-> [q[i] EXCEPT !.position = i - 1]]  BY <1>1 DEF Numbered
<1>5. p \in [1 .. Len(q) -> Tab] /\ \A i \in 1 .. Len(q) : p[i].id = q[i].id  BY <1>3, <1>4
<1> HIDE DEF p
<1>6. p \in Seq(Tab) /\ DOMAIN p = DOMAIN q  BY <1>1, <1>5, FunctionIsSeq
<1>7. ShownIn(p) = ShownIn(q)  BY <1>1, <1>5, <1>6 DEF ShownIn
<1>8. QED  BY <1>6, <1>7 DEF p

LEMMA CloseAnsweredFits ==
    ASSUME TabsAssumption, NEW unused, NEW u, ListFits(u, unused), NEW id \in Ids
    PROVE  ListFits(CloseAnswered(u, id), unused)
<1> DEFINE rest == Without(u.tabs, id)
           q == Numbered(rest)
           s == IF u.selected = id THEN Neighbor(u.tabs, rest, FirstAt(u.tabs, id)) ELSE u.selected
           v == u.visited \ {id}
<1>1. /\ u \in Ui /\ u.tabs \in Seq(Tab) /\ u.visited \subseteq Ids
      /\ u.revision \in Nat /\ u.revision + 1 \in Nat
      /\ u.visited \cap unused = {} /\ ShownIn(u.tabs) \cap unused = {} /\ Selected(u)
  BY UiFields DEF ListFits, Unseen
<1>2. rest \in Seq(Tab) /\ ShownIn(rest) = ShownIn(u.tabs) \ {id}  BY <1>1, WithoutFacts
<1> HIDE DEF rest
<1>3. q \in Seq(Tab) /\ ShownIn(q) = ShownIn(rest)  BY <1>2, NumberedIsShown
<1> HIDE DEF q
<1>4. q = <<>> <=> rest = <<>>  BY <1>2, <1>3, ListFacts
<1>5. IF q = <<>> THEN s = NoTab ELSE s \in ShownIn(q)
  <2>1. CASE u.selected = id
    <3>1. FirstAt(u.tabs, id) \in Nat  BY <1>1, FirstAtIsNatural
    <3>2. CASE rest = <<>>  BY <2>1, <3>2, <1>4 DEF Neighbor
    <3>3. CASE rest # <<>>  BY <1>2, <1>3, <1>4, <2>1, <3>1, <3>3, NeighborIsShown
    <3>4. QED  BY <3>2, <3>3
  <2>2. CASE u.selected # id
    <3>1. CASE u.tabs = <<>>
      <4>1. ShownIn(u.tabs) = {}  BY <1>1, <3>1, ListFacts
      <4>2. ShownIn(q) = {}  BY <1>2, <1>3, <4>1
      <4>3. q = <<>>  BY <1>3, <4>2, ListFacts
      <4>4. QED  BY <1>1, <2>2, <3>1, <4>3 DEF Selected
    <3>2. CASE u.tabs # <<>>
      <4>1. u.selected \in ShownIn(q)  BY <1>1, <1>2, <1>3, <2>2, <3>2 DEF Selected
      <4>2. q # <<>>  BY <1>3, <4>1, ListFacts
      <4>3. QED  BY <2>2, <4>1, <4>2
    <3>3. QED  BY <3>1, <3>2
  <2>3. QED  BY <2>1, <2>2
<1>6. v \in SUBSET Ids /\ v \cap unused = {} /\ ShownIn(q) \cap unused = {}  BY <1>1, <1>2, <1>3
<1>7. s \in Ids \cup {NoTab}
  <2> HIDE DEF s
  <2>1. QED  BY <1>3, <1>5, SelectionHasType
<1> DEFINE new == CloseAnswered(u, id)
<1>8. new \in Ui /\ new.tabs = q /\ new.selected = s /\ new.visited = v
  <2>1. new = [u EXCEPT !.tabs = q, !.revision = u.revision + 1, !.visited = v, !.selected = s]
    BY DEF CloseAnswered, rest, q
  <2> HIDE DEF new, s, v
  <2>2. QED  BY <1>1, <1>3, <1>6, <1>7, <2>1 DEF Ui
<1> HIDE DEF s, v, new
<1>9. ListFits(new, unused)  BY <1>5, <1>6, <1>8, FieldsFit
<1>10. QED  BY <1>9 DEF new

\* The effect that follows: the selected tab was visited.
LEMMA VisitFits ==
    ASSUME NEW unused, NEW u, ListFits(u, unused)
    PROVE  ListFits(Visit(u), unused)
<1>1. /\ u \in Ui /\ u.tabs \in Seq(Tab) /\ u.visited \subseteq Ids /\ u.revision \in Nat
      /\ u.visited \cap unused = {} /\ ShownIn(u.tabs) \cap unused = {} /\ Selected(u)
  BY UiFields DEF ListFits, Unseen
<1>2. CASE u.selected \in ShownIn(u.tabs)
  <2> DEFINE v == u.visited \cup {u.selected}
  <2>1. ShownIn(u.tabs) \subseteq Ids /\ u.tabs # <<>>  BY <1>1, <1>2, ListFacts
  <2>2. v \in SUBSET Ids /\ v \cap unused = {}  BY <1>1, <1>2, <2>1
  <2> DEFINE new == [u EXCEPT !.visited = u.visited \cup {u.selected}]
  <2>3. new \in Ui /\ new.tabs = u.tabs /\ new.selected = u.selected /\ new.visited = v
    BY <1>1, <2>2 DEF Ui
  <2> HIDE DEF v, new
  <2>4. ListFits(new, unused)  BY <1>1, <1>2, <2>1, <2>2, <2>3, FieldsFit
  <2>5. QED  BY <2>4 DEF Visit, new
<1>3. CASE u.selected \notin ShownIn(u.tabs)  BY <1>3 DEF Visit, ShownIn
<1>4. QED  BY <1>2, <1>3

\* What requests carry
LEMMA TabOpFields ==
    ASSUME NEW o \in TabOp
    PROVE  /\ o.op \in {"create", "rename", "setDesiredState", "remove", "health", "reorder"}
           /\ o.op = "create" => o.name \in Names
           /\ o.op = "rename" => o.id \in Ids /\ o.name \in Names
           /\ o.op = "setDesiredState" => o.id \in Ids /\ o.desired \in {"active", "stopped"}
           /\ o.op \in {"remove", "health"} => o.id \in Ids
           /\ o.op = "reorder" => o.ids \in Seq(Ids)
           /\ o.op \in {"rename", "setDesiredState", "remove", "reorder"} => o \in Operation
<1> USE DEF Operation
<1>1. CASE o \in [op : {"create"}, name : Names]  BY <1>1
<1>2. CASE o \in [op : {"create", "rename"}, id : Ids, name : Names]
  <2>1. CASE o.op = "rename"
    <3>1. o \in [op : {"rename"}, id : Ids, name : Names]  BY <1>2, <2>1
    <3>2. QED  BY <2>1, <3>1
  <2>2. CASE o.op = "create"  BY <1>2, <2>2
  <2>3. QED  BY <1>2, <2>1, <2>2
<1>3. CASE o \in [op : {"setDesiredState"}, id : Ids, desired : {"active", "stopped"}]  BY <1>3
<1>4. CASE o \in [op : {"remove", "health"}, id : Ids]
  <2>1. CASE o.op = "remove"
    <3>1. o \in [op : {"remove"}, id : Ids]  BY <1>4, <2>1
    <3>2. QED  BY <2>1, <3>1
  <2>2. CASE o.op = "health"  BY <1>4, <2>2
  <2>3. QED  BY <1>4, <2>1, <2>2
<1>5. CASE o \in [op : {"reorder"}, ids : Seq(Ids)]  BY <1>5
<1>6. QED  BY <1>1, <1>2, <1>3, <1>4, <1>5 DEF TabOp

\* Whatever was answered, the list fits.
LEMMA AnswerFits ==
    ASSUME TabsAssumption, NEW unused, NEW u, ListFits(u, unused), NEW k \in TabCall,
           CallFits(k, unused), k.st = "answered"
    PROVE  ListFits(Visit(TabsAnswered(u, k)), unused)
<1>0. /\ k.kind \in {"none", "list", "poll", "create", "rename", "setDesiredState", "remove",
                     "reorder", "health"}
      /\ k.kind # "none"
  BY DEF TabCall, CallFits
<1>1. CASE k.kind \in {"list", "poll", "reorder"}
  <2>1. k.answer \in Document /\ IdsOf(k.answer) \cap unused = {}  BY <1>1 DEF CallFits
  <2>2. TabsAnswered(u, k) = ApplyCollection(u, k.answer)  BY <1>1 DEF TabsAnswered
  <2>3. QED  BY <2>1, <2>2, ApplyCollectionFits, VisitFits
<1>2. CASE k.kind = "create"
  <2>1. k.answer \in Tab /\ k.answer.id \notin unused  BY <1>2 DEF CallFits
  <2>2. TabsAnswered(u, k) = CreateAnswered(u, k.answer)  BY <1>2 DEF TabsAnswered
  <2>3. QED  BY <2>1, <2>2, CreateAnsweredFits, VisitFits
<1>3. CASE k.kind = "rename"
  <2>1. k.answer \in Tab  BY <1>3 DEF CallFits
  <2>2. TabsAnswered(u, k) = RenameAnswered(u, k.answer)  BY <1>3 DEF TabsAnswered
  <2>3. QED  BY <2>1, <2>2, SubstitutionFits, VisitFits
<1>4. CASE k.kind \in {"setDesiredState", "health"}
  <2>1. k.answer \in Tab  BY <1>4 DEF CallFits
  <2>2. TabsAnswered(u, k) = LifecycleAnswered(u, k.answer)  BY <1>4 DEF TabsAnswered
  <2>3. QED  BY <2>1, <2>2, SubstitutionFits, VisitFits
<1>5. CASE k.kind = "remove"
  <2>1. k.op \in TabOp /\ k.op.op = "remove"  BY <1>5 DEF CallFits
  <2>2. k.op.id \in Ids  BY <2>1, TabOpFields
  <2>3. TabsAnswered(u, k) = CloseAnswered(u, k.op.id)  BY <1>5 DEF TabsAnswered
  <2>4. QED  BY <2>2, <2>3, CloseAnsweredFits, VisitFits
<1>6. QED  BY <1>0, <1>1, <1>2, <1>3, <1>4, <1>5

-----------------------------------------------------------------------------
\* What a user who is shown these tabs may ask for is an operation.
LEMMA WishesAreOperations ==
    ASSUME NEW q \in Seq(Tab), NEW w \in Wishes(q)
    PROVE  w \in TabOp /\ w.op \in {"create", "rename", "setDesiredState", "remove", "reorder"}
<1>1. /\ Len(q) \in Nat /\ DOMAIN q = 1 .. Len(q) /\ ShownIn(q) \subseteq Ids
      /\ \A i \in 1 .. Len(q) : q[i].id \in Ids
  BY ListFacts
<1>2. CASE w \in [op : {"create"}, name : Names]  BY <1>2 DEF TabOp
<1>3. CASE w \in [op : {"rename"}, id : ShownIn(q), name : Names]
  <2>1. w \in [op : {"create", "rename"}, id : Ids, name : Names] /\ w.op = "rename"  BY <1>1, <1>3
  <2>2. QED  BY <2>1 DEF TabOp
<1>4. CASE w \in [op : {"setDesiredState"}, id : ShownIn(q), desired : {"active", "stopped"}]
  <2>1. /\ w \in [op : {"setDesiredState"}, id : Ids, desired : {"active", "stopped"}]
        /\ w.op = "setDesiredState"
    BY <1>1, <1>4
  <2>2. QED  BY <2>1 DEF TabOp
<1>5. CASE w \in [op : {"remove"}, id : ShownIn(q)]
  <2>1. w \in [op : {"remove", "health"}, id : Ids] /\ w.op = "remove"  BY <1>1, <1>5
  <2>2. QED  BY <2>1 DEF TabOp
<1> DEFINE s == IdSeq(q)
           swapped(i) == [s EXCEPT ![i] = s[i + 1], ![i + 1] = s[i]]
<1>6. CASE \E i \in 1 .. Len(s) - 1 : w = [op |-> "reorder", ids |-> swapped(i)]
  <2>1. s \in [1 .. Len(q) -> Ids]  BY <1>1 DEF IdSeq
  <2>2. Len(s) = Len(q)  BY <1>1, <2>1, FunctionIsSeq
  <2> HIDE DEF s
  <2>3. PICK i \in 1 .. Len(q) - 1 : w = [op |-> "reorder", ids |-> swapped(i)]  BY <1>6, <2>2
  <2>4. i \in 1 .. Len(q) /\ i + 1 \in 1 .. Len(q)  BY <1>1
  <2>5. swapped(i) \in [1 .. Len(q) -> Ids]  BY <2>1, <2>4
  <2> HIDE DEF swapped
  <2>6. swapped(i) \in Seq(Ids)  BY <1>1, <2>5, FunctionIsSeq
  <2>7. w \in [op : {"reorder"}, ids : Seq(Ids)] /\ w.op = "reorder"  BY <2>3, <2>6
  <2>8. QED  BY <2>7 DEF TabOp
<1>7. QED  BY <1>2, <1>3, <1>4, <1>5, <1>6 DEF Wishes

\* An operation as the store completes it
LEMMA CompletedFacts ==
    ASSUME budget.ids \subseteq Ids, NEW w \in TabOp, w.op # "health", NEW o \in Completed(w)
    PROVE  /\ o \in Operation /\ o \in TabOp /\ o.op = w.op
           /\ o.op \in {"create", "rename", "setDesiredState", "remove", "reorder"}
           /\ Used(o) \subseteq budget.ids
           /\ o.op = "create" => o \in Creation /\ o.id \in budget.ids /\ Used(o) = {o.id}
           /\ o.op # "create" => Used(o) = {}
<1>1. CASE w.op = "create"
  <2>1. PICK id \in budget.ids : o = [op |-> "create", id |-> id, name |-> w.name]
    BY <1>1 DEF Completed
  <2>2. w.name \in Names  BY <1>1, TabOpFields
  <2>3. o \in [op : {"create", "ensureInitialTab"}, id : Ids, name : Names]  BY <2>1, <2>2
  <2>4. o \in [op : {"create", "rename"}, id : Ids, name : Names]  BY <2>1, <2>2
  <2>5. o.op = "create" /\ o.id = id  BY <2>1
  <2>6. o \in Creation /\ o \in Operation /\ o \in TabOp  BY <2>3, <2>4 DEF Creation, Operation, TabOp
  <2>7. QED  BY <1>1, <2>5, <2>6 DEF Used
<1>2. CASE w.op # "create"
  <2>1. o = w  BY <1>2 DEF Completed
  <2>2. QED  BY <1>2, <2>1, TabOpFields DEF Used
<1>3. QED  BY <1>1, <1>2

\* What an operation that is not refused makes of the document
LEMMA ChangedFacts ==
    ASSUME NEW d, ValidDocument(d), NEW r, NEW o \in Operation, ~Refused(o, r, d),
           o.op \in {"create", "rename", "setDesiredState", "remove", "reorder"},
           o.op = "create" => o \in Creation /\ o.id \notin IdsOf(d) /\ Used(o) = {o.id},
           o.op # "create" => Used(o) = {}
    PROVE  ValidDocument(Changed(d, o)) /\ IdsOf(Changed(d, o)) \subseteq IdsOf(d) \cup Used(o)
<1> DEFINE e == Changed(d, o)
<1>1. ~Idle(o, d)  BY DEF Idle
<1>2. Mutation(o, r, d, e)
  <2>1. CASE o.op = "create"  BY <1>1, <2>1 DEF Mutation, Changed
  <2>2. CASE o.op = "rename"  BY <1>1, <2>2 DEF Mutation, Changed
  <2>3. CASE o.op = "setDesiredState"  BY <1>1, <2>3 DEF Mutation, Changed
  <2>4. CASE o.op = "remove"  BY <1>1, <2>4 DEF Mutation, Changed
  <2>5. CASE o.op = "reorder"  BY <1>1, <2>5 DEF Mutation, Changed
  <2>6. QED  BY <2>1, <2>2, <2>3, <2>4, <2>5
<1> HIDE DEF e
<1>3. o \in Creation <=> o.op = "create"  BY OperationFields
<1>4. /\ ValidDocument(e)
      /\ IdsOf(e) \subseteq IdsOf(d) \cup (IF o \in Creation THEN {o.id} ELSE {})
  BY <1>2, <1>3, MutationFacts
<1>5. IdsOf(e) \subseteq IdsOf(d) \cup Used(o)  BY <1>3, <1>4
<1>6. QED  BY <1>4, <1>5 DEF e

\* Requests keep fitting when identifiers come into use.
LEMMA FewerUnused ==
    ASSUME NEW k, NEW unused, NEW less \in SUBSET unused, CallFits(k, unused)
    PROVE  CallFits(k, less)
BY DEF CallFits

\* A request as it is sent
LEMMA SendFits ==
    ASSUME ui \in Ui, NEW kind, NEW op, NEW unused,
           \/ kind \in {"list", "poll"} /\ op = NoTab
           \/ op \in TabOp /\ op.op = kind
    PROVE  /\ Send(kind, op) \in TabCall /\ CallFits(Send(kind, op), unused)
           /\ Send(kind, op).kind = kind
<1> DEFINE k == Send(kind, op)
<1>1. /\ op \in TabOp \cup {NoTab}
      /\ kind \in {"list", "poll", "create", "rename", "setDesiredState", "remove", "reorder", "health"}
      /\ kind \notin {"none", "list", "poll"} => op \in TabOp /\ op.op = kind
  BY TabOpFields
<1>2. ui.revision \in Nat /\ IdSeq(ui.tabs) \in Seq(Ids) /\ <<>> \in Seq(Ids)
  <2>1. ui.tabs \in Seq(Tab) /\ ui.revision \in Nat  BY UiFields
  <2>2. /\ Len(ui.tabs) \in Nat /\ DOMAIN ui.tabs = 1 .. Len(ui.tabs)
        /\ \A i \in 1 .. Len(ui.tabs) : ui.tabs[i].id \in Ids
    BY <2>1, ListFacts
  <2>3. IdSeq(ui.tabs) \in [1 .. Len(ui.tabs) -> Ids]  BY <2>2 DEF IdSeq
  <2>4. IdSeq(ui.tabs) \in Seq(Ids)  BY <2>2, <2>3, FunctionIsSeq
  <2>5. <<>> \in Seq(Ids)  OBVIOUS
  <2>6. QED  BY <2>1, <2>4, <2>5
<1>3. \E r \in Nat, s \in Seq(Ids) :
          k = [kind |-> kind, op |-> op, revision |-> r, shown |-> s, st |-> "sent", answer |-> NoTab]
  <2>1. CASE kind = "reorder"
    <3>1. k = [kind |-> kind, op |-> op, revision |-> ui.revision, shown |-> IdSeq(ui.tabs),
               st |-> "sent", answer |-> NoTab]
      BY <2>1 DEF Send, Free
    <3> HIDE DEF k
    <3>2. QED  BY <1>2, <3>1
  <2>2. CASE kind # "reorder"
    <3>1. k = [kind |-> kind, op |-> op, revision |-> 0, shown |-> <<>>, st |-> "sent",
               answer |-> NoTab]
      BY <2>2 DEF Send, Free
    <3> HIDE DEF k
    <3>2. QED  BY <1>2, <3>1
  <2>3. QED  BY <2>1, <2>2
<1> HIDE DEF k
<1>4. PICK r \in Nat, s \in Seq(Ids) :
          k = [kind |-> kind, op |-> op, revision |-> r, shown |-> s, st |-> "sent", answer |-> NoTab]
  BY <1>3
<1>5. k \in TabCall  BY <1>1, <1>4 DEF TabCall
<1>6. k.kind = kind /\ k.st = "sent" /\ k.op = op  BY <1>4
<1>7. CallFits(k, unused)  BY <1>1, <1>6 DEF CallFits
<1>8. QED  BY <1>5, <1>6, <1>7 DEF k

\* A request that is not in flight
LEMMA FreeFits ==
    ASSUME NEW unused
    PROVE  Free \in TabCall /\ CallFits(Free, unused) /\ Free.kind = "none" /\ Free.st = "free"
<1>1. Free.kind = "none" /\ Free.st = "free"  BY DEF Free
<1>2. <<>> \in Seq(Ids)  OBVIOUS
<1>3. Free \in TabCall  BY <1>2 DEF Free, TabCall
<1>4. CallFits(Free, unused)  BY <1>1 DEF CallFits
<1>5. QED  BY <1>1, <1>3, <1>4

Polls == [timer : BOOLEAN, stray : Nat]
Budgets == [changes : 0 .. MaxTabChanges, hides : 0 .. MaxHides, ids : SUBSET Ids]

\* A step that replaces one request keeps the invariant when what it replaces fits.
LEMMA CallKeeps ==
    ASSUME TabsAreKept, NEW c \in TabRequests, NEW k \in TabCall, CallFits(k, budget'.ids),
           tabCall' = [tabCall EXCEPT ![c] = k],
           budget' \in Budgets, budget'.ids \subseteq budget.ids,
           ValidDocument(doc'), IdsOf(doc') \cap budget'.ids = {},
           ListFits(ui', budget'.ids), pageVisible' \in BOOLEAN, poll' \in Polls,
           \/ k.kind = "poll"
           \/ poll'.timer
           \/ tabCall[c].kind # "poll" /\ UNCHANGED <<poll, pageVisible>>
           \/ ~pageVisible'
    PROVE  TabsAreKept'
<1>1. /\ tabCall \in [TabRequests -> TabCall] /\ AnswersFit /\ ListIsPolled
      /\ poll \in Polls
  BY DEF TabsAreKept, TabsTypeOK, Polls
<1>2. /\ tabCall' \in [TabRequests -> TabCall] /\ tabCall'[c] = k
      /\ \A d \in TabRequests : d # c => tabCall'[d] = tabCall[d]
  BY <1>1
<1>3. TabsTypeOK'  BY <1>2 DEF TabsTypeOK, ListFits, Polls, Budgets
<1>4. AnswersFit'
  <2> SUFFICES ASSUME NEW d \in TabRequests PROVE CallFits(tabCall'[d], budget'.ids)
    BY DEF AnswersFit
  <2>1. CASE d = c  BY <1>2, <2>1
  <2>2. CASE d # c
    <3>1. CallFits(tabCall[d], budget.ids)  BY <1>1 DEF AnswersFit
    <3>2. CallFits(tabCall[d], budget'.ids)  BY <3>1, FewerUnused
    <3>3. QED  BY <1>2, <2>2, <3>2
  <2>3. QED  BY <2>1, <2>2
<1>5. UnusedIsUnseen' /\ SelectionIsShown'  BY DEF ListFits, UnusedIsUnseen, SelectionIsShown
<1>6. ListIsPolled'
  <2>1. CASE k.kind = "poll"  BY <1>2, <2>1 DEF ListIsPolled
  <2>2. CASE poll'.timer \/ ~pageVisible'  BY <2>2 DEF ListIsPolled
  <2>3. CASE tabCall[c].kind # "poll" /\ UNCHANGED <<poll, pageVisible>>
    <3>1. ASSUME NEW d \in TabRequests, tabCall[d].kind = "poll" PROVE tabCall'[d].kind = "poll"
      BY <1>2, <2>3, <3>1
    <3>2. QED  BY <1>1, <2>3, <3>1 DEF ListIsPolled
  <2>4. QED  BY <2>1, <2>2, <2>3
<1>7. QED  BY <1>3, <1>4, <1>5, <1>6 DEF TabsAreKept

\* What a state that fits is made of
LEMMA KeptFacts ==
    ASSUME TabsAreKept
    PROVE  /\ ValidDocument(doc) /\ ui \in Ui /\ tabCall \in [TabRequests -> TabCall]
           /\ pageVisible \in BOOLEAN /\ poll \in Polls /\ budget \in Budgets
           /\ poll.timer \in BOOLEAN /\ poll.stray \in Nat
           /\ budget.changes \in 0 .. MaxTabChanges /\ budget.hides \in 0 .. MaxHides
           /\ budget.ids \subseteq Ids
           /\ IdsOf(doc) \cap budget.ids = {} /\ ListFits(ui, budget.ids)
           /\ \A c \in TabRequests : tabCall[c] \in TabCall /\ CallFits(tabCall[c], budget.ids)
<1>1. /\ ValidDocument(doc) /\ ui \in Ui /\ tabCall \in [TabRequests -> TabCall]
      /\ pageVisible \in BOOLEAN /\ poll \in Polls /\ budget \in Budgets
  BY DEF TabsAreKept, TabsTypeOK, Polls, Budgets
<1>2. /\ poll.timer \in BOOLEAN /\ poll.stray \in Nat
      /\ budget.changes \in 0 .. MaxTabChanges /\ budget.hides \in 0 .. MaxHides
      /\ budget.ids \subseteq Ids
  BY <1>1 DEF Polls, Budgets
<1>3. IdsOf(doc) \cap budget.ids = {} /\ ListFits(ui, budget.ids)
  BY <1>1 DEF TabsAreKept, UnusedIsUnseen, SelectionIsShown, ListFits
<1>4. \A c \in TabRequests : tabCall[c] \in TabCall /\ CallFits(tabCall[c], budget.ids)
  BY <1>1 DEF TabsAreKept, AnswersFit
<1>5. QED  BY <1>1, <1>2, <1>3, <1>4

\* The timers, and the page that is shown again
LEMMA PollStepKeeps ==
    ASSUME TabsAreKept, NEW c \in TabRequests, TimerFires(c) \/ StrayFires(c) \/ ShowPage(c)
    PROVE  TabsAreKept'
<1> DEFINE k == Send("poll", NoTab)
<1>1. k \in TabCall /\ CallFits(k, budget.ids) /\ k.kind = "poll"  BY KeptFacts, SendFits
<1> HIDE DEF k
<1>2. /\ tabCall' = [tabCall EXCEPT ![c] = k] /\ UNCHANGED <<doc, ui, budget>>
      /\ pageVisible' \in BOOLEAN
  BY KeptFacts DEF TimerFires, StrayFires, ShowPage, k
<1>3. poll' \in Polls
  <2>1. CASE TimerFires(c) \/ ShowPage(c)  BY <2>1, KeptFacts DEF TimerFires, ShowPage, Polls
  <2>2. CASE StrayFires(c)
    <3>1. poll.stray - 1 \in Nat  BY <2>2, KeptFacts DEF StrayFires
    <3>2. QED  BY <2>2, <3>1, KeptFacts DEF StrayFires, Polls
  <2>3. QED  BY <2>1, <2>2
<1>4. QED  BY <1>1, <1>2, <1>3, KeptFacts, CallKeeps

\* The page is hidden.
LEMMA HidePageKeeps == ASSUME TabsAssumption, TabsAreKept, HidePage PROVE TabsAreKept'
<1>1. /\ pageVisible' = FALSE /\ UNCHANGED <<doc, ui, tabCall>>
      /\ poll' = [poll EXCEPT !.timer = FALSE]
      /\ budget' = [budget EXCEPT !.hides = @ - 1] /\ budget.hides > 0
  BY DEF HidePage
<1>2. poll' \in Polls  BY <1>1, KeptFacts DEF Polls
<1>3. budget' \in Budgets /\ budget'.ids = budget.ids
  <2>1. budget.hides - 1 \in 0 .. MaxHides  BY <1>1, KeptFacts DEF TabsAssumption
  <2>2. QED  BY <1>1, <2>1, KeptFacts DEF Budgets
<1>4. QED
  BY <1>1, <1>2, <1>3, KeptFacts
  DEF TabsAreKept, TabsTypeOK, UnusedIsUnseen, AnswersFit, SelectionIsShown, ListIsPolled,
      Polls, Budgets

\* The user selects a tab that is shown.
LEMMA SelectKeeps ==
    ASSUME TabsAreKept, NEW id \in Ids, Select(id) PROVE TabsAreKept'
<1> DEFINE u == [ui EXCEPT !.selected = id]
<1>1. id \in ShownIn(ui.tabs) /\ ui' = Visit(u) /\ UNCHANGED <<doc, tabCall, pageVisible, poll, budget>>
  BY DEF Select
<1>2. /\ ui.tabs \in Seq(Tab) /\ ui.revision \in Nat /\ ui.visited \subseteq Ids
      /\ ui.visited \cap budget.ids = {} /\ ShownIn(ui.tabs) \cap budget.ids = {}
  BY KeptFacts, UiFields DEF ListFits, Unseen
<1>3. u \in Ui /\ u.tabs = ui.tabs /\ u.selected = id /\ u.visited = ui.visited
  BY KeptFacts DEF Ui
<1> HIDE DEF u
<1>4. ui.tabs # <<>>  BY <1>1, <1>2, ListFacts
<1>5. ListFits(u, budget.ids)  BY <1>1, <1>2, <1>3, <1>4, FieldsFit
<1>6. ListFits(ui', budget'.ids)  BY <1>1, <1>5, VisitFits
<1>7. QED
  BY <1>1, <1>6, KeptFacts
  DEF TabsAreKept, TabsTypeOK, UnusedIsUnseen, AnswersFit, SelectionIsShown, ListIsPolled, ListFits

\* The user asks for something.
LEMMA AskingKeeps ==
    ASSUME TabsAssumption, TabsAreKept, NEW c \in TabRequests, Ask(c) \/ Health(c) \/ RefreshTabs(c)
    PROVE  TabsAreKept'
<1>1. /\ tabCall[c] = Free /\ budget.changes > 0 /\ budget' = [budget EXCEPT !.changes = @ - 1]
      /\ UNCHANGED <<doc, ui, pageVisible, poll>>
  BY DEF Ask, Health, RefreshTabs, Spend
<1>2. budget' \in Budgets /\ budget'.ids = budget.ids
  <2>1. budget.changes - 1 \in 0 .. MaxTabChanges  BY <1>1, KeptFacts DEF TabsAssumption
  <2>2. QED  BY <1>1, <2>1, KeptFacts DEF Budgets
<1>3. \E k \in TabCall : CallFits(k, budget.ids) /\ tabCall' = [tabCall EXCEPT ![c] = k]
  <2>0. ui \in Ui /\ ui.tabs \in Seq(Tab)  BY KeptFacts, UiFields
  <2>1. CASE Ask(c)
    <3>1. PICK w \in Wishes(ui.tabs) : tabCall' = [tabCall EXCEPT ![c] = Send(w.op, w)]
      BY <2>1 DEF Ask
    <3>2. w \in TabOp  BY <2>0, WishesAreOperations
    <3>3. Send(w.op, w) \in TabCall /\ CallFits(Send(w.op, w), budget.ids)  BY <2>0, <3>2, SendFits
    <3>4. QED  BY <3>1, <3>3
  <2>2. CASE Health(c)
    <3>1. PICK id \in ShownIn(ui.tabs) :
              tabCall' = [tabCall EXCEPT ![c] = Send("health", [op |-> "health", id |-> id])]
      BY <2>2 DEF Health
    <3> DEFINE w == [op |-> "health", id |-> id]
    <3>2. id \in Ids  BY <2>0, ListFacts
    <3>3. w \in [op : {"remove", "health"}, id : Ids] /\ w.op = "health"  BY <3>2
    <3> HIDE DEF w
    <3>4. w \in TabOp  BY <3>3 DEF TabOp
    <3>5. Send("health", w) \in TabCall /\ CallFits(Send("health", w), budget.ids)
      BY <2>0, <3>3, <3>4, SendFits
    <3>6. QED  BY <3>1, <3>5 DEF w
  <2>3. CASE RefreshTabs(c)
    <3>1. Send("list", NoTab) \in TabCall /\ CallFits(Send("list", NoTab), budget.ids)
      BY <2>0, SendFits
    <3>2. QED  BY <2>3, <3>1 DEF RefreshTabs
  <2>4. QED  BY <2>1, <2>2, <2>3
<1>4. PICK k \in TabCall : CallFits(k, budget.ids) /\ tabCall' = [tabCall EXCEPT ![c] = k]
  BY <1>3
<1>5. tabCall[c].kind # "poll"  BY <1>1, FreeFits
<1>6. QED  BY <1>1, <1>2, <1>4, <1>5, KeptFacts, CallKeeps

\* A change of the document, by this browser or another one
LEMMA ChangeFacts ==
    ASSUME TabsAreKept, NEW w \in TabOp, w.op # "health", NEW o \in Completed(w), NEW r,
           ~Refused(o, r, doc), doc' = Changed(doc, o), budget'.ids = budget.ids \ Used(o)
    PROVE  /\ ValidDocument(doc') /\ IdsOf(doc') \cap budget'.ids = {}
           /\ budget'.ids \subseteq budget.ids /\ ListFits(ui, budget'.ids)
<1>1. /\ o \in Operation /\ o.op \in {"create", "rename", "setDesiredState", "remove", "reorder"}
      /\ o.op = "create" => o \in Creation /\ o.id \in budget.ids /\ Used(o) = {o.id}
      /\ o.op # "create" => Used(o) = {}
  BY KeptFacts, CompletedFacts
<1>2. o.op = "create" => o.id \notin IdsOf(doc)  BY <1>1, KeptFacts
<1>3. ValidDocument(doc') /\ IdsOf(doc') \subseteq IdsOf(doc) \cup Used(o)
  <2>1. ValidDocument(doc)  BY KeptFacts
  <2>2. QED  BY <1>1, <1>2, <2>1, ChangedFacts
<1>4. budget'.ids \subseteq budget.ids  OBVIOUS
<1>5. ListFits(ui, budget'.ids)  BY <1>4, KeptFacts DEF ListFits, Unseen
<1>6. IdsOf(doc') \cap budget'.ids = {}  BY <1>3, KeptFacts
<1>7. QED  BY <1>3, <1>4, <1>5, <1>6

\* Another browser changes the list.
LEMMA ElsewhereKeeps == ASSUME TabsAssumption, TabsAreKept, Elsewhere PROVE TabsAreKept'
<1>1. PICK w \in Wishes(doc.tabs) : \E o \in Completed(w) :
          /\ ~Refused(o, doc.revision, doc) /\ doc' = Changed(doc, o)
          /\ budget' = [budget EXCEPT !.changes = @ - 1, !.ids = @ \ Used(o)]
  BY DEF Elsewhere
<1>2. PICK o \in Completed(w) :
          /\ ~Refused(o, doc.revision, doc) /\ doc' = Changed(doc, o)
          /\ budget' = [budget EXCEPT !.changes = @ - 1, !.ids = @ \ Used(o)]
  BY <1>1
<1>3. budget.changes > 0 /\ UNCHANGED <<ui, tabCall, pageVisible, poll>>  BY DEF Elsewhere
<1>4. budget'.ids = budget.ids \ Used(o) /\ budget' \in Budgets
  <2>1. budget.changes - 1 \in 0 .. MaxTabChanges /\ budget.ids \ Used(o) \in SUBSET Ids
    BY <1>3, KeptFacts DEF TabsAssumption
  <2>2. QED  BY <1>2, <2>1, KeptFacts DEF Budgets
<1>5. w \in TabOp /\ w.op # "health"
  <2>1. doc.tabs \in Seq(Tab)  BY KeptFacts DEF ValidDocument, Document
  <2>2. QED  BY <2>1, WishesAreOperations
<1>6. /\ ValidDocument(doc') /\ IdsOf(doc') \cap budget'.ids = {}
      /\ budget'.ids \subseteq budget.ids /\ ListFits(ui, budget'.ids)
  BY <1>2, <1>4, <1>5, ChangeFacts
<1>7. \A c \in TabRequests : CallFits(tabCall[c], budget'.ids)  BY <1>6, KeptFacts, FewerUnused
<1>8. TabsTypeOK'  BY <1>3, <1>4, <1>6, KeptFacts DEF TabsTypeOK, Polls, Budgets
<1>9. AnswersFit' /\ UnusedIsUnseen' /\ SelectionIsShown' /\ ListIsPolled'
  BY <1>3, <1>6, <1>7
  DEF TabsAreKept, AnswersFit, UnusedIsUnseen, SelectionIsShown, ListIsPolled, ListFits
<1>10. QED  BY <1>8, <1>9 DEF TabsAreKept

\* The first half of a route
LEMMA ApplyKeeps ==
    ASSUME TabsAreKept, NEW c \in TabRequests, Apply(c) PROVE TabsAreKept'
<1> DEFINE k == tabCall[c]
<1>1. k \in TabCall /\ CallFits(k, budget.ids) /\ k.st = "sent"  BY KeptFacts DEF Apply
<1>2. k.kind \in {"create", "rename", "setDesiredState", "remove", "reorder"}
  BY <1>1 DEF Apply, Changes, TabCall, CallFits
<1>3. k.op \in TabOp /\ k.op.op = k.kind  BY <1>1, <1>2 DEF CallFits
<1>4. UNCHANGED <<ui, pageVisible, poll>>  BY DEF Apply
<1>5. PICK o \in Completed(k.op) :
          IF Refused(o, k.revision, doc)
          THEN /\ tabCall' = [tabCall EXCEPT ![c].st =
                                  IF o.op = "reorder" THEN "conflict" ELSE "refused"]
               /\ UNCHANGED <<doc, budget>>
          ELSE /\ doc' = Changed(doc, o)
               /\ budget' = [budget EXCEPT !.ids = @ \ Used(o)]
               /\ tabCall' = [tabCall EXCEPT ![c].op = o,
                                   ![c].st = IF o.op = "remove" THEN "answered" ELSE "viewing"]
  BY DEF Apply
<1>6. o \in TabOp /\ o.op = k.kind  BY <1>2, <1>3, KeptFacts, CompletedFacts
<1>7. tabCall \in [TabRequests -> TabCall]  BY KeptFacts
<1>8. CASE Refused(o, k.revision, doc)
  <2> DEFINE s == IF o.op = "reorder" THEN "conflict" ELSE "refused"
             new == [k EXCEPT !.st = s]
  <2>1. tabCall' = [tabCall EXCEPT ![c] = new] /\ UNCHANGED <<doc, budget>>  BY <1>5, <1>7, <1>8
  <2>2. new \in TabCall /\ new.kind = k.kind /\ new.op = k.op /\ new.st = s  BY <1>1 DEF TabCall
  <2>3. s \in {"conflict", "refused"} /\ (s = "conflict" => k.kind = "reorder")  BY <1>6
  <2> HIDE DEF s, new
  <2>4. CallFits(new, budget.ids)  BY <1>2, <1>3, <2>2, <2>3 DEF CallFits
  <2> HIDE DEF k
  <2>5. QED  BY <1>2, <1>4, <2>1, <2>2, <2>4, KeptFacts, CallKeeps DEF k
<1>9. CASE ~Refused(o, k.revision, doc)
  <2> DEFINE s == IF o.op = "remove" THEN "answered" ELSE "viewing"
             new == [k EXCEPT !.op = o, !.st = s]
  <2>1. /\ tabCall' = [tabCall EXCEPT ![c] = new] /\ doc' = Changed(doc, o)
        /\ budget' = [budget EXCEPT !.ids = @ \ Used(o)]
    BY <1>5, <1>7, <1>9
  <2>2. new \in TabCall /\ new.kind = k.kind /\ new.op = o /\ new.st = s  BY <1>1, <1>6 DEF TabCall
  <2>3. s \in {"answered", "viewing"} /\ (s = "answered" => k.kind = "remove")  BY <1>6
  <2> HIDE DEF s, new
  <2>4. budget' \in Budgets /\ budget'.ids = budget.ids \ Used(o)
    <3>1. budget.ids \ Used(o) \in SUBSET Ids  BY KeptFacts
    <3>2. QED  BY <2>1, <3>1, KeptFacts DEF Budgets
  <2>5. CallFits(new, budget'.ids)  BY <1>2, <1>6, <2>2, <2>3 DEF CallFits
  <2>6. k.op.op # "health"  BY <1>2, <1>3
  <2>7. /\ ValidDocument(doc') /\ IdsOf(doc') \cap budget'.ids = {}
        /\ budget'.ids \subseteq budget.ids /\ ListFits(ui, budget'.ids)
    BY <1>3, <1>9, <2>1, <2>4, <2>6, ChangeFacts
  <2>8. QED  BY <1>2, <1>4, <2>1, <2>2, <2>4, <2>5, <2>7, KeptFacts, CallKeeps
<1>10. QED  BY <1>8, <1>9

\* The second half
LEMMA ViewKeeps ==
    ASSUME TabsAreKept, NEW c \in TabRequests, View(c) PROVE TabsAreKept'
<1> DEFINE k == tabCall[c]
<1>1. /\ k \in TabCall /\ CallFits(k, budget.ids) /\ k.st \in {"sent", "viewing"}
      /\ UNCHANGED <<doc, ui, pageVisible, poll, budget>>
  BY KeptFacts DEF View
<1>2. tabCall \in [TabRequests -> TabCall] /\ doc \in Document /\ IdsOf(doc) \cap budget.ids = {}
  BY KeptFacts DEF ValidDocument
<1>3. k.kind # "none"  BY <1>1 DEF CallFits
<1>4. \E new \in TabCall : /\ tabCall' = [tabCall EXCEPT ![c] = new] /\ new.kind = k.kind
                           /\ CallFits(new, budget.ids)
  <2>1. CASE k.kind \in {"list", "poll", "reorder"}
    <3> DEFINE new == [k EXCEPT !.st = "answered", !.answer = doc]
    <3>1. tabCall' = [tabCall EXCEPT ![c] = new]  BY <1>2, <2>1 DEF View
    <3>2. /\ new \in TabCall /\ new.kind = k.kind /\ new.op = k.op /\ new.st = "answered"
          /\ new.answer = doc
      BY <1>1, <1>2 DEF TabCall
    <3> HIDE DEF new
    <3>3. CallFits(new, budget.ids)  BY <1>1, <1>2, <1>3, <2>1, <3>2 DEF CallFits
    <3>4. QED  BY <3>1, <3>2, <3>3
  <2>2. CASE k.kind \notin {"list", "poll", "reorder"} /\ k.op.id \in IdsOf(doc)
    <3> DEFINE t == doc.tabs[IndexOf(doc, k.op.id)]
               new == [k EXCEPT !.st = "answered", !.answer = t]
    <3>1. tabCall' = [tabCall EXCEPT ![c] = new]  BY <1>2, <2>2 DEF View
    <3>2. t \in Tab /\ t.id \in IdsOf(doc)
      <4>1. IndexOf(doc, k.op.id) \in DOMAIN doc.tabs /\ t.id = k.op.id  BY <2>2, IndexOfFinds
      <4>2. QED  BY <1>2, <2>2, <4>1, DocumentFields
    <3>3. t.id \notin budget.ids  BY <1>2, <3>2
    <3> HIDE DEF t
    <3>4. /\ new \in TabCall /\ new.kind = k.kind /\ new.op = k.op /\ new.st = "answered"
          /\ new.answer = t
      BY <1>1, <3>2 DEF TabCall
    <3> HIDE DEF new
    <3>5. CallFits(new, budget.ids)  BY <1>1, <1>3, <2>2, <3>2, <3>3, <3>4 DEF CallFits
    <3>6. QED  BY <3>1, <3>4, <3>5
  <2>3. CASE k.kind \notin {"list", "poll", "reorder"} /\ k.op.id \notin IdsOf(doc)
    <3> DEFINE new == [k EXCEPT !.st = "refused"]
    <3>1. tabCall' = [tabCall EXCEPT ![c] = new]  BY <1>2, <2>3 DEF View
    <3>2. new \in TabCall /\ new.kind = k.kind /\ new.op = k.op /\ new.st = "refused"
      BY <1>1 DEF TabCall
    <3> HIDE DEF new
    <3>3. CallFits(new, budget.ids)  BY <1>1, <1>3, <3>2 DEF CallFits
    <3>4. QED  BY <3>1, <3>2, <3>3
  <2>4. QED  BY <2>1, <2>2, <2>3
<1>5. PICK new \in TabCall : /\ tabCall' = [tabCall EXCEPT ![c] = new] /\ new.kind = k.kind
                             /\ CallFits(new, budget.ids)
  BY <1>4
<1>6. QED  BY <1>1, <1>5, KeptFacts, CallKeeps

\* A polling chain is continued when its request ends.
LEMMA ChainGoesOn ==
    ASSUME TabsAreKept, NEW c \in TabRequests, poll' = Chain(c), pageVisible' = pageVisible
    PROVE  /\ poll' \in Polls
           /\ poll'.timer \/ (tabCall[c].kind # "poll" /\ UNCHANGED <<poll, pageVisible>>) \/ ~pageVisible'
<1>1. poll \in Polls /\ pageVisible \in BOOLEAN /\ poll.stray \in Nat /\ poll.stray + 1 \in Nat
  BY KeptFacts
<1>2. CASE tabCall[c].kind = "poll" /\ pageVisible
  <2>1. poll' = [timer |-> TRUE, stray |-> IF poll.timer THEN poll.stray + 1 ELSE poll.stray]
    BY <1>2 DEF Chain, SchedulePoll
  <2>2. QED  BY <1>1, <2>1 DEF Polls
<1>3. CASE tabCall[c].kind = "poll" /\ ~pageVisible  BY <1>1, <1>3 DEF Chain, SchedulePoll
<1>4. CASE tabCall[c].kind # "poll"  BY <1>1, <1>4 DEF Chain
<1>5. QED  BY <1>2, <1>3, <1>4

\* A request ends, with an answer or without.
LEMMA EndingKeeps ==
    ASSUME TabsAssumption, TabsAreKept, NEW c \in TabRequests, Deliver(c) \/ Fail(c)
    PROVE  TabsAreKept'
<1>1. /\ poll' = Chain(c) /\ tabCall' = [tabCall EXCEPT ![c] = Free]
      /\ UNCHANGED <<doc, pageVisible, budget>>
  BY DEF Deliver, Fail
<1>2. ListFits(ui', budget'.ids)
  <2>1. CASE Deliver(c)
    <3>1. /\ tabCall[c] \in TabCall /\ CallFits(tabCall[c], budget.ids) /\ ListFits(ui, budget.ids)
          /\ tabCall[c].st = "answered" /\ ui' = Visit(TabsAnswered(ui, tabCall[c]))
      BY <2>1, KeptFacts DEF Deliver
    <3>2. QED  BY <1>1, <3>1, AnswerFits
  <2>2. CASE Fail(c)  BY <1>1, <2>2, KeptFacts DEF Fail
  <2>3. QED  BY <2>1, <2>2
<1>3. /\ poll' \in Polls
      /\ poll'.timer \/ (tabCall[c].kind # "poll" /\ UNCHANGED <<poll, pageVisible>>) \/ ~pageVisible'
  BY <1>1, ChainGoesOn
<1>4. Free \in TabCall /\ CallFits(Free, budget'.ids)  BY FreeFits
<1>5. QED  BY <1>1, <1>2, <1>3, <1>4, KeptFacts, CallKeeps

\* The list is loaded again after a conflict.
LEMMA ConflictKeeps ==
    ASSUME TabsAreKept, NEW c \in TabRequests, Conflict(c) PROVE TabsAreKept'
<1> DEFINE k == Send("list", NoTab)
<1>1. k \in TabCall /\ CallFits(k, budget.ids)  BY KeptFacts, SendFits
<1>2. tabCall[c].kind = "reorder"  BY KeptFacts DEF Conflict, CallFits
<1>3. tabCall' = [tabCall EXCEPT ![c] = k] /\ UNCHANGED <<doc, ui, pageVisible, poll, budget>>
  BY DEF Conflict
<1> HIDE DEF k
<1>4. QED  BY <1>1, <1>2, <1>3, KeptFacts, CallKeeps

\* The first render
LEMMA FirstRenderIsKept == ASSUME TabsAssumption, TabsInit PROVE TabsAreKept
<1> DEFINE n == Len(InitialTabs)
           name == CHOOSE m \in Names : TRUE
           tabs == [i \in 1 .. n |-> [id |-> InitialTabs[i], name |-> name, position |-> i - 1,
                                      activity |-> 0, desired |-> "active"]]
<1>1. /\ n \in Nat /\ DOMAIN InitialTabs = 1 .. n /\ n <= MaxCount
      /\ \A i \in 1 .. n : InitialTabs[i] \in Ids
      /\ \A i, j \in 1 .. n : InitialTabs[i] = InitialTabs[j] => i = j
      /\ MaxTabChanges \in Nat /\ MaxHides \in Nat /\ Names # {}
  BY DEF TabsAssumption
<1>2. name \in Names  BY <1>1
<1>3. doc = [revision |-> 0, tabs |-> tabs]
  <2>1. \A i \in 1 .. n : [FreshTab(InitialTabs[i]) EXCEPT !.position = i - 1]
            = [id |-> InitialTabs[i], name |-> name, position |-> i - 1, activity |-> 0,
               desired |-> "active"]
    <3>1. \A x : FreshTab(x) = [id |-> x, name |-> name, position |-> 0, activity |-> 0,
                               desired |-> "active"]
      BY DEF FreshTab
    <3> HIDE DEF name
    <3>2. QED  BY <3>1
  <2>2. [i \in DOMAIN InitialTabs |-> [FreshTab(InitialTabs[i]) EXCEPT !.position = i - 1]] = tabs
    BY <1>1, <2>1
  <2> HIDE DEF tabs
  <2>3. QED  BY <2>2 DEF TabsInit
<1> HIDE DEF name
<1>4. /\ tabs \in [1 .. n -> Tab]
      /\ \A i \in 1 .. n : tabs[i].position = i - 1 /\ tabs[i].id = InitialTabs[i]
  <2>1. ASSUME NEW i \in 1 .. n
        PROVE  [id |-> InitialTabs[i], name |-> name, position |-> i - 1, activity |-> 0,
                desired |-> "active"] \in Tab
    <3>1. i - 1 \in Nat /\ InitialTabs[i] \in Ids  BY <1>1
    <3>2. QED  BY <1>2, <3>1 DEF Tab
  <2>2. QED  BY <2>1
<1> HIDE DEF tabs, n
<1>5. \A i, j \in 1 .. n : tabs[i].id = tabs[j].id => i = j  BY <1>1, <1>4
<1>6. ValidDocument(doc) /\ IdsOf(doc) = {tabs[i].id : i \in 1 .. n}
  <2>1. 0 \in Nat /\ \A i \in 1 .. n : tabs[i].position = i - 1  BY <1>4
  <2>2. /\ ValidDocument([revision |-> 0, tabs |-> tabs])
        /\ IdsOf([revision |-> 0, tabs |-> tabs]) = {tabs[i].id : i \in 1 .. n}
    BY <1>1, <1>4, <1>5, <2>1, ValidFromTabs
  <2>3. QED  BY <1>3, <2>2
<1>7. budget.ids = Ids \ ToSet(InitialTabs) /\ budget \in Budgets  BY <1>1 DEF TabsInit, Budgets
<1>8. IdsOf(doc) \cap budget.ids = {}  BY <1>1, <1>4, <1>6, <1>7 DEF ToSet
<1>9. ListFits(ui, budget.ids)
  <2>1. <<>> \in Seq(Tab) /\ ShownIn(<<>>) = {}  BY DEF ShownIn
  <2>2. ui \in Ui /\ ui.tabs = <<>> /\ ui.selected = NoTab /\ ui.visited = {}
    BY <2>1 DEF TabsInit, Ui
  <2>3. QED  BY <2>1, <2>2, FieldsFit
<1>10. /\ tabCall \in [TabRequests -> TabCall]
       /\ \A c \in TabRequests : CallFits(tabCall[c], budget.ids)
  <2> DEFINE k == [Free EXCEPT !.kind = "list", !.st = "sent"]
  <2>1. PICK c \in TabRequests : tabCall = [d \in TabRequests |-> IF d = c THEN k ELSE Free]
    BY DEF TabsInit
  <2>2. k \in TabCall /\ k.kind = "list" /\ k.st = "sent"  BY FreeFits DEF TabCall
  <2>3. CallFits(k, budget.ids)
    <3> HIDE DEF k
    <3>1. QED  BY <2>2 DEF CallFits
  <2>4. Free \in TabCall /\ CallFits(Free, budget.ids)  BY FreeFits
  <2> HIDE DEF k
  <2>5. QED  BY <2>1, <2>2, <2>3, <2>4
<1>11. pageVisible = TRUE /\ poll = [timer |-> TRUE, stray |-> 0] /\ poll.timer /\ poll \in Polls
  BY DEF TabsInit, Polls
<1>12. TabsTypeOK  BY <1>6, <1>7, <1>9, <1>10, <1>11 DEF TabsTypeOK, ListFits, Polls, Budgets
<1>13. QED
  BY <1>8, <1>9, <1>10, <1>11, <1>12
  DEF TabsAreKept, UnusedIsUnseen, AnswersFit, SelectionIsShown, ListIsPolled, ListFits

\* Every step
LEMMA TabsStepKeeps == ASSUME TabsAssumption, TabsAreKept, [TabsNext]_tabsVars PROVE TabsAreKept'
<1>1. ASSUME NEW c \in TabRequests, TimerFires(c) \/ StrayFires(c) \/ ShowPage(c) PROVE TabsAreKept'
  BY <1>1, PollStepKeeps
<1>2. ASSUME NEW c \in TabRequests, Ask(c) \/ Health(c) \/ RefreshTabs(c) PROVE TabsAreKept'
  BY <1>2, AskingKeeps
<1>3. ASSUME NEW c \in TabRequests, Apply(c) PROVE TabsAreKept'  BY <1>3, ApplyKeeps
<1>4. ASSUME NEW c \in TabRequests, View(c) PROVE TabsAreKept'  BY <1>4, ViewKeeps
<1>5. ASSUME NEW c \in TabRequests, Deliver(c) \/ Fail(c) PROVE TabsAreKept'  BY <1>5, EndingKeeps
<1>6. ASSUME NEW c \in TabRequests, Conflict(c) PROVE TabsAreKept'  BY <1>6, ConflictKeeps
<1>7. ASSUME NEW id \in Ids, Select(id) PROVE TabsAreKept'  BY <1>7, SelectKeeps
<1>8. CASE HidePage  BY <1>8, HidePageKeeps
<1>9. CASE Elsewhere  BY <1>9, ElsewhereKeeps
<1>10. CASE UNCHANGED tabsVars
  BY <1>10
  DEF tabsVars, TabsAreKept, TabsTypeOK, UnusedIsUnseen, AnswersFit, SelectionIsShown, ListIsPolled
<1>11. QED  BY <1>1, <1>2, <1>3, <1>4, <1>5, <1>6, <1>7, <1>8, <1>9, <1>10 DEF TabsNext

\* useTabs.ts, for any tabs and any number of requests and changes, here and in other
\* browsers: in whatever order answers arrive, the selected tab is shown, what is shown,
\* visited or answered is a tab the server has or had, and a timer or a request keeps a
\* list that is visible up to date.
THEOREM TabsStayKept == ASSUME TabsAssumption PROVE TabsSpec => []TabsAreKept
<1>1. TabsInit => TabsAreKept  BY FirstRenderIsKept
<1>2. TabsAreKept /\ [TabsNext]_tabsVars => TabsAreKept'  BY TabsStepKeeps
<1>3. QED  BY <1>1, <1>2, PTL DEF TabsSpec

=============================================================================
