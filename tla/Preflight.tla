------------------------------ MODULE Preflight ------------------------------
(***************************************************************************)
(* preflightJson of secure-json-file.ts: before a value is serialised it   *)
(* is walked with an explicit stack, within limits on nodes, depth, keys   *)
(* and bytes, and refused if it contains itself.                           *)
(*                                                                         *)
(* A value is a graph of containers whose leaves are texts, or something   *)
(* JSON cannot express.  A text is a sequence of classes of code units;    *)
(* other leaves differ from it only in how many bytes they add.            *)
(***************************************************************************)
EXTENDS Naturals, Sequences, FiniteSets, SequencesExt

CONSTANTS Containers, Root,
          Texts,           \* leaves: sequences of classes of code units
          Inexpressible,   \* a leaf such as a function or an infinite number
          MaxChildren, KeyBytes,
          MaxNodes, MaxDepth, MaxKeys, MaxBytes

RootAssumption == Root \in Containers /\ Inexpressible \notin Containers \cup Texts
LimitsAssumption ==
    {MaxChildren, KeyBytes, MaxNodes, MaxDepth, MaxKeys, MaxBytes} \subseteq Nat

VARIABLES
    children,   \* the children of each container, in order
    isArray,    \* whether a container is an array
    work,       \* the stack, its top first
    ancestors,  \* containers that are open
    count,      \* bytes, nodes and keys counted
    outcome

vars == <<children, isArray, work, ancestors, count, outcome>>

Item == Containers \cup Texts \cup {Inexpressible}

Enter(v, depth) == [kind |-> "value", value |-> v, depth |-> depth]
Exit(v) == [kind |-> "exit", value |-> v, depth |-> 0]

Init ==
    /\ children \in [Containers -> UNION {[1 .. n -> Item] : n \in 0 .. MaxChildren}]
    /\ isArray \in [Containers -> BOOLEAN]
    /\ work = <<Enter(Root, 0)>> /\ ancestors = {}
    /\ count = [bytes |-> 0, nodes |-> 0, keys |-> 0] /\ outcome = "running"

-----------------------------------------------------------------------------
(***************************************************************************)
(* Bytes.                                                                  *)
(***************************************************************************)
UnitBytes == [plain |-> 1, quoted |-> 2, control |-> 6, latin |-> 2, wide |-> 3, high |-> 6, low |-> 6]

IsPair(s, i) == i < Len(s) /\ s[i] = "high" /\ s[i + 1] = "low"

\* Mutant: the second half of a pair is looked at again.
UnitsTakenOne(s, i) == 1

UnitsTaken(s, i) == IF IsPair(s, i) THEN 2 ELSE 1

\* jsonStringByteLength: one pass that takes a pair of surrogates at once
JsonStringByteLength(s) ==
    LET from[i \in 1 .. Len(s) + 2] ==
            IF i > Len(s) THEN 0
            ELSE (IF IsPair(s, i) THEN 4 ELSE UnitBytes[s[i]]) + from[i + UnitsTaken(s, i)]
    IN 2 + from[1]

LeafBytes(v) == JsonStringByteLength(v)

\* Brackets, separators, and in an object the keys with their colons
ContainerBytes(c) ==
    LET n == Len(children[c]) IN
    2 + (IF n > 0 THEN n - 1 ELSE 0) + (IF isArray[c] THEN 0 ELSE n * (KeyBytes + 1))

\* Reflect.ownKeys counts the length of an array.
KeysOf(c) == Len(children[c]) + (IF isArray[c] THEN 1 ELSE 0)

-----------------------------------------------------------------------------
Refuse(reason) ==
    outcome' = reason /\ UNCHANGED <<work, ancestors, count>>

Left(v) == {v}

\* The top of the stack says that a container is done.
Leave ==
    /\ work # <<>> /\ Head(work).kind = "exit"
    /\ ancestors' = ancestors \ Left(Head(work).value)
    /\ work' = Tail(work)
    /\ UNCHANGED <<children, isArray, count, outcome>>

Circular(v) == v \in ancestors

TooComplex(depth) == count.nodes + 1 > MaxNodes \/ depth > MaxDepth

Walk ==
    LET item == Head(work)
        v == item.value
        bytes == count.bytes + (IF v \in Containers THEN ContainerBytes(v) ELSE LeafBytes(v))
    IN
    /\ work # <<>> /\ item.kind = "value"
    /\ UNCHANGED <<children, isArray>>
    /\ IF TooComplex(item.depth) THEN Refuse("limit")
       ELSE IF v = Inexpressible THEN Refuse("inexpressible")
       ELSE IF v \in Containers /\ Circular(v) THEN Refuse("circular")
       ELSE IF v \in Containers /\ count.keys + KeysOf(v) > MaxKeys THEN Refuse("limit")
       ELSE IF bytes > MaxBytes THEN Refuse("limit")
       ELSE /\ count' = [bytes |-> bytes, nodes |-> count.nodes + 1,
                         keys |-> count.keys + (IF v \in Containers THEN KeysOf(v) ELSE 0)]
            /\ IF v \in Containers
               THEN /\ ancestors' = ancestors \cup {v}
                    /\ work' = [i \in DOMAIN children[v] |-> Enter(children[v][i], item.depth + 1)]
                               \o <<Exit(v)>> \o Tail(work)
               ELSE work' = Tail(work) /\ UNCHANGED ancestors
            /\ UNCHANGED outcome

Finish ==
    /\ work = <<>> /\ outcome = "running" /\ outcome' = "accepted"
    /\ UNCHANGED <<children, isArray, work, ancestors, count>>

Next == outcome = "running" /\ (Leave \/ Walk \/ Finish)

Spec == Init /\ [][Next]_vars

-----------------------------------------------------------------------------
(***************************************************************************)
(* The reference: what the serialised value is, by depth.                  *)
(***************************************************************************)
RECURSIVE Reaches(_, _, _)
Reaches(c, d, n) ==
    \E i \in DOMAIN children[c] :
        children[c][i] \in Containers
        /\ (children[c][i] = d \/ (n > 0 /\ Reaches(children[c][i], d, n - 1)))

Reached == {Root} \cup {c \in Containers : Reaches(Root, c, Cardinality(Containers))}

Cyclic == \E c \in Reached : Reaches(c, c, Cardinality(Containers))

\* The bytes of a text: each unit by itself, and the pairs of surrogates
TextBytes(s) ==
    LET pairs == {i \in DOMAIN s : IsPair(s, i)}
        single == {i \in DOMAIN s : i \notin pairs /\ i - 1 \notin pairs}
    IN 2 + 4 * Cardinality(pairs) + FoldSet(LAMBDA i, sum : sum + UnitBytes[s[i]], 0, single)

RECURSIVE Total(_, _)
Total(v, weight) ==
    IF v \notin Containers THEN weight[v]
    ELSE weight[v] + FoldLeft(LAMBDA sum, w : sum + Total(w, weight), 0, children[v])

RECURSIVE Height(_)
Height(v) ==
    IF v \notin Containers \/ children[v] = <<>> THEN 0
    ELSE 1 + Max({Height(children[v][i]) : i \in DOMAIN children[v]})

JsonBytes ==
    [v \in Containers \cup Texts |->
        IF v \notin Containers THEN TextBytes(v)
        ELSE LET n == Len(children[v]) IN
             (IF n = 0 THEN 2 ELSE n + 1) + (IF isArray[v] THEN 0 ELSE n * (KeyBytes + 1))]

Expressible == \A c \in Reached : \A i \in DOMAIN children[c] : children[c][i] # Inexpressible

WithinLimits ==
    /\ Total(Root, [v \in Containers \cup Texts |-> 1]) <= MaxNodes /\ Height(Root) <= MaxDepth
    /\ Total(Root, [v \in Containers \cup Texts |-> IF v \in Containers THEN KeysOf(v) ELSE 0])
          <= MaxKeys
    /\ Total(Root, JsonBytes) <= MaxBytes

-----------------------------------------------------------------------------
\* Exactly the values that JSON can express within the limits are accepted;
\* one that uses a container twice is, one that contains itself is not.
AcceptsExactly ==
    outcome # "running" =>
        (outcome = "accepted") = (~Cyclic /\ Expressible /\ WithinLimits)

\* The bytes counted for a value that is accepted are those of its text, so
\* that the later check of the encoded length never refuses it.
CountIsLength == outcome = "accepted" => count.bytes = Total(Root, JsonBytes)

=============================================================================
