--------------------------- MODULE InsertionOrder ---------------------------
(***************************************************************************)
(* Sets and Maps of JavaScript keep their keys in the order in which they  *)
(* were inserted, and a Map of bounded size gives up its first key.  Keys  *)
(* in that order are a sequence without repetitions.                       *)
(***************************************************************************)
EXTENDS Naturals, Sequences, SequencesExt

\* delete
Forget(q, x) ==
    IF Contains(q, x) THEN RemoveAt(q, CHOOSE n \in 1 .. Len(q) : q[n] = x) ELSE q

\* delete of all keys in X
ForgetAll(q, X) ==
    LET upTo[n \in 0 .. Len(q)] ==
            IF n = 0 THEN <<>> ELSE IF q[n] \in X THEN upTo[n - 1] ELSE Append(upTo[n - 1], q[n])
    IN upTo[Len(q)]

\* delete, then set: the key is the last one.
Renew(q, x) == Append(Forget(q, x), x)

\* add: a key that is there keeps its place.
Add(q, x) == IF Contains(q, x) THEN q ELSE Append(q, x)

\* add of all elements of r, one after the other
AddAll(q, r) ==
    LET upTo[n \in 0 .. Len(r)] == IF n = 0 THEN q ELSE Add(upTo[n - 1], r[n])
    IN upTo[Len(r)]

=============================================================================
