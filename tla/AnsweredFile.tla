---------------------------- MODULE AnsweredFile ----------------------------
(***************************************************************************)
(* What a store that replaces one file as a whole promises its callers: a  *)
(* call takes effect at most once and as a whole, a power failure throws   *)
(* the file back to a version since the last sync of the directory, and    *)
(* the answer to a call is true when it is given.                          *)
(*                                                                         *)
(* A version remembers which calls went into it.                           *)
(***************************************************************************)
EXTENDS Naturals, Sequences

CONSTANTS Calls, Values

VARIABLES versions,   \* what the file may be after a power failure, newest last
          told        \* what each caller was told

Newest == versions[Len(versions)]

Init ==
    /\ Len(versions) = 1 /\ Newest.calls = {}
    /\ told = [c \in Calls |-> "nothing"]

\* A call, or the start of the program, replaces the contents.
Write(C) ==
    /\ \A c \in C : told[c] = "nothing" /\ \A i \in DOMAIN versions : c \notin versions[i].calls
    /\ \E v \in Values : versions' = Append(versions, [doc |-> v, calls |-> Newest.calls \cup C])
    /\ UNCHANGED told

Harden == versions' = <<Newest>> /\ UNCHANGED told

Lose == (\E i \in DOMAIN versions : versions' = <<versions[i]>>) /\ UNCHANGED told

Truthful(c, answer) ==
    CASE answer = "durable"   -> \A i \in DOMAIN versions : c \in versions[i].calls
      [] answer = "uncertain" -> c \in Newest.calls
      [] answer = "failed"    -> \A i \in DOMAIN versions : c \notin versions[i].calls

Tell(c) ==
    /\ told[c] = "nothing"
    /\ \E answer \in {"durable", "uncertain", "failed"} :
          Truthful(c, answer) /\ told' = [told EXCEPT ![c] = answer]
    /\ UNCHANGED versions

Next ==
    \/ Write({}) \/ (\E c \in Calls : Write({c}) \/ Tell(c))
    \/ Harden \/ Lose

Spec == Init /\ [][Next]_<<versions, told>>

=============================================================================
