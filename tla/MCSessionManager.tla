-------------------------- MODULE MCSessionManager --------------------------
(***************************************************************************)
(* Instances of SessionManager for TLC.  Every request is used at most     *)
(* once, so the number of requests bounds every counter of the model.      *)
(***************************************************************************)
EXTENDS SessionManager, TLC

Symmetry == Permutations(Requests)

\* All calls have settled and all sockets are gone.
Terminated ==
    \A r \in Requests :
        pc[r] \in {"succeeded", "failed"} /\ handler[r] \in {"none", "settled"}

\* Stuttering when everything has terminated, so that TLC reports any other
\* state without a successor as a deadlock.
MCNext == Next \/ (Terminated /\ UNCHANGED vars)

MCSpec == Init /\ [][MCNext]_vars

=============================================================================
