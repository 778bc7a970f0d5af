-------------------------- MODULE MCBridgeRegistry --------------------------
EXTENDS BridgeRegistry, TLC

\* Calls and owners are interchangeable, sessions too.
Symmetry == Permutations(Calls) \cup Permutations(Owners) \cup Permutations(Sessions)

\* All calls are settled and the registry is shut down.
Over == /\ \A c \in Calls : pc[c] \in Settled
        /\ shutdown \in Settled
        /\ UNCHANGED vars

MCSpec == Init /\ [][Next \/ Over]_vars

=============================================================================
