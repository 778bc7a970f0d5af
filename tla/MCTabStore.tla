----------------------------- MODULE MCTabStore -----------------------------
(***************************************************************************)
(* A small tab store and the list of tabs of a browser over the same kind  *)
(* of document: two tabs may exist at a time, three identifiers.  Every    *)
(* behaviour is one of one component, named by part; the other one rests   *)
(* in an initial state.                                                    *)
(***************************************************************************)
EXTENDS TabStore, ClientTabs, TLC

CONSTANTS a, b, x, n, m

VARIABLE part   \* the component a behaviour is of

MCIds == {a, b, x}
MCNames == {n, m}
MCInitialTabs == <<a>>

ASSUME InstancesAssumption == TabsAssumption

OldTab(id, p, s) == [id |-> id, name |-> n, position |-> p, activity |-> 0, desired |-> s]

MCInitialDocuments ==
    {None,
     [revision |-> 2, tabs |-> <<OldTab(a, 0, "active"), OldTab(b, 1, "stopped")>>]}

MCOperations ==
    {[op |-> "create", id |-> x, name |-> n],
     [op |-> "ensureInitialTab", id |-> x, name |-> n],
     [op |-> "rename", id |-> a, name |-> m],
     [op |-> "setDesiredState", id |-> a, desired |-> "stopped"],
     [op |-> "remove", id |-> a],
     [op |-> "reorder", ids |-> <<b, a>>],
     [op |-> "flushActivity", ids |-> {a}, now |-> 1]}

suiteVars == <<part, vars, tabsVars>>

\* The store and the list, in the behaviours of the other
StoreRests == Init /\ versions[1].doc = None
ListRests == TabsInit

SuiteInit ==
    \/ part = "store" /\ Init /\ ListRests
    \/ part = "tabs" /\ TabsInit /\ StoreRests

SuiteNext ==
    \/ part = "store" /\ Next /\ UNCHANGED <<part, tabsVars>>
    \/ part = "tabs" /\ TabsNext /\ UNCHANGED <<part, vars>>

SuiteSpec == SuiteInit /\ [][SuiteNext]_suiteVars

Symmetry == Permutations(Calls) \cup Permutations(TabRequests)

=============================================================================
