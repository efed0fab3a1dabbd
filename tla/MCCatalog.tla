------------------------------ MODULE MCCatalog ------------------------------
(***************************************************************************)
(* The catalog services for TLC, over the database (Catalog) and over the    *)
(* in-memory repositories (MemoryCatalog), one of the two per behaviour.     *)
(***************************************************************************)
EXTENDS Catalog, MemoryCatalog, TLC

CONSTANTS i1, i2, i3, k1, k2, k3, c1, c2

VARIABLE part   \* which repository the behaviour exercises

vars == <<part, catalogVars, memoryVars>>

MemoryIdle ==
    /\ kind = "customer"
    /\ items = [i \in Records |-> Nothing]
    /\ call = [c \in Callers |-> IdleCall]
    /\ off = {} /\ raced = {} /\ revived = {}

Init ==
    /\ CatalogInit
    /\ \/ part = "database" /\ MemoryIdle
       \/ part = "memory" /\ MemoryInit

Next ==
    \/ part = "database" /\ CatalogNext /\ UNCHANGED <<part, memoryVars>>
    \/ part = "memory" /\ MemoryNext /\ UNCHANGED <<part, catalogVars>>

Spec == Init /\ [][Next]_vars

Interchangeable == 
    Permutations({i1, i2, i3}) \cup Permutations({k1, k2, k3}) \cup Permutations({c1, c2})

==============================================================================
