------------------------- MODULE MCOrderProcessing -------------------------
(***************************************************************************)
(* Small instances of OrderProcessing for TLC.                             *)
(***************************************************************************)
EXTENDS OrderProcessingInv, TLC

CONSTANTS o1, o2, h1, h2, w1, w2

Interchangeable == Permutations({h1, h2}) \cup Permutations({w1, w2})

FaultsWithoutDup == AllFaults \ {"pushDup"}

=============================================================================
