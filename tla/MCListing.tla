----------------------------- MODULE MCListing -----------------------------
(***************************************************************************)
(* Small instances of Listing for TLC.  Ids and times are ordered and may   *)
(* not be permuted; writers may.                                           *)
(***************************************************************************)
EXTENDS Listing

CONSTANTS w1, w2

\* Below the limits, omitted, at the maximum, above it.
SentSizes == {-1, 0, 2, 3}

Interchangeable == Permutations({w1, w2})

=============================================================================
