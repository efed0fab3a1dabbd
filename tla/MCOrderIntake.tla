---------------------------- MODULE MCOrderIntake ----------------------------
(***************************************************************************)
(* Small instances of OrderIntake for TLC.  In the small word of the runs   *)
(* Width, NumericMax and IntegerMax keep the order that 64 bits,            *)
(* NUMERIC(15,2) and INTEGER have: a price fits the word with room to       *)
(* spare, a price times a quantity need not.                                *)
(***************************************************************************)
EXTENDS OrderIntake, TLC

CONSTANTS p1, p2, s1, s2

Interchangeable == Permutations({p1, p2}) \cup Permutations({s1, s2})

==============================================================================
