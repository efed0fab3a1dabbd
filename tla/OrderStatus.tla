---------------------------- MODULE OrderStatus ----------------------------
(***************************************************************************)
(* The order lifecycle states and the transition table of                  *)
(* internal/order/status.go.                                               *)
(***************************************************************************)

Created    == "CREATED"
Processing == "PROCESSING"
Paid       == "PAID"
Shipped    == "SHIPPED"
Canceled   == "CANCELED"
Failed     == "FAILED"

AllStatuses == {Created, Processing, Paid, Shipped, Canceled, Failed}

CanTransition(from, to) ==
    \/ from = Created    /\ to \in {Processing, Canceled}
    \/ from = Processing /\ to \in {Paid, Failed}
    \/ from = Paid       /\ to = Shipped

============================================================================
