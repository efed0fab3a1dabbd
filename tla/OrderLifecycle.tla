--------------------------- MODULE OrderLifecycle ---------------------------
(***************************************************************************)
(* What the order service promises about one order, whatever fails and     *)
(* however its requests, messages and workers interleave: the order is     *)
(* opened once, started only while it is uncharged, charged at most once,  *)
(* settled once and by the outcome of that charge, and shipped only when    *)
(* the charge was accepted.  Cancel is the one operation that may strike    *)
(* at any moment: its UPDATE names no status, so it overwrites whatever the *)
(* order has become since the request read it.                             *)
(***************************************************************************)
EXTENDS Naturals, OrderStatus

CONSTANTS
    Orders,     \* order ids
    Declined    \* orders whose payment is refused

VARIABLES
    status,     \* the status of the order's row, or NoRow
    settled,    \* whether its processing time is recorded
    charged     \* how often its payment was made

lifecycleVars == <<status, settled, charged>>

NoRow == "ABSENT"

Open(o) ==
    /\ status[o] = NoRow
    /\ status' = [status EXCEPT ![o] = Created]
    /\ UNCHANGED <<settled, charged>>

\* A canceled order may still be started, by a worker that read it before.
Start(o) ==
    /\ status[o] \in {Created, Canceled}
    /\ charged[o] = 0
    /\ ~settled[o]
    /\ status' = [status EXCEPT ![o] = Processing]
    /\ UNCHANGED <<settled, charged>>

Charge(o) ==
    /\ status[o] \in {Processing, Canceled}
    /\ charged[o] = 0
    /\ charged' = [charged EXCEPT ![o] = 1]
    /\ UNCHANGED <<status, settled>>

Settle(o) ==
    /\ charged[o] = 1
    /\ ~settled[o]
    /\ status' = [status EXCEPT ![o] = IF o \in Declined THEN Failed ELSE Paid]
    /\ settled' = [settled EXCEPT ![o] = TRUE]
    /\ UNCHANGED charged

Ship(o) ==
    /\ settled[o]
    /\ o \notin Declined
    /\ status' = [status EXCEPT ![o] = Shipped]
    /\ UNCHANGED <<settled, charged>>

Cancel(o) ==
    /\ status[o] # NoRow
    /\ status' = [status EXCEPT ![o] = Canceled]
    /\ UNCHANGED <<settled, charged>>

LifecycleInit ==
    /\ status = [o \in Orders |-> NoRow]
    /\ settled = [o \in Orders |-> FALSE]
    /\ charged = [o \in Orders |-> 0]

LifecycleNext ==
    \E o \in Orders :
        Open(o) \/ Start(o) \/ Charge(o) \/ Settle(o) \/ Ship(o) \/ Cancel(o)

LifecycleSpec == LifecycleInit /\ [][LifecycleNext]_lifecycleVars

=============================================================================
