---------------------------- MODULE MCMemoryPool ----------------------------
(***************************************************************************)
(* Two workers over the in-memory queue, a client, an order that is paid,  *)
(* one that is declined, and an id that no order has.                       *)
(***************************************************************************)
EXTENDS MemoryPool

CONSTANTS w1, w2, c1, o1, o2, u1

=============================================================================
