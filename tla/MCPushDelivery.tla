--------------------------- MODULE MCPushDelivery ---------------------------
(* Small instances of PushDelivery. *)
EXTENDS PushDelivery
CONSTANTS w1, w2, s1, s2, d1, c1, c2
MCTarget == [s \in Send |-> d1]
=============================================================================
