------------------------- MODULE MCProjectTransfer -------------------------
(* Small instances of ProjectTransfer. *)
EXTENDS ProjectTransfer
CONSTANTS e1, e2, t1, t2, a1, a2, b1
MCHost == [w \in Worker |-> IF w = b1 THEN "target" ELSE "source"]
=============================================================================
