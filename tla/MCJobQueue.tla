----------------------------- MODULE MCJobQueue -----------------------------
(* Small instances of JobQueue for TLC. *)
EXTENDS JobQueue, TLC

CONSTANTS w1, w2, r1, r2, p1, k1, k2, a1, a2

\* Releases of one project; all the stored events are of the first one.
MCProjectOf == [r \in Release |-> p1]
MCReleaseOf == [e \in Event |-> r1]
Symmetry == Permutations({w1, w2})
=============================================================================
