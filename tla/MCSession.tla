----------------------------- MODULE MCSession -----------------------------
(* Session with one lone volume, and a smaller one to make it a set of two. *)
EXTENDS Session, TLC

CONSTANTS i1, i2, c1, c2

MCRvn == (i1 :> 1) @@ (i2 :> 2)
MCSlots == (i1 :> {1, 2}) @@ (i2 :> {})
MCClusters == (i1 :> {c1, c2}) @@ (i2 :> {})

Symmetry == Permutations({c1, c2}) \union Permutations(Drives)

=============================================================================
