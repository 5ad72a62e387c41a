------------------------------ MODULE MCRemesh ------------------------------
(* Two chunks next to each other, whose other neighbours stay in the world. *)
EXTENDS Remesh, TLC

CONSTANTS p1, p2, l1, l2

MCAround == (p1 :> {p2}) @@ (p2 :> {p1})
MCLaneOf == (p1 :> l1) @@ (p2 :> l2)

Symmetry == Permutations(Renderer)
=============================================================================
