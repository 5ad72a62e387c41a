--------------------------- MODULE MCRendererPool ---------------------------
(* Three positions and as many renderers; both are interchangeable.        *)
EXTENDS RendererPool, TLC

\* One initial value for what constructors overwrite.
MCInit == Init /\ \A r, q \in Renderer : pos[r] = pos[q]
MCSpec == MCInit /\ [][Next]_vars

Symmetry == Permutations(Pos) \cup Permutations(Renderer)
=============================================================================
