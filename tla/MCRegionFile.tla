---------------------------- MODULE MCRegionFile ----------------------------
(* Three chunks of a region whose contents take one to three sectors.      *)
EXTENDS RegionFile, TLC

CONSTANTS blank, wide, widest

MCPayload == {blank, wide, widest}
MCSectors == [p \in MCPayload |-> CASE p = blank -> 1 [] p = wide -> 2 [] OTHER -> 3]

\* The slots are interchangeable: no definition singles one out.
Symmetry == Permutations(Slot)
=============================================================================
