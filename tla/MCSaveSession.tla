--------------------------- MODULE MCSaveSession ---------------------------
(* Three chunks of a region whose contents take one to three sectors.       *)
EXTENDS SaveSession, TLC

CONSTANTS blank, wide, widest

MCPayload == {blank, wide, widest}
MCSectors == [p \in MCPayload |-> CASE p = blank -> 1 [] p = wide -> 2 [] OTHER -> 3]

Symmetry == Permutations(Slot)
=============================================================================
