---------------------------- MODULE MCLighting ----------------------------
(* Three columns over a floor of stone.  Blocks are set in the two rows    *)
(* above the floor, so that light of level 3 stays away from the top.      *)
EXTENDS Lighting

CONSTANTS air, stone, water, glowstone

\* What worldgen.lua makes: columns of stone of heights h, then water up to the row sea.
Made(h, sea) ==
  [c \in Cell |-> IF c[2] <= h[c[1] + 1] THEN stone ELSE IF c[2] <= sea THEN water ELSE air]

MCTerrain == {Made(<<0, 0, 0>>, 0), Made(<<0, 0, 0>>, 2), Made(<<0, 1, 2>>, 1)}

MCEditable == {c \in Cell : c[2] \in 1..2}
=============================================================================
