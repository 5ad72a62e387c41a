---------------------------- MODULE MCChunkSync ----------------------------
(* A strip of four chunks, the first outside the world.                    *)
EXTENDS ChunkSync

CONSTANTS air, stone, dirt, Length

MCPos == {<<x, 1>> : x \in 0..(Length - 1)}
MCBlock == {air, stone, dirt}

\* The server's chunks differ from a blank one at the bottom.
MCTerrain == [p \in MCPos |-> [y \in 0..(Height - 1) |-> IF y = 0 THEN dirt ELSE air]]

\* Stone at the bottom (its dirt lands in the chunk), or there and at the top.
MCBottom == {<<0, stone>>}
MCBoth   == {<<0, stone>>, <<1, stone>>}

MCSpawn == <<2, 1>>
Symmetry == Permutations(Client)
=============================================================================
