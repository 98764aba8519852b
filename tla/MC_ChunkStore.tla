--------------------------- MODULE MC_ChunkStore ----------------------------
(* A chunk of seven voxels: bedrock, stone, air between stone, air on top. *)
EXTENDS ChunkStore

SmallTerrain == [c \in 0 .. 6 |-> CASE c = 0 -> "Bedrock"
                                   [] c \in {1, 2, 4} -> "Stone"
                                   [] c \in {3, 5, 6} -> "Air"]
=============================================================================
