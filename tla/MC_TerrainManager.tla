------------------------- MODULE MC_TerrainManager --------------------------
(* Small instances of TerrainManager: the moves the player makes.          *)
EXTENDS TerrainManager

East == {<<1, 0>>}
EastOrCorner == {<<1, 0>>, <<-1, 1>>}
=============================================================================
