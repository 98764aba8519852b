--------------------------- MODULE MC_TerrainExit ---------------------------
(* A small instance of MC_TerrainManager, closed at any frame.             *)
EXTENDS TerrainExit

East == {<<1, 0>>}
=============================================================================
