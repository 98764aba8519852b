--------------------------- MODULE MC_GreedyMesh ----------------------------
(* A small chunk, with corners of one height, and opposite columns of one  *)
(* height along Z.  A high column beside a low one has a voxel whose only  *)
(* visible face is on its side.                                            *)
EXTENDS GreedyMesh

Corners == {0, 2} \X {0, 2}
SomeHeightMaps == {h \in [(0 .. 2) \X (0 .. 2) -> {2, 4}] :
                       /\ \A c \in Corners : h[c] = 2
                       /\ h[<<1, 0>>] = h[<<1, 2>>]}
=============================================================================
