----------------------------- MODULE ChunkWalk ------------------------------
(***************************************************************************)
(* The order in which TerrainManager::GenerateChunks visits the chunks     *)
(* around the player (Terrain/TerrainManager.cpp): rings of growing        *)
(* radius, each walked along its four sides by ShiftChunkCoords.  A walk   *)
(* is the record of the loop variables: the ring i, the step j in it, the  *)
(* offset (x, z) from the current chunk, the side being walked (`state')   *)
(* and chunkIndex, the slot the next chunk goes to.                        *)
(***************************************************************************)
EXTENDS Integers

GeneratorState == {"ZIncXDec", "ZDecXDec", "ZDecXInc", "ZIncXInc"}

OneTooMany(i) == IF i = 0 THEN 1 ELSE i * 4 + 1
ChunksInRadius(i) == IF i = 0 THEN 1 ELSE i * 4

RingStart(i, slot) == [i |-> i, j |-> 0, x |-> i, z |-> 0,
                       state |-> "ZIncXDec", chunkIndex |-> slot]

XStep == [s \in GeneratorState |->
            IF s \in {"ZIncXDec", "ZDecXDec"} THEN -1 ELSE 1]
ZStep == [s \in GeneratorState |->
            IF s \in {"ZIncXDec", "ZIncXInc"} THEN 1 ELSE -1]
NextState == [ZIncXDec |-> "ZDecXDec", ZDecXDec |-> "ZDecXInc",
              ZDecXInc |-> "ZIncXInc", ZIncXInc |-> "ZIncXDec"]

(* A side ends where the coordinate that was shrinking in size reaches 0.  *)
TurnsSwapped(s, x, z) == IF s \in {"ZIncXDec", "ZDecXInc"} THEN z = 0 ELSE x = 0
Turns(s, x, z) == IF s \in {"ZIncXDec", "ZDecXInc"} THEN x = 0 ELSE z = 0

ShiftChunkCoords(xChunk, zChunk, state) ==
    LET x == xChunk + XStep[state]
        z == zChunk + ZStep[state]
    IN  [x |-> x, z |-> z,
         state |-> IF Turns(state, x, z) THEN NextState[state] ELSE state]

CalculateChunkCount[radius \in Nat] ==
    IF radius = 0 THEN 1 ELSE radius * 4 + CalculateChunkCount[radius - 1]

(* The end of the inner loop's body, and the outer loop's next ring.       *)
NextSlot(w) ==
    LET s == ShiftChunkCoords(w.x, w.z, w.state)
    IN  IF w.j + 1 < ChunksInRadius(w.i)
        THEN [i |-> w.i, j |-> w.j + 1, x |-> s.x, z |-> s.z,
              state |-> s.state, chunkIndex |-> w.chunkIndex + 1]
        ELSE RingStart(w.i + 1, w.chunkIndex + 1)

(* The slots whose chunks Update's picking looks at.                       *)
PickedSlots == 0 .. 3

(* How many steps an offset is away from the player's chunk.               *)
AbsOf(n) == IF n < 0 THEN -n ELSE n
Norm(p) == AbsOf(p[1]) + AbsOf(p[2])
=============================================================================
