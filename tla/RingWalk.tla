------------------------------ MODULE RingWalk ------------------------------
(***************************************************************************)
(* Filling the slots once (Terrain/TerrainManager.cpp): Init computes      *)
(* mChunkCount with the recursion of CalculateChunkCount and sizes mChunks *)
(* and the Renderer's array with it; GenerateChunks then walks the rings   *)
(* and writes slot after slot, with no bounds check.  That the two agree   *)
(* is what this module is about, for any radius.                           *)
(***************************************************************************)
EXTENDS ChunkWalk, Sequences

CONSTANT VisibleRadius

ASSUME RadiusAssumption == VisibleRadius \in Nat

VARIABLES phase,        \* "call" and "return" of the recursion, "walk", "done"
          radius,       \* the argument of the innermost call
          mChunkCount,  \* what that call returned
          walk,         \* the loop variables of GenerateChunks
          mChunks       \* the offset of the chunk in each slot written so far

vars == <<phase, radius, mChunkCount, walk, mChunks>>

Init == /\ phase = "call"
        /\ radius = VisibleRadius
        /\ mChunkCount = 0
        /\ walk = RingStart(0, 0)
        /\ mChunks = <<>>

CountCall == /\ phase = "call" /\ radius > 0
             /\ radius' = radius - 1
             /\ UNCHANGED <<phase, mChunkCount, walk, mChunks>>

CountBase == /\ phase = "call" /\ radius = 0
             /\ phase' = "return"
             /\ mChunkCount' = 1
             /\ UNCHANGED <<radius, walk, mChunks>>

RingTooSmall(r, rest) == r * 4 - 1 + rest
RingAndInner(r, rest) == r * 4 + rest

CountReturn == /\ phase = "return" /\ radius < VisibleRadius
               /\ radius' = radius + 1
               /\ mChunkCount' = RingAndInner(radius + 1, mChunkCount)
               /\ UNCHANGED <<phase, walk, mChunks>>

StartWalk == /\ phase = "return" /\ radius = VisibleRadius
             /\ phase' = "walk"
             /\ UNCHANGED <<radius, mChunkCount, walk, mChunks>>

Place == /\ phase = "walk" /\ walk.i <= VisibleRadius
         /\ mChunks' = Append(mChunks, <<walk.x, walk.z>>)
         /\ walk' = NextSlot(walk)
         /\ UNCHANGED <<phase, radius, mChunkCount>>

EndWalk == /\ phase = "walk" /\ walk.i > VisibleRadius
           /\ phase' = "done"
           /\ UNCHANGED <<radius, mChunkCount, walk, mChunks>>

Next == CountCall \/ CountBase \/ CountReturn \/ StartWalk \/ Place \/ EndWalk

Spec == Init /\ [][Next]_vars

-----------------------------------------------------------------------------
Placed == {mChunks[n] : n \in 1 .. Len(mChunks)}

(* Every variable has its type.                                            *)
TypeOK == /\ phase \in {"call", "return", "walk", "done"}
          /\ radius \in 0 .. VisibleRadius
          /\ mChunkCount \in Nat
          /\ walk \in [i : Nat, j : Nat, x : Int, z : Int,
                       state : GeneratorState, chunkIndex : Nat]
          /\ mChunks \in Seq(Int \X Int)

(* GenerateChunks never writes past the arrays sized by                    *)
(* CalculateChunkCount: chunkIndex stays below mChunkCount at every write. *)
SlotsFit == phase = "walk" /\ walk.i <= VisibleRadius
              => walk.chunkIndex < mChunkCount /\ walk.chunkIndex = Len(mChunks)

(* No chunk is visited twice: two slots never show the same chunk, so no   *)
(* chunk is queued for generation twice in one pass.                       *)
SlotsDistinct == \A m, n \in 1 .. Len(mChunks) :
                     mChunks[m] = mChunks[n] => m = n

(* A finished pass has filled every slot (Update dereferences all of them) *)
(* and shows exactly the chunks within VisibleRadius steps of the player.  *)
DiamondFilled ==
    phase = "done" =>
      /\ Len(mChunks) = mChunkCount
      /\ \A x, z \in -VisibleRadius .. VisibleRadius :
             <<x, z>> \in Placed <=> Norm(<<x, z>>) <= VisibleRadius

(* "Use picking on center chunk and adjacent ones": these five are in the  *)
(* first five slots, and Update reads no other chunk.  It does not read    *)
(* them all, though it says "each out of 5 middle chunks": the loop's four *)
(* slots leave out the one that the walk comes to last, which is the same  *)
(* neighbour of the player's chunk in every pass                           *)
(* (Terrain/TerrainManager.cpp:72, 84, 86).                                *)
Missed == <<0, -1>>
MiddlePickedButOne ==
    \A n \in 1 .. Len(mChunks) :
        /\ n \in 1 .. 5 <=> Norm(mChunks[n]) <= 1
        /\ n - 1 \in PickedSlots <=> Norm(mChunks[n]) <= 1 /\ mChunks[n] # Missed
=============================================================================
