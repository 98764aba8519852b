----------------------------- MODULE PlaneScan -----------------------------
(***************************************************************************)
(* One pass of greedy meshing (Terrain/Chunk.cpp, ProcessPlaneX, Y and Z): *)
(* three nested loops over a box of voxels, which join the voxels of one   *)
(* type along the innermost axis to quads.  The three functions differ in  *)
(* the axes they loop over only, so the box has an outer, a middle and an  *)
(* inner size, and a cell is named by its three loop variables.  The shift *)
(* added to every start is the same for the whole pass and left to         *)
(* GreedyMesh, as is the height of a quad, always 1.                       *)
(***************************************************************************)
EXTENDS Integers, Sequences

CONSTANTS Outer, Middle, Inner   \* the sizes of the box

ASSUME BoxAssumption == Outer \in Nat /\ Middle \in Nat \ {0} /\ Inner \in Nat

VARIABLES voxels,          \* the array that is read
          at,              \* the three loop variables
          quadProcessing,  \* is a quad open on this line?
          q,               \* the open quad
          resultQuads      \* the quads closed so far

scanVars == <<at, quadProcessing, q, resultQuads>>
vars == <<voxels, at, quadProcessing, q, resultQuads>>

VoxelType == {"Air", "Bedrock", "Stone", "Unknown"}
Cells == (0 .. Outer - 1) \X (0 .. Middle - 1) \X (0 .. Inner - 1)
Quad == [start : Nat \X Nat \X Nat, w : Nat, v : VoxelType]

Solid(vox) == vox \notin {"Air", "Unknown"}
Single(cell) == [start |-> cell, w |-> 1, v |-> voxels[cell]]

(* q is a local without a value before the first quad is begun.            *)
Reset == /\ at = <<0, 0, 0>>
         /\ quadProcessing = FALSE
         /\ q = [start |-> <<0, 0, 0>>, w |-> 0, v |-> "Air"]
         /\ resultQuads = <<>>

(* Unknown is an answer of GetVoxel, never stored in a chunk.              *)
Init == voxels \in [Cells -> VoxelType \ {"Unknown"}] /\ Reset

InLine == at[1] < Outer /\ at[3] < Inner
NextInLine == at' = <<at[1], at[2], at[3] + 1>>
Push(quad) == resultQuads' = Append(resultQuads, quad)

Begin == /\ InLine /\ Solid(voxels[at]) /\ ~quadProcessing
         /\ q' = Single(at)
         /\ quadProcessing' = TRUE
         /\ NextInLine
         /\ UNCHANGED resultQuads

AnyType == TRUE
PairsOnly == voxels[at] = q.v /\ q.w < 2
SameType == voxels[at] = q.v

Extend == /\ InLine /\ Solid(voxels[at]) /\ quadProcessing /\ SameType
          /\ q' = [q EXCEPT !.w = @ + 1]
          /\ NextInLine
          /\ UNCHANGED <<quadProcessing, resultQuads>>

Split == /\ InLine /\ Solid(voxels[at]) /\ quadProcessing /\ ~SameType
         /\ Push(q)
         /\ q' = Single(at)
         /\ NextInLine
         /\ UNCHANGED quadProcessing

CloseAtAir == /\ InLine /\ ~Solid(voxels[at]) /\ quadProcessing
              /\ Push(q)
              /\ quadProcessing' = FALSE
              /\ NextInLine
              /\ UNCHANGED q

SkipAir == /\ InLine /\ ~Solid(voxels[at]) /\ ~quadProcessing
           /\ NextInLine
           /\ UNCHANGED <<quadProcessing, q, resultQuads>>

CloseNothing == UNCHANGED resultQuads
CloseAtEnd == IF quadProcessing THEN Push(q) ELSE UNCHANGED resultQuads

LineTooMany == IF at[2] + 1 <= Middle THEN <<at[1], at[2] + 1, 0>>
               ELSE <<at[1] + 1, 0, 0>>
NextLine == IF at[2] + 1 < Middle THEN <<at[1], at[2] + 1, 0>>
            ELSE <<at[1] + 1, 0, 0>>

(* The line ends; the next one, if any, begins with no quad open.          *)
EndLine == /\ at[1] < Outer /\ at[3] = Inner
           /\ CloseAtEnd
           /\ quadProcessing' = FALSE
           /\ at' = NextLine
           /\ UNCHANGED q

Finished == at[1] = Outer

Scan == Begin \/ Extend \/ Split \/ CloseAtAir \/ SkipAir \/ EndLine

Next == Scan /\ UNCHANGED voxels

Spec == Init /\ [][Next]_vars

-----------------------------------------------------------------------------
(* Cell c belongs to quad b.                                               *)
InQuad(c, b) == /\ c[1] = b.start[1] /\ c[2] = b.start[2]
                /\ b.start[3] <= c[3] /\ c[3] < b.start[3] + b.w

Closed == DOMAIN resultQuads
OneLine(a, b) == a.start[1] = b.start[1] /\ a.start[2] = b.start[2]
End(b) == b.start[3] + b.w

(* Every variable has its type and the loops stay in the box.              *)
TypeOK == /\ voxels \in [Cells -> VoxelType]
          /\ at \in (0 .. Outer) \X (0 .. Middle - 1) \X (0 .. Inner)
          /\ quadProcessing \in BOOLEAN
          /\ q \in Quad
          /\ resultQuads \in Seq(Quad)

(* A quad shows only what is there: each cell under a closed quad is solid *)
(* and of the quad's type, whatever lines and types the scan went through. *)
QuadsShowVoxels ==
    \A i \in Closed : \A c \in Cells :
        InQuad(c, resultQuads[i])
            => Solid(voxels[c]) /\ voxels[c] = resultQuads[i].v

(* A finished pass has put every solid cell into one quad, and into one    *)
(* only: no face of the mesh is missing and none is drawn twice.           *)
SolidCellsOnce ==
    Finished =>
        \A c \in Cells : Solid(voxels[c]) =>
            \E i \in Closed : /\ InQuad(c, resultQuads[i])
                              /\ \A j \in Closed : InQuad(c, resultQuads[j]) => j = i

(* The pass is greedy: two neighbours of one type on a line are never left *)
(* in different quads.                                                     *)
QuadsMaximal ==
    \A i, j \in Closed :
        OneLine(resultQuads[i], resultQuads[j])
          /\ End(resultQuads[i]) = resultQuads[j].start[3]
        => resultQuads[i].v # resultQuads[j].v
=============================================================================
