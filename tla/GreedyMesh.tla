----------------------------- MODULE GreedyMesh -----------------------------
(***************************************************************************)
(* From voxels to triangles (Terrain/Chunk.cpp): Generate fills a chunk    *)
(* from a height map, the player turns voxels to bedrock, and after each   *)
(* of these GenerateVBOGreedy builds mVerts: it culls the voxels nobody    *)
(* can see, scans the rest six times with PlaneScan, once for each side of *)
(* a voxel, and pushes two triangles for each quad.  GenerateVBONaive and  *)
(* the geometry shader it relies on are here as the reference to compare   *)
(* with.  Coordinates of vertices are doubled: a voxel is 2 wide, and the  *)
(* shifts of +/- 0.5 in the code are 1.                                    *)
(***************************************************************************)
EXTENDS Integers, Sequences, FiniteSets, SequencesExt

CONSTANTS SizeX, SizeY, SizeZ,   \* CHUNK_X, CHUNK_Y, CHUNK_Z
          BedrockY,              \* the layers of bedrock
          StoneY,                \* CHUNK_Y / 4
          MeshedY,               \* CHUNK_Y / 4 + HEIGHTMAP_HEIGHT
          HeightMaps,            \* the terrains to try
          MaxEdits               \* how often the player changes a voxel

Columns == (0 .. SizeX - 1) \X (0 .. SizeZ - 1)

ASSUME MeshAssumption ==
    /\ {SizeX, SizeY, SizeZ, BedrockY, StoneY, MeshedY} \subseteq Nat \ {0}
    /\ BedrockY <= StoneY /\ StoneY < MeshedY /\ MeshedY <= SizeY
    /\ HeightMaps \subseteq [Columns -> StoneY + 1 .. MeshedY]
    /\ MaxEdits \in Nat

VARIABLES mVoxels,       \* the chunk, a one-dimensional array
          pass,          \* 0: cull; 1 to 6: a ProcessPlane call; 7: push; 8: done
          voxelsCulled,  \* the voxels left to show
          at, quadProcessing, q, resultQuads,    \* of the current ProcessPlane
          quads,         \* the vectors filled by the finished calls
          mVerts,
          edits          \* how often a voxel was changed

scanVars == <<at, quadProcessing, q, resultQuads>>
vars == <<mVoxels, pass, voxelsCulled, at, quadProcessing, q, resultQuads,
          quads, mVerts, edits>>

VoxelType == {"Air", "Bedrock", "Stone", "Unknown"}
Box == (0 .. SizeX - 1) \X (0 .. SizeY - 1) \X (0 .. SizeZ - 1)
Indices == 0 .. SizeX * SizeY * SizeZ - 1

CalculateIndex(x, y, z) == x * SizeY * SizeZ + y * SizeZ + z

(* The test lets a coordinate that equals the size through.                *)
GetVoxel(x, y, z) == IF x > SizeX \/ y > SizeY \/ z > SizeZ THEN "Unknown"
                     ELSE mVoxels[CalculateIndex(x, y, z)]

CellAt(i) == <<i \div (SizeY * SizeZ), (i \div SizeZ) % SizeY, i % SizeZ>>

(* Stages 0 to 4 of Generate: stone up to the height of the column, then   *)
(* bedrock over the lowest layers.                                         *)
Generated(height) ==
    [i \in Indices |->
        LET c == CellAt(i) IN
        IF c[2] < BedrockY THEN "Bedrock"
        ELSE IF c[2] < height[<<c[1], c[3]>>] THEN "Stone" ELSE "Air"]

-----------------------------------------------------------------------------
OnBorder(x, y, z) == \/ x = 0 \/ x = SizeX - 1
                     \/ y = 0 \/ y = SizeY - 1
                     \/ z = 0 \/ z = SizeZ - 1

Plus(a, b) == <<a[1] + b[1], a[2] + b[2], a[3] + b[3]>>
Minus(a, b) == <<a[1] - b[1], a[2] - b[2], a[3] - b[3]>>

Directions == {<<1, 0, 0>>, <<-1, 0, 0>>, <<0, 1, 0>>, <<0, -1, 0>>,
               <<0, 0, 1>>, <<0, 0, -1>>}

NeighbourOf(c, d) == GetVoxel(c[1] + d[1], c[2] + d[2], c[3] + d[3])

HiddenBelow(c) == NeighbourOf(c, <<0, 1, 0>>) # "Air"
Hidden(c) == \A d \in Directions : NeighbourOf(c, d) # "Air"

(* The first stage keeps the solid voxels that are on the border or touch  *)
(* air, below the height the terrain can reach.                            *)
Shown(c) == /\ c[2] < MeshedY
            /\ GetVoxel(c[1], c[2], c[3]) \notin {"Air", "Unknown"}
            /\ OnBorder(c[1], c[2], c[3]) \/ ~Hidden(c)

Cull == /\ pass = 0
        /\ voxelsCulled' = [i \in Indices |-> IF Shown(CellAt(i)) THEN mVoxels[i]
                                              ELSE "Air"]
        /\ pass' = 1
        /\ UNCHANGED <<mVoxels, scanVars, quads, mVerts, edits>>

(* The six calls: the axis of the plane, the shift, and the normal that    *)
(* goes with the quads.                                                    *)
Side(axis, shift, normal) == [axis |-> axis, shift |-> shift, normal |-> normal]
Sides == << Side("X", << 1, -1, -1>>, << 1,  0,  0>>),
            Side("X", <<-1, -1, -1>>, <<-1,  0,  0>>),
            Side("Y", <<-1, -1, -1>>, << 0,  1,  0>>),
            Side("Y", <<-1,  1, -1>>, << 0, -1,  0>>),
            Side("Z", <<-1, -1,  1>>, << 0,  0,  1>>),
            Side("Z", <<-1, -1, -1>>, << 0,  0, -1>>) >>

ScanX == INSTANCE PlaneScan WITH Outer <- SizeX, Middle <- MeshedY, Inner <- SizeZ,
    voxels <- [c \in (0 .. SizeX - 1) \X (0 .. MeshedY - 1) \X (0 .. SizeZ - 1) |->
                  voxelsCulled[CalculateIndex(c[1], c[2], c[3])]]
ScanY == INSTANCE PlaneScan WITH Outer <- MeshedY, Middle <- SizeZ, Inner <- SizeX,
    voxels <- [c \in (0 .. MeshedY - 1) \X (0 .. SizeZ - 1) \X (0 .. SizeX - 1) |->
                  voxelsCulled[CalculateIndex(c[3], c[1], c[2])]]
ScanZ == INSTANCE PlaneScan WITH Outer <- SizeZ, Middle <- MeshedY, Inner <- SizeX,
    voxels <- [c \in (0 .. SizeZ - 1) \X (0 .. MeshedY - 1) \X (0 .. SizeX - 1) |->
                  voxelsCulled[CalculateIndex(c[3], c[2], c[1])]]

ProcessPlane == /\ pass \in 1 .. 6
                /\ CASE Sides[pass].axis = "X" -> ScanX!Scan
                     [] Sides[pass].axis = "Y" -> ScanY!Scan
                     [] Sides[pass].axis = "Z" -> ScanZ!Scan
                /\ UNCHANGED <<mVoxels, pass, voxelsCulled, quads, mVerts, edits>>

PlaneFinished == CASE Sides[pass].axis = "X" -> ScanX!Finished
                   [] Sides[pass].axis = "Y" -> ScanY!Finished
                   [] Sides[pass].axis = "Z" -> ScanZ!Finished

(* A call returns; the next one has locals of its own.                     *)
NextPass == /\ pass \in 1 .. 6 /\ PlaneFinished
            /\ quads' = [quads EXCEPT ![pass] = resultQuads]
            /\ pass' = pass + 1
            /\ at' = <<0, 0, 0>> /\ quadProcessing' = FALSE
            /\ q' = [start |-> <<0, 0, 0>>, w |-> 0, v |-> "Air"]
            /\ resultQuads' = <<>>
            /\ UNCHANGED <<mVoxels, voxelsCulled, mVerts, edits>>

-----------------------------------------------------------------------------
(* Where the loop variables of a pass put a cell.                          *)
CellOf(axis, c) == CASE axis = "X" -> c
                     [] axis = "Y" -> <<c[3], c[1], c[2]>>
                     [] axis = "Z" -> <<c[3], c[2], c[1]>>

StartOf(quad, side) ==
    LET c == CellOf(side.axis, quad.start)
    IN  Plus(<<2 * c[1], 2 * c[2], 2 * c[3]>>, side.shift)

FlipX(n) == n[1] = -1 \/ n[2] = -1 \/ n[3] = -1
Flip(n) == n[1] = 1 \/ n[2] = -1 \/ n[3] = -1

(* The six vertices of a quad: two triangles that share v1 and v2.         *)
VertsOf(quad, side) ==
    LET n == side.normal
        w == IF n[1] # 0 THEN <<0, 0, 2 * quad.w>> ELSE <<2 * quad.w, 0, 0>>
        h == IF n[2] # 0 THEN <<0, 0, 2>> ELSE <<0, 2, 0>>
        v0 == StartOf(quad, side)
        v1 == Plus(v0, w)
        v2 == Plus(v0, h)
        v3 == Plus(v1, h)
        order == IF Flip(n) THEN <<v0, v2, v1, v1, v2, v3>>
                 ELSE <<v0, v1, v2, v2, v1, v3>>
    IN  [k \in 1 .. 6 |-> [pos |-> order[k], norm |-> n, v |-> quad.v]]

VertsOfPass(p) == FlattenSeq([k \in 1 .. Len(quads[p]) |-> VertsOf(quads[p][k], Sides[p])])

AppendAgain(verts) == mVerts \o verts
FromEmpty(verts) == verts

(* mVerts was cleared when the meshing began, so only the new vertices are *)
(* in it; mState is Generated now.                                         *)
PushVertsFromQuads ==
    /\ pass = 7
    /\ mVerts' = FromEmpty(FlattenSeq([p \in 1 .. 6 |-> VertsOfPass(p)]))
    /\ pass' = 8
    /\ UNCHANGED <<mVoxels, voxelsCulled, scanVars, quads, edits>>

(* The player hits a voxel; it turns to bedrock and the mesh is rebuilt.   *)
PickVoxel == /\ pass = 8 /\ edits < MaxEdits
             /\ \E c \in Box :
                   /\ GetVoxel(c[1], c[2], c[3]) # "Air"
                   /\ mVoxels' = [mVoxels EXCEPT ![CalculateIndex(c[1], c[2], c[3])] = "Bedrock"]
             /\ edits' = edits + 1
             /\ pass' = 0
             /\ UNCHANGED <<voxelsCulled, scanVars, quads, mVerts>>

Init == /\ \E height \in HeightMaps : mVoxels = Generated(height)
        /\ pass = 0
        /\ voxelsCulled = [i \in Indices |-> "Air"]
        /\ at = <<0, 0, 0>> /\ quadProcessing = FALSE
        /\ q = [start |-> <<0, 0, 0>>, w |-> 0, v |-> "Air"]
        /\ resultQuads = <<>>
        /\ quads = [p \in 1 .. 6 |-> <<>>]
        /\ mVerts = <<>>
        /\ edits = 0

Next == Cull \/ ProcessPlane \/ NextPass \/ PushVertsFromQuads \/ PickVoxel

Spec == Init /\ [][Next]_vars

-----------------------------------------------------------------------------
(* The voxels GenerateVBONaive makes a point of, and the strips of four    *)
(* vertices the geometry shader makes of a point.                          *)
NaivePoints ==
    {c \in Box : /\ c[2] < MeshedY
                 /\ GetVoxel(c[1], c[2], c[3]) \notin {"Air", "Unknown"}
                 /\ \/ OnBorder(c[1], c[2], c[3])
                    \/ \E d \in Directions : NeighbourOf(c, d) = "Air"}

Strips == { << <<-1, 1,-1>>, <<-1, 1, 1>>, << 1, 1,-1>>, << 1, 1, 1>> >>,
            << << 1, 1,-1>>, << 1, 1, 1>>, << 1,-1,-1>>, << 1,-1, 1>> >>,
            << << 1,-1,-1>>, << 1,-1, 1>>, <<-1,-1,-1>>, <<-1,-1, 1>> >>,
            << <<-1,-1,-1>>, <<-1,-1, 1>>, <<-1, 1,-1>>, <<-1, 1, 1>> >>,
            << <<-1, 1, 1>>, <<-1,-1, 1>>, << 1, 1, 1>>, << 1,-1, 1>> >>,
            << <<-1, 1,-1>>, << 1, 1,-1>>, <<-1,-1,-1>>, << 1,-1,-1>> >> }

(* The triangles of strip s around the point at cell c.                    *)
PointVerts(c, s) ==
    LET v(k) == [pos |-> Plus(<<2 * c[1], 2 * c[2], 2 * c[3]>>, s[k]),
                 v |-> GetVoxel(c[1], c[2], c[3])]
    IN  <<v(1), v(2), v(3), v(3), v(2), v(4)>>

Cross(a, b) == <<a[2] * b[3] - a[3] * b[2],
                 a[3] * b[1] - a[1] * b[3],
                 a[1] * b[2] - a[2] * b[1]>>
Sign(n) == IF n > 0 THEN 1 ELSE IF n < 0 THEN -1 ELSE 0

(* The side from which a triangle runs counter-clockwise: the renderer     *)
(* culls triangles seen from the other side.                               *)
FrontOf(a, b, c) == LET n == Cross(Minus(b, a), Minus(c, a))
                    IN  <<Sign(n[1]), Sign(n[2]), Sign(n[3])>>

(* Six vertices are a rectangle with one front.                            *)
Rectangle(s) == /\ FrontOf(s[1].pos, s[2].pos, s[3].pos) \in Directions
                /\ FrontOf(s[4].pos, s[5].pos, s[6].pos)
                     = FrontOf(s[1].pos, s[2].pos, s[3].pos)
                /\ {s[4].pos, s[5].pos} = {s[2].pos, s[3].pos}
                /\ Plus(s[1].pos, s[6].pos) = Plus(s[2].pos, s[3].pos)

(* The faces of voxels that six vertices cover: the centre of each face,   *)
(* the side it is seen from, its type.                                     *)
FacesOf(s) ==
    LET front == FrontOf(s[1].pos, s[2].pos, s[3].pos)
        Span(axis) ==
            LET from == s[1].pos[axis]
                to == s[6].pos[axis]
                lo == IF from < to THEN from ELSE to
                hi == IF from < to THEN to ELSE from
            IN  IF front[axis] # 0 THEN {lo}
                ELSE {lo + 2 * k - 1 : k \in 1 .. (hi - lo) \div 2}
    IN  [at : Span(1) \X Span(2) \X Span(3), front : {front}, v : {s[1].v}]

Sixes == {SubSeq(mVerts, 6 * k - 5, 6 * k) : k \in 1 .. Len(mVerts) \div 6}
GreedyFaces == UNION {FacesOf(s) : s \in Sixes}
NaiveFaces == UNION {FacesOf(PointVerts(c, s)) : c \in NaivePoints, s \in Strips}

Done == pass = 8

(* GenerateVBOGreedy draws what GenerateVBONaive draws: the same faces,    *)
(* each of the right type and seen from the same side, none of them twice, *)
(* also after an edit (Chunk.cpp:646 and :532 say its shifts are there to  *)
(* match the naive mesh).                                                  *)
SameFacesAsNaive ==
    Done => /\ GreedyFaces = NaiveFaces
            /\ \A s \in Sixes : Rectangle(s)
            /\ Len(mVerts) = 6 * Cardinality(Sixes)
            /\ \A s, t \in Sixes : s # t => FacesOf(s) \cap FacesOf(t) = {}

(* Nobody looks through the terrain: wherever a solid voxel touches air or *)
(* the outside of the chunk there is a face, seen from out there.          *)
SurfaceClosed ==
    Done => \A c \in Box, d \in Directions :
        /\ GetVoxel(c[1], c[2], c[3]) # "Air"
        /\ Plus(c, d) \in Box => NeighbourOf(c, d) = "Air"
        => [at |-> Plus(<<2 * c[1], 2 * c[2], 2 * c[3]>>, d), front |-> d,
            v |-> GetVoxel(c[1], c[2], c[3])] \in GreedyFaces

(* CreateRotationMatrixY(pi) in the chunk's world matrix.                  *)
HalfTurn(d) == <<-d[1], d[2], -d[3]>>

Dot(a, b) == a[1] * b[1] + a[2] * b[2] + a[3] * b[3]

(* MainVS takes the light to run from the viewer to the face, and MainFS   *)
(* paints black unless its product with the normal is positive: so for a   *)
(* viewer anywhere before the face if it is so for one straight before it. *)
LitFromFront(norm, front) == Dot(norm, Minus(<<0, 0, 0>>, front)) > 0

(* A visible face is never black: although the shader takes the normals    *)
(* unturned and the chunk is turned by half a circle, the normal stored    *)
(* with each vertex lights the face for whoever sees its front.            *)
FacesLit ==
    Done => \A k \in 1 .. Len(mVerts) :
        LET first == k - ((k - 1) % 6)
            s == SubSeq(mVerts, first, first + 2)
        IN  LitFromFront(mVerts[k].norm,
                         HalfTurn(FrontOf(s[1].pos, s[2].pos, s[3].pos)))
=============================================================================
