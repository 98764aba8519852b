-------------------------- MODULE GreedyMeshProofs --------------------------
(***************************************************************************)
(* Proofs about GreedyMesh for chunks of any size, any terrain and any     *)
(* edits.  MeshInv says that each finished pass covers every voxel that    *)
(* can be seen once, which comes from PlaneScanProofs, instantiated for    *)
(* the three axes.  The rest is geometry: what faces the vertices of a     *)
(* quad cover, and what faces the strips of the geometry shader cover.     *)
(* FlattenSeq is taken apart by the least-number principle.                *)
(***************************************************************************)
EXTENDS GreedyMesh, SequenceTheorems, FiniteSetTheorems, WellFoundedInduction, TLAPS

(* The array: CalculateIndex gives each cell of the box an entry of its    *)
(* own.                                                                    *)

LEMMA SizesPositive ==
    /\ SizeX \in Nat /\ SizeY \in Nat /\ SizeZ \in Nat
    /\ SizeX >= 1 /\ SizeY >= 1 /\ SizeZ >= 1
    /\ BedrockY < MeshedY /\ MeshedY \in Nat \ {0} /\ MeshedY <= SizeY
  BY MeshAssumption

(* Division with a remainder has one result.                               *)
LEMMA DivUnique ==
    ASSUME NEW b \in Nat, NEW m \in Nat, NEW r \in 0 .. b - 1
    PROVE  (m * b + r) \div b = m /\ (m * b + r) % b = r
<1> DEFINE n == m * b + r
           d == n \div b
           e == n % b
<1>0. b >= 1 OBVIOUS
<1>1. m * b \in Nat OBVIOUS
<1>2. n \in Nat BY <1>1
<1>3. d \in Nat /\ e \in 0 .. b - 1 /\ n = b * d + e BY <1>0, <1>2
<1>4. d = m
  <2>1. b * d + e = m * b + r BY <1>3
  <2>2. b * d \in Nat /\ b * m \in Nat /\ m * b = b * m BY <1>3
  <2> HIDE DEF d, e, n
  <2>3. CASE d >= m + 1
    <3>1. b * d >= b * (m + 1) BY <2>3, <1>3, <1>0
    <3>2. b * (m + 1) = b * m + b OBVIOUS
    <3> QED BY <3>1, <3>2, <2>1, <2>2, <1>3
  <2>4. CASE m >= d + 1
    <3>1. b * m >= b * (d + 1) BY <2>4, <1>3, <1>0
    <3>2. b * (d + 1) = b * d + b BY <1>3
    <3> QED BY <3>1, <3>2, <2>1, <2>2, <1>3
  <2> QED BY <2>3, <2>4, <1>3
<1>5. e = r
  <2>1. b * d = m * b BY <1>4
  <2> QED BY <2>1, <1>3, <1>1
<1> QED BY <1>4, <1>5

LEMMA BoxNumbers ==
    ASSUME NEW c \in Box
    PROVE  /\ c = <<c[1], c[2], c[3]>>
           /\ c[1] \in 0 .. SizeX - 1 /\ c[2] \in 0 .. SizeY - 1 /\ c[3] \in 0 .. SizeZ - 1
  BY DEF Box

(* CalculateIndex loses nothing: the array has one entry for each voxel.   *)
LEMMA IndexOfCell ==
    ASSUME NEW x \in 0 .. SizeX - 1, NEW y \in 0 .. SizeY - 1, NEW z \in 0 .. SizeZ - 1
    PROVE  /\ CalculateIndex(x, y, z) \in Indices
           /\ CellAt(CalculateIndex(x, y, z)) = <<x, y, z>>
<1> DEFINE n == CalculateIndex(x, y, z)
           line == x * SizeY + y
<1>1. /\ SizeX \in Nat /\ SizeY \in Nat /\ SizeZ \in Nat
      /\ SizeX >= 1 /\ SizeY >= 1 /\ SizeZ >= 1
  BY SizesPositive
<1>2. x \in Nat /\ y \in Nat /\ z \in Nat BY <1>1
<1>3. line \in Nat /\ x * SizeY \in Nat /\ line * SizeZ \in Nat BY <1>1, <1>2
<1>4. n = line * SizeZ + z
  <2>1. (x * SizeY + y) * SizeZ = x * SizeY * SizeZ + y * SizeZ BY <1>1, <1>2
  <2> QED BY <2>1 DEF CalculateIndex
<1>5. n \div SizeZ = line /\ n % SizeZ = z
  <2> HIDE DEF n, line
  <2> QED BY <1>4, <1>3, <1>1, DivUnique
<1>6. line \div SizeY = x /\ line % SizeY = y
  BY <1>2, <1>1, DivUnique
<1>7. n \div (SizeY * SizeZ) = x
  <2> DEFINE r == y * SizeZ + z
  <2>1. SizeY * SizeZ \in Nat BY <1>1
  <2>2. r \in Nat BY <1>1, <1>2
  <2>3. r < SizeY * SizeZ
    <3>1. y * SizeZ <= (SizeY - 1) * SizeZ BY <1>1, <1>2
    <3>2. (SizeY - 1) * SizeZ = SizeY * SizeZ - SizeZ BY <1>1
    <3>3. y * SizeZ \in Nat BY <1>1, <1>2
    <3> DEFINE a == y * SizeZ
               b == SizeY * SizeZ
    <3>4. a <= b - SizeZ BY <3>1, <3>2
    <3>5. a \in Nat /\ b \in Nat BY <3>3, <2>1
    <3> HIDE DEF a, b
    <3>6. a + z < b BY <3>4, <3>5, <1>1, <1>2
    <3> QED BY <3>6 DEF a, b
  <2>4. n = x * (SizeY * SizeZ) + r
    <3>1. x * SizeY * SizeZ = x * (SizeY * SizeZ) BY <1>1, <1>2
    <3>2. x * (SizeY * SizeZ) \in Nat /\ y * SizeZ \in Nat BY <1>1, <1>2
    <3> QED BY <3>1, <3>2, <1>2 DEF CalculateIndex
  <2> HIDE DEF n, r
  <2>5. r \in 0 .. SizeY * SizeZ - 1 BY <2>1, <2>2, <2>3
  <2> QED BY <2>1, <2>4, <2>5, <1>2, DivUnique
<1>8. n \in Indices
  <2>1. n \in Nat BY <1>4, <1>3, <1>2
  <2>2. line + 1 <= SizeX * SizeY
    <3>1. x * SizeY <= (SizeX - 1) * SizeY BY <1>1, <1>2
    <3>2. (SizeX - 1) * SizeY = SizeX * SizeY - SizeY BY <1>1
    <3>3. SizeX * SizeY \in Nat BY <1>1
    <3> QED BY <3>1, <3>2, <3>3, <1>1, <1>2, <1>3
  <2>3. (line + 1) * SizeZ <= SizeX * SizeY * SizeZ
    <3>1. SizeX * SizeY \in Nat BY <1>1
    <3> HIDE DEF line
    <3> QED BY <2>2, <3>1, <1>1, <1>3
  <2>4. (line + 1) * SizeZ = line * SizeZ + SizeZ BY <1>1, <1>3
  <2>5. SizeX * SizeY * SizeZ \in Nat BY <1>1
  <2> HIDE DEF n, line
  <2>6. n < SizeX * SizeY * SizeZ BY <2>3, <2>4, <2>5, <1>4, <1>3, <1>2, <1>1
  <2> QED BY <2>1, <2>5, <2>6 DEF Indices
<1> QED BY <1>5, <1>6, <1>7, <1>8 DEF CellAt

-----------------------------------------------------------------------------
(* Two triangles of a parallelogram have one front, the normal of its      *)
(* edges.                                                                  *)

Int3 == Int \X Int \X Int

(* Six vertices are the two triangles of a parallelogram: a corner, its    *)
(* neighbours along u and t, and the corner across.                        *)
Parallelogram(s, a, u, t) ==
    /\ s[1].pos = a
    /\ s[2].pos = Plus(a, u) /\ s[5].pos = Plus(a, u)
    /\ s[3].pos = Plus(a, t) /\ s[4].pos = Plus(a, t)
    /\ s[6].pos = Plus(a, Plus(u, t))

Normal(u, t) == LET n == Cross(u, t) IN <<Sign(n[1]), Sign(n[2]), Sign(n[3])>>

LEMMA Triples ==
    ASSUME NEW a \in Int3
    PROVE  a = <<a[1], a[2], a[3]>> /\ a[1] \in Int /\ a[2] \in Int /\ a[3] \in Int
  BY DEF Int3

LEMMA CornersFront ==
    ASSUME NEW s, NEW a \in Int3, NEW u \in Int3, NEW t \in Int3, Parallelogram(s, a, u, t)
    PROVE  /\ FrontOf(s[1].pos, s[2].pos, s[3].pos) = Normal(u, t)
           /\ FrontOf(s[4].pos, s[5].pos, s[6].pos) = Normal(u, t)
           /\ {s[4].pos, s[5].pos} = {s[2].pos, s[3].pos}
           /\ Plus(s[1].pos, s[6].pos) = Plus(s[2].pos, s[3].pos)
<1>1. /\ a = <<a[1], a[2], a[3]>> /\ a[1] \in Int /\ a[2] \in Int /\ a[3] \in Int
      /\ u = <<u[1], u[2], u[3]>> /\ u[1] \in Int /\ u[2] \in Int /\ u[3] \in Int
      /\ t = <<t[1], t[2], t[3]>> /\ t[1] \in Int /\ t[2] \in Int /\ t[3] \in Int
  BY Triples
<1>2. Minus(s[2].pos, s[1].pos) = u /\ Minus(s[3].pos, s[1].pos) = t
  BY <1>1 DEF Parallelogram, Plus, Minus
<1>3. Minus(s[5].pos, s[4].pos) = <<u[1] - t[1], u[2] - t[2], u[3] - t[3]>>
  BY <1>1 DEF Parallelogram, Plus, Minus
<1>4. Minus(s[6].pos, s[4].pos) = u
  BY <1>1 DEF Parallelogram, Plus, Minus
<1>5. Cross(<<u[1] - t[1], u[2] - t[2], u[3] - t[3]>>, u) = Cross(u, t)
  <2>1. \A b, c, d, e \in Int : (b - d) * c - (c - e) * b = b * e - c * d
    OBVIOUS
  <2> QED BY <2>1, <1>1 DEF Cross
<1>6. FrontOf(s[1].pos, s[2].pos, s[3].pos) = Normal(u, t)
  BY <1>2 DEF FrontOf, Normal
<1>7. FrontOf(s[4].pos, s[5].pos, s[6].pos) = Normal(u, t)
  BY <1>3, <1>4, <1>5 DEF FrontOf, Normal
<1>8. Plus(s[1].pos, s[6].pos) = Plus(s[2].pos, s[3].pos)
  BY <1>1 DEF Parallelogram, Plus
<1> QED BY <1>6, <1>7, <1>8 DEF Parallelogram

-----------------------------------------------------------------------------
(* The vertices of a quad: a corner, a long edge, and an edge of one       *)
(* voxel.                                                                  *)

Quad == [start : Nat \X Nat \X Nat, w : Nat, v : VoxelType]

LEMMA QuadFields ==
    ASSUME NEW b \in Quad
    PROVE  /\ b.start = <<b.start[1], b.start[2], b.start[3]>>
           /\ b.start[1] \in Nat /\ b.start[2] \in Nat /\ b.start[3] \in Nat
           /\ b.w \in Nat /\ b.v \in VoxelType
<1>1. b.start \in Nat \X Nat \X Nat /\ b.w \in Nat /\ b.v \in VoxelType BY DEF Quad
<1> QED BY <1>1

(* The side from which the quads of a pass are seen.                       *)
Fronts == << << 1,  0,  0>>, <<-1,  0,  0>>, << 0, -1,  0>>,
             << 0,  1,  0>>, << 0,  0,  1>>, << 0,  0, -1>> >>

Long(p, w) == IF p \in {1, 2} THEN <<0, 0, 2 * w>> ELSE <<2 * w, 0, 0>>
Short(p) == IF p \in {3, 4} THEN <<0, 0, 2>> ELSE <<0, 2, 0>>
EdgeU(p, w) == IF p \in {1, 4, 6} THEN Short(p) ELSE Long(p, w)
EdgeT(p, w) == IF p \in {1, 4, 6} THEN Long(p, w) ELSE Short(p)

LEMMA SidesListed ==
    /\ Sides[1] = Side("X", << 1, -1, -1>>, << 1,  0,  0>>)
    /\ Sides[2] = Side("X", <<-1, -1, -1>>, <<-1,  0,  0>>)
    /\ Sides[3] = Side("Y", <<-1, -1, -1>>, << 0,  1,  0>>)
    /\ Sides[4] = Side("Y", <<-1,  1, -1>>, << 0, -1,  0>>)
    /\ Sides[5] = Side("Z", <<-1, -1,  1>>, << 0,  0,  1>>)
    /\ Sides[6] = Side("Z", <<-1, -1, -1>>, << 0,  0, -1>>)
  BY DEF Sides

LEMMA CellOfInt ==
    ASSUME NEW axis \in {"X", "Y", "Z"}, NEW c, c[1] \in Int, c[2] \in Int, c[3] \in Int,
           c = <<c[1], c[2], c[3]>>
    PROVE  /\ CellOf(axis, c) \in Int3
           /\ CellOf(axis, c) = CASE axis = "X" -> <<c[1], c[2], c[3]>>
                                  [] axis = "Y" -> <<c[3], c[1], c[2]>>
                                  [] axis = "Z" -> <<c[3], c[2], c[1]>>
  BY DEF CellOf, Int3

LEMMA SixEntries ==
    ASSUME NEW o, NEW n, NEW v
    PROVE  LET s == [k \in 1 .. 6 |-> [pos |-> o[k], norm |-> n, v |-> v]]
           IN  /\ s[1].pos = o[1] /\ s[2].pos = o[2] /\ s[3].pos = o[3]
               /\ s[4].pos = o[4] /\ s[5].pos = o[5] /\ s[6].pos = o[6]
               /\ \A k \in 1 .. 6 : s[k].norm = n /\ s[k].v = v
  OBVIOUS

LEMMA VertsCorners ==
    ASSUME NEW p \in 1 .. 6, NEW b \in Quad
    PROVE  LET s == VertsOf(b, Sides[p])
               a == StartOf(b, Sides[p])
           IN  /\ a \in Int3
               /\ Parallelogram(s, a, EdgeU(p, b.w), EdgeT(p, b.w))
               /\ EdgeU(p, b.w) \in Int3 /\ EdgeT(p, b.w) \in Int3
               /\ \A k \in 1 .. 6 : s[k].norm = Sides[p].normal /\ s[k].v = b.v
               /\ Normal(EdgeU(p, b.w), EdgeT(p, b.w))
                    = IF b.w >= 1 THEN Fronts[p] ELSE <<0, 0, 0>>
<1> DEFINE side == Sides[p]
           n == side.normal
           w == IF n[1] # 0 THEN <<0, 0, 2 * b.w>> ELSE <<2 * b.w, 0, 0>>
           h == IF n[2] # 0 THEN <<0, 0, 2>> ELSE <<0, 2, 0>>
           v0 == StartOf(b, side)
           v1 == Plus(v0, w)
           v2 == Plus(v0, h)
           v3 == Plus(v1, h)
           order == IF Flip(n) THEN <<v0, v2, v1, v1, v2, v3>>
                    ELSE <<v0, v1, v2, v2, v1, v3>>
           s == VertsOf(b, side)
<1>1. b.w \in Nat BY QuadFields
<1>2. w = Long(p, b.w) /\ h = Short(p) /\ (Flip(n) <=> p \in {1, 4, 6})
  <2>1. p = 1 \/ p = 2 \/ p = 3 \/ p = 4 \/ p = 5 \/ p = 6 OBVIOUS
  <2>2. n = IF p = 1 THEN << 1,  0,  0>> ELSE IF p = 2 THEN <<-1,  0,  0>>
            ELSE IF p = 3 THEN << 0,  1,  0>> ELSE IF p = 4 THEN << 0, -1,  0>>
            ELSE IF p = 5 THEN << 0,  0,  1>> ELSE << 0,  0, -1>>
    BY <2>1, SidesListed DEF Side
  <2> HIDE DEF n
  <2>3. w = Long(p, b.w) BY <2>1, <2>2 DEF Long
  <2>4. h = Short(p) BY <2>1, <2>2 DEF Short
  <2>5. Flip(n) <=> p \in {1, 4, 6} BY <2>1, <2>2 DEF Flip
  <2> QED BY <2>3, <2>4, <2>5
<1>3. w \in Int3 /\ h \in Int3 BY <1>1 DEF Int3
<1>4. v0 \in Int3
  <2>1. side.axis \in {"X", "Y", "Z"} /\ side.shift \in Int3
    <3>1. p = 1 \/ p = 2 \/ p = 3 \/ p = 4 \/ p = 5 \/ p = 6 OBVIOUS
    <3>2. side.axis \in {"X", "Y", "Z"} BY <3>1, SidesListed DEF Side
    <3>3. side.shift \in {<<1, -1, -1>>, <<-1, -1, -1>>, <<-1, 1, -1>>, <<-1, -1, 1>>}
      BY <3>1, SidesListed DEF Side
    <3>4. \A f \in {<<1, -1, -1>>, <<-1, -1, -1>>, <<-1, 1, -1>>, <<-1, -1, 1>>} : f \in Int3
      BY DEF Int3
    <3>5. side.shift \in Int3 BY <3>3, <3>4
    <3> QED BY <3>2, <3>5
  <2>2. CellOf(side.axis, b.start) \in Int3
    <3> DEFINE c == b.start
    <3>1. c[1] \in Int /\ c[2] \in Int /\ c[3] \in Int /\ c = <<c[1], c[2], c[3]>>
      BY QuadFields
    <3> HIDE DEF c
    <3>2. CellOf(side.axis, c) \in Int3 BY <2>1, <3>1, CellOfInt
    <3> QED BY <3>2 DEF c
  <2>3. Plus(<<2 * CellOf(side.axis, b.start)[1], 2 * CellOf(side.axis, b.start)[2],
               2 * CellOf(side.axis, b.start)[3]>>, side.shift) \in Int3
    <3> DEFINE c == CellOf(side.axis, b.start)
               f == side.shift
    <3>1. c[1] \in Int /\ c[2] \in Int /\ c[3] \in Int BY <2>2, Triples
    <3>2. f[1] \in Int /\ f[2] \in Int /\ f[3] \in Int BY <2>1, Triples
    <3> HIDE DEF c, f
    <3>3. Plus(<<2 * c[1], 2 * c[2], 2 * c[3]>>, f) \in Int3 BY <3>1, <3>2 DEF Plus, Int3
    <3> QED BY <3>3 DEF c, f
  <2> QED BY <2>3 DEF StartOf
<1>5. s = [k \in 1 .. 6 |-> [pos |-> order[k], norm |-> n, v |-> b.v]]
  BY DEF VertsOf
<1>6. /\ s[1].pos = order[1] /\ s[2].pos = order[2] /\ s[3].pos = order[3]
      /\ s[4].pos = order[4] /\ s[5].pos = order[5] /\ s[6].pos = order[6]
      /\ \A k \in 1 .. 6 : s[k].norm = n /\ s[k].v = b.v
  <2> HIDE DEF s, order, n
  <2> QED BY <1>5, SixEntries
<1>7. v3 = Plus(v0, Plus(w, h)) /\ v3 = Plus(v0, Plus(h, w))
  <2> HIDE DEF v0, w, h
  <2> QED BY <1>3, <1>4 DEF Plus, Int3
<1>8. Parallelogram(s, v0, EdgeU(p, b.w), EdgeT(p, b.w))
  <2>1. CASE p \in {1, 4, 6}
    <3>1. order = <<v0, v2, v1, v1, v2, v3>> BY <1>2, <2>1
    <3>2. EdgeU(p, b.w) = h /\ EdgeT(p, b.w) = w BY <1>2, <2>1 DEF EdgeU, EdgeT
    <3> HIDE DEF s, order, w, h, v0
    <3> QED BY <3>1, <3>2, <1>6, <1>7 DEF Parallelogram
  <2>2. CASE p \notin {1, 4, 6}
    <3>1. order = <<v0, v1, v2, v2, v1, v3>> BY <1>2, <2>2
    <3>2. EdgeU(p, b.w) = w /\ EdgeT(p, b.w) = h BY <1>2, <2>2 DEF EdgeU, EdgeT
    <3> HIDE DEF s, order, w, h, v0
    <3> QED BY <3>1, <3>2, <1>6, <1>7 DEF Parallelogram
  <2> QED BY <2>1, <2>2
<1>9. EdgeU(p, b.w) \in Int3 /\ EdgeT(p, b.w) \in Int3
  BY <1>2, <1>3 DEF EdgeU, EdgeT
<1>10. Normal(EdgeU(p, b.w), EdgeT(p, b.w)) = IF b.w >= 1 THEN Fronts[p] ELSE <<0, 0, 0>>
  <2>1. p = 1 \/ p = 2 \/ p = 3 \/ p = 4 \/ p = 5 \/ p = 6 OBVIOUS
  <2>3. Normal(<<0, 2, 0>>, <<0, 0, 2 * b.w>>) = IF b.w >= 1 THEN <<1, 0, 0>> ELSE <<0, 0, 0>>
    BY <1>1 DEF Normal, Cross, Sign
  <2>4. Normal(<<0, 0, 2 * b.w>>, <<0, 2, 0>>) = IF b.w >= 1 THEN <<-1, 0, 0>> ELSE <<0, 0, 0>>
    BY <1>1 DEF Normal, Cross, Sign
  <2>5. Normal(<<2 * b.w, 0, 0>>, <<0, 0, 2>>) = IF b.w >= 1 THEN <<0, -1, 0>> ELSE <<0, 0, 0>>
    BY <1>1 DEF Normal, Cross, Sign
  <2>6. Normal(<<0, 0, 2>>, <<2 * b.w, 0, 0>>) = IF b.w >= 1 THEN <<0, 1, 0>> ELSE <<0, 0, 0>>
    BY <1>1 DEF Normal, Cross, Sign
  <2>7. Normal(<<2 * b.w, 0, 0>>, <<0, 2, 0>>) = IF b.w >= 1 THEN <<0, 0, 1>> ELSE <<0, 0, 0>>
    BY <1>1 DEF Normal, Cross, Sign
  <2>8. Normal(<<0, 2, 0>>, <<2 * b.w, 0, 0>>) = IF b.w >= 1 THEN <<0, 0, -1>> ELSE <<0, 0, 0>>
    BY <1>1 DEF Normal, Cross, Sign
  <2> QED BY <2>1, <2>3, <2>4, <2>5, <2>6, <2>7, <2>8 DEF EdgeU, EdgeT, Long, Short, Fronts
<1>11. \A k \in 1 .. 6 : s[k].norm = Sides[p].normal /\ s[k].v = b.v
  BY <1>6
<1> HIDE DEF s, v0
<1> QED BY <1>4, <1>8, <1>9, <1>10, <1>11 DEF s, v0

-----------------------------------------------------------------------------
(* The faces six vertices cover, axis by axis.                             *)

Face(c, d, v) == [at |-> Plus(<<2 * c[1], 2 * c[2], 2 * c[3]>>, d), front |-> d, v |-> v]

(* What a rectangle from a corner to the one across spans along an axis.   *)
Spanned(flat, from, to) ==
    LET lo == IF from < to THEN from ELSE to
        hi == IF from < to THEN to ELSE from
    IN  IF flat THEN {lo} ELSE {lo + 2 * k - 1 : k \in 1 .. (hi - lo) \div 2}

LEMMA SpannedFlat == ASSUME NEW a \in Int PROVE Spanned(TRUE, a, a) = {a}
  BY DEF Spanned

LEMMA Half == ASSUME NEW n \in Int, NEW w \in Nat, n = 2 * w PROVE n \div 2 = w
  OBVIOUS

Odd(m, w) == {m + 2 * k - 1 : k \in 1 .. w}

LEMMA SpannedUp ==
    ASSUME NEW a \in Int, NEW w \in Nat, NEW e \in Int, e = a + 2 * w
    PROVE  Spanned(FALSE, a, e) = Odd(a, w)
<1> USE DEF Odd
<1> DEFINE n == a + 2 * w - a
<1>1. n \in Int /\ n = 2 * w OBVIOUS
<1> HIDE DEF n
<1>2. n \div 2 = w BY <1>1, Half
<1>3. CASE w = 0
  <2>1. a = e /\ ~ (a < a) /\ a - a = n BY <1>1, <1>3
  <2>2. Spanned(FALSE, a, a) = {a + 2 * k - 1 : k \in 1 .. w} BY <1>2, <2>1 DEF Spanned
  <2> QED BY <2>1, <2>2
<1>4. CASE w # 0
  <2>1. a < e /\ e - a = n BY <1>4 DEF n
  <2> QED BY <2>1, <1>2 DEF Spanned
<1> QED BY <1>3, <1>4

LEMMA SpannedUnit ==
    ASSUME NEW a \in Int
    PROVE  Spanned(FALSE, a, a + 2) = {a + 1} /\ Spanned(FALSE, a, a - 2) = {a - 1}
<1>1. 1 \in Nat OBVIOUS
<1>2. Spanned(FALSE, a, a + 2) = {a + 2 * k - 1 : k \in 1 .. 1}
  <2> DEFINE e == a + 2
  <2>1. e \in Int /\ e = a + 2 * 1 OBVIOUS
  <2> HIDE DEF e
  <2>2. Spanned(FALSE, a, e) = {a + 2 * k - 1 : k \in 1 .. 1} BY <1>1, <2>1, SpannedUp DEF Odd
  <2> QED BY <2>2 DEF e
<1>3. Spanned(FALSE, a - 2, a) = Spanned(FALSE, a, a - 2)
  <2>1. a - 2 < a /\ ~ (a < a - 2) OBVIOUS
  <2> QED BY <2>1 DEF Spanned
<1>4. Spanned(FALSE, a - 2, a) = {a - 2 + 2 * k - 1 : k \in 1 .. 1}
  <2> DEFINE m == a - 2
  <2>1. m \in Int /\ a = m + 2 * 1 OBVIOUS
  <2> HIDE DEF m
  <2>2. Spanned(FALSE, m, a) = {m + 2 * k - 1 : k \in 1 .. 1} BY <1>1, <2>1, SpannedUp DEF Odd
  <2> QED BY <2>2 DEF m
<1>5. \A k \in 1 .. 1 : a + 2 * k - 1 = a + 1 /\ a - 2 + 2 * k - 1 = a - 1 OBVIOUS
<1>6. 1 \in 1 .. 1 OBVIOUS
<1>7. {a + 2 * k - 1 : k \in 1 .. 1} = {a + 1} BY <1>5, <1>6
<1>8. {a - 2 + 2 * k - 1 : k \in 1 .. 1} = {a - 1} BY <1>5, <1>6
<1> QED BY <1>2, <1>3, <1>4, <1>7, <1>8

FacesAt(A, B, C, d, v) ==
    {[at |-> <<i, j, k>>, front |-> d, v |-> v] : i \in A, j \in B, k \in C}

LEMMA RecordsOf ==
    ASSUME NEW A, NEW B, NEW C, NEW d, NEW v
    PROVE  [at : A \X B \X C, front : {d}, v : {v}] = FacesAt(A, B, C, d, v)
<1> DEFINE L == [at : A \X B \X C, front : {d}, v : {v}]
           R == FacesAt(A, B, C, d, v)
<1>1. ASSUME NEW f \in L PROVE f \in R
  <2>1. f = [at |-> f.at, front |-> d, v |-> v] /\ f.at \in A \X B \X C OBVIOUS
  <2>2. PICK i \in A, j \in B, k \in C : f.at = <<i, j, k>> BY <2>1
  <2> QED BY <2>1, <2>2 DEF FacesAt
<1>2. ASSUME NEW f \in R PROVE f \in L
  <2>1. PICK i \in A, j \in B, k \in C : f = [at |-> <<i, j, k>>, front |-> d, v |-> v]
    BY DEF FacesAt
  <2>2. PICK c \in A \X B \X C : c = <<i, j, k>> OBVIOUS
  <2> QED BY <2>1, <2>2
<1> HIDE DEF L, R
<1>3. L = R BY <1>1, <1>2
<1> QED BY <1>3 DEF L, R

LEMMA FacesSpanned ==
    ASSUME NEW s
    PROVE  LET d == FrontOf(s[1].pos, s[2].pos, s[3].pos)
               a == s[1].pos
               e == s[6].pos
           IN  FacesOf(s) = FacesAt(Spanned(d[1] # 0, a[1], e[1]),
                                    Spanned(d[2] # 0, a[2], e[2]),
                                    Spanned(d[3] # 0, a[3], e[3]), d, s[1].v)
<1> DEFINE d == FrontOf(s[1].pos, s[2].pos, s[3].pos)
           a == s[1].pos
           e == s[6].pos
           A == Spanned(d[1] # 0, a[1], e[1])
           B == Spanned(d[2] # 0, a[2], e[2])
           C == Spanned(d[3] # 0, a[3], e[3])
<1>1. FacesOf(s) = [at : A \X B \X C, front : {d}, v : {s[1].v}]
  BY DEF FacesOf, Spanned
<1> QED BY <1>1, RecordsOf

-----------------------------------------------------------------------------
(* A quad covers one face of each of its voxels.                           *)

(* Where the k-th cell of a quad is, from 0.                               *)
CellIn(b, axis, k) == CellOf(axis, <<b.start[1], b.start[2], b.start[3] + k>>)

LEMMA OddNumbers ==
    ASSUME NEW m \in Int, NEW w \in Nat
    PROVE  Odd(m, w) = {m + 2 * k + 1 : k \in 0 .. w - 1}
<1> DEFINE L == Odd(m, w)
           R == {m + 2 * k + 1 : k \in 0 .. w - 1}
<1> USE DEF Odd
<1>1. ASSUME NEW k \in 1 .. w PROVE m + 2 * k - 1 \in R
  <2>1. k - 1 \in 0 .. w - 1 /\ m + 2 * k - 1 = m + 2 * (k - 1) + 1 OBVIOUS
  <2> QED BY <2>1
<1>2. ASSUME NEW k \in 0 .. w - 1 PROVE m + 2 * k + 1 \in L
  <2>1. k + 1 \in 1 .. w /\ m + 2 * k + 1 = m + 2 * (k + 1) - 1 OBVIOUS
  <2> QED BY <2>1
<1> QED BY <1>1, <1>2

(* The faces of a row of voxels along the z axis, and along the x axis.    *)
RowZ(i, j, m, w, d, v) ==
    {[at |-> <<i, j, m + 2 * k + 1>>, front |-> d, v |-> v] : k \in 0 .. w - 1}
RowX(i, j, m, w, d, v) ==
    {[at |-> <<m + 2 * k + 1, i, j>>, front |-> d, v |-> v] : k \in 0 .. w - 1}

LEMMA FacesRowZ ==
    ASSUME NEW i, NEW j, NEW m \in Int, NEW w \in Nat, NEW d, NEW v
    PROVE  FacesAt({i}, {j}, Odd(m, w), d, v) = RowZ(i, j, m, w, d, v)
<1> DEFINE S == {m + 2 * k + 1 : k \in 0 .. w - 1}
<1>1. FacesAt({i}, {j}, S, d, v) = RowZ(i, j, m, w, d, v) BY DEF FacesAt, RowZ
<1> QED BY <1>1, OddNumbers

LEMMA FacesRowX ==
    ASSUME NEW i, NEW j, NEW m \in Int, NEW w \in Nat, NEW d, NEW v
    PROVE  FacesAt(Odd(m, w), {i}, {j}, d, v) = RowX(i, j, m, w, d, v)
<1> DEFINE S == {m + 2 * k + 1 : k \in 0 .. w - 1}
<1>1. FacesAt(S, {i}, {j}, d, v) = RowX(i, j, m, w, d, v) BY DEF FacesAt, RowX
<1> QED BY <1>1, OddNumbers

LEMMA CellsOfQuad ==
    ASSUME NEW p \in 1 .. 6, NEW b \in Quad, NEW k \in Nat
    PROVE  LET c == CellOf(Sides[p].axis, b.start)
           IN  /\ c[1] \in Nat /\ c[2] \in Nat /\ c[3] \in Nat
               /\ CellIn(b, Sides[p].axis, k)
                    = IF p \in {1, 2} THEN <<c[1], c[2], c[3] + k>>
                      ELSE <<c[1] + k, c[2], c[3]>>
<1>1. p = 1 \/ p = 2 \/ p = 3 \/ p = 4 \/ p = 5 \/ p = 6 OBVIOUS
<1>2. Sides[p].axis = IF p \in {1, 2} THEN "X" ELSE IF p \in {3, 4} THEN "Y" ELSE "Z"
  BY <1>1, SidesListed DEF Side
<1> HIDE DEF Sides
<1> QED BY <1>1, <1>2, QuadFields DEF CellIn, CellOf

(* A quad shows one face of each voxel it covers, seen from outside.       *)
LEMMA QuadFaces ==
    ASSUME NEW p \in 1 .. 6, NEW b \in Quad, b.w >= 1
    PROVE  FacesOf(VertsOf(b, Sides[p]))
             = {Face(CellIn(b, Sides[p].axis, k), Fronts[p], b.v) : k \in 0 .. b.w - 1}
<1> DEFINE s == VertsOf(b, Sides[p])
           a == s[1].pos
           e == s[6].pos
           d == Fronts[p]
           c == CellOf(Sides[p].axis, b.start)
           x == c[1]
           y == c[2]
           z == c[3]
<1>1. /\ Parallelogram(s, StartOf(b, Sides[p]), EdgeU(p, b.w), EdgeT(p, b.w))
      /\ StartOf(b, Sides[p]) \in Int3
      /\ EdgeU(p, b.w) \in Int3 /\ EdgeT(p, b.w) \in Int3
      /\ s[1].v = b.v
      /\ Normal(EdgeU(p, b.w), EdgeT(p, b.w)) = d
  BY VertsCorners
<1>2. FrontOf(s[1].pos, s[2].pos, s[3].pos) = d
  BY <1>1, CornersFront
<1>3. FacesOf(s) = FacesAt(Spanned(d[1] # 0, a[1], e[1]), Spanned(d[2] # 0, a[2], e[2]),
                           Spanned(d[3] # 0, a[3], e[3]), d, b.v)
  BY <1>1, <1>2, FacesSpanned

<1>4. x \in Nat /\ y \in Nat /\ z \in Nat BY CellsOfQuad
<1>5. b.w \in Nat BY QuadFields
<1>6. a = Plus(<<2 * x, 2 * y, 2 * z>>, Sides[p].shift)
  BY <1>1 DEF Parallelogram, StartOf
<1>7. e = Plus(a, Plus(EdgeU(p, b.w), EdgeT(p, b.w)))
  BY <1>1 DEF Parallelogram
<1> HIDE DEF a, e, s, c
<1>8. CASE p \in {1, 2}
  <2> DEFINE i == 2 * x + d[1]
             j == 2 * y - 1 + 1
             m == 2 * z - 1
  <2>1. p = 1 \/ p = 2 BY <1>8
  <2>2. d = <<d[1], 0, 0>> /\ d[1] \in Int /\ d[1] # 0 BY <2>1 DEF Fronts
  <2>3. Sides[p].shift = <<d[1], -1, -1>> BY <2>1, SidesListed DEF Side, Fronts
  <2>4. Plus(EdgeU(p, b.w), EdgeT(p, b.w)) = <<0, 2, 2 * b.w>>
    BY <2>1, <1>5 DEF Plus, EdgeU, EdgeT, Long, Short
  <2> HIDE DEF d
  <2>5. a = <<2 * x + d[1], 2 * y - 1, 2 * z - 1>>
    BY <1>4, <1>6, <2>2, <2>3 DEF Plus
  <2>6. e = <<2 * x + d[1], 2 * y - 1 + 2, 2 * z - 1 + 2 * b.w>>
    BY <1>4, <1>5, <1>7, <2>2, <2>4, <2>5 DEF Plus
  <2>7. Spanned(d[1] # 0, a[1], e[1]) = {i}
    <3>1. 2 * x + d[1] \in Int BY <1>4, <2>2
    <3>2. (d[1] # 0) = TRUE BY <2>2
    <3> QED BY <2>5, <2>6, <3>1, <3>2, SpannedFlat
  <2>8. Spanned(d[2] # 0, a[2], e[2]) = {j}
    <3>1. 2 * y - 1 \in Int BY <1>4
    <3>2. (d[2] # 0) = FALSE BY <2>2
    <3> QED BY <2>5, <2>6, <3>1, <3>2, SpannedUnit
  <2>9. Spanned(d[3] # 0, a[3], e[3]) = Odd(m, b.w)
    <3>1. a[3] \in Int /\ e[3] \in Int /\ e[3] = a[3] + 2 * b.w
      BY <2>5, <2>6, <1>4, <1>5
    <3>2. (d[3] # 0) = FALSE BY <2>2
    <3>3. Spanned(FALSE, a[3], e[3]) = Odd(a[3], b.w)
      BY <3>1, <1>5, SpannedUp
    <3> QED BY <3>2, <3>3, <2>5
  <2>10. m \in Int BY <1>4
  <2>11. ASSUME NEW k \in 0 .. b.w - 1
         PROVE  Face(CellIn(b, Sides[p].axis, k), d, b.v)
                  = [at |-> <<i, j, m + 2 * k + 1>>, front |-> d, v |-> b.v]
    <3>1. CellIn(b, Sides[p].axis, k) = <<x, y, z + k>>
      <4>1. k \in Nat BY <1>5
      <4> QED BY <4>1, CellsOfQuad, <1>8 DEF c
    <3>2. Plus(<<2 * x, 2 * y, 2 * (z + k)>>, d) = <<i, j, m + 2 * k + 1>>
      BY <2>2, <1>4 DEF Plus
    <3> QED BY <3>1, <3>2 DEF Face
  <2> HIDE DEF i, j, m
  <2>12. FacesOf(s) = RowZ(i, j, m, b.w, d, b.v)
    <3>1. FacesOf(s) = FacesAt({i}, {j}, Odd(m, b.w), d, b.v)
      BY <1>3, <2>7, <2>8, <2>9
    <3> QED BY <2>10, <3>1, <1>5, FacesRowZ
  <2> QED BY <2>11, <2>12 DEF d, s, RowZ
<1>9. CASE p \in {3, 4}
  <2> DEFINE i == 2 * y + d[2]
             j == 2 * z - 1 + 1
             m == 2 * x - 1
  <2>1. p = 3 \/ p = 4 BY <1>9
  <2>2. d = <<0, d[2], 0>> /\ d[2] \in Int /\ d[2] # 0 BY <2>1 DEF Fronts
  <2>3. Sides[p].shift = <<-1, d[2], -1>> BY <2>1, SidesListed DEF Side, Fronts
  <2>4. Plus(EdgeU(p, b.w), EdgeT(p, b.w)) = <<2 * b.w, 0, 2>>
    BY <2>1, <1>5 DEF Plus, EdgeU, EdgeT, Long, Short
  <2> HIDE DEF d
  <2>5. a = <<2 * x - 1, 2 * y + d[2], 2 * z - 1>>
    BY <1>4, <1>6, <2>2, <2>3 DEF Plus
  <2>6. e = <<2 * x - 1 + 2 * b.w, 2 * y + d[2], 2 * z - 1 + 2>>
    BY <1>4, <1>5, <1>7, <2>2, <2>4, <2>5 DEF Plus
  <2>7. Spanned(d[2] # 0, a[2], e[2]) = {i}
    <3>1. 2 * y + d[2] \in Int BY <1>4, <2>2
    <3>2. (d[2] # 0) = TRUE BY <2>2
    <3> QED BY <2>5, <2>6, <3>1, <3>2, SpannedFlat
  <2>8. Spanned(d[3] # 0, a[3], e[3]) = {j}
    <3>1. 2 * z - 1 \in Int BY <1>4
    <3>2. (d[3] # 0) = FALSE BY <2>2
    <3> QED BY <2>5, <2>6, <3>1, <3>2, SpannedUnit
  <2>9. Spanned(d[1] # 0, a[1], e[1]) = Odd(m, b.w)
    <3>1. a[1] \in Int /\ e[1] \in Int /\ e[1] = a[1] + 2 * b.w
      BY <2>5, <2>6, <1>4, <1>5
    <3>2. (d[1] # 0) = FALSE BY <2>2
    <3>3. Spanned(FALSE, a[1], e[1]) = Odd(a[1], b.w)
      BY <3>1, <1>5, SpannedUp
    <3> QED BY <3>2, <3>3, <2>5
  <2>10. m \in Int BY <1>4
  <2>11. ASSUME NEW k \in 0 .. b.w - 1
         PROVE  Face(CellIn(b, Sides[p].axis, k), d, b.v)
                  = [at |-> <<m + 2 * k + 1, i, j>>, front |-> d, v |-> b.v]
    <3>1. CellIn(b, Sides[p].axis, k) = <<x + k, y, z>>
      <4>1. k \in Nat BY <1>5
      <4>2. p \notin {1, 2} BY <2>1
      <4> QED BY <4>1, <4>2, CellsOfQuad DEF c
    <3>2. Plus(<<2 * (x + k), 2 * y, 2 * z>>, d) = <<m + 2 * k + 1, i, j>>
      BY <2>2, <1>4 DEF Plus
    <3> QED BY <3>1, <3>2 DEF Face
  <2> HIDE DEF i, j, m
  <2>12. FacesOf(s) = RowX(i, j, m, b.w, d, b.v)
    <3>1. FacesOf(s) = FacesAt(Odd(m, b.w), {i}, {j}, d, b.v)
      BY <1>3, <2>7, <2>8, <2>9
    <3> QED BY <2>10, <3>1, <1>5, FacesRowX
  <2> QED BY <2>11, <2>12 DEF d, s, RowX
<1>10. CASE p \in {5, 6}
  <2> DEFINE i == 2 * y - 1 + 1
             j == 2 * z + d[3]
             m == 2 * x - 1
  <2>1. p = 5 \/ p = 6 BY <1>10
  <2>2. d = <<0, 0, d[3]>> /\ d[3] \in Int /\ d[3] # 0 BY <2>1 DEF Fronts
  <2>3. Sides[p].shift = <<-1, -1, d[3]>> BY <2>1, SidesListed DEF Side, Fronts
  <2>4. Plus(EdgeU(p, b.w), EdgeT(p, b.w)) = <<2 * b.w, 2, 0>>
    BY <2>1, <1>5 DEF Plus, EdgeU, EdgeT, Long, Short
  <2> HIDE DEF d
  <2>5. a = <<2 * x - 1, 2 * y - 1, 2 * z + d[3]>>
    BY <1>4, <1>6, <2>2, <2>3 DEF Plus
  <2>6. e = <<2 * x - 1 + 2 * b.w, 2 * y - 1 + 2, 2 * z + d[3]>>
    BY <1>4, <1>5, <1>7, <2>2, <2>4, <2>5 DEF Plus
  <2>7. Spanned(d[3] # 0, a[3], e[3]) = {j}
    <3>1. 2 * z + d[3] \in Int BY <1>4, <2>2
    <3>2. (d[3] # 0) = TRUE BY <2>2
    <3> QED BY <2>5, <2>6, <3>1, <3>2, SpannedFlat
  <2>8. Spanned(d[2] # 0, a[2], e[2]) = {i}
    <3>1. 2 * y - 1 \in Int BY <1>4
    <3>2. (d[2] # 0) = FALSE BY <2>2
    <3> QED BY <2>5, <2>6, <3>1, <3>2, SpannedUnit
  <2>9. Spanned(d[1] # 0, a[1], e[1]) = Odd(m, b.w)
    <3>1. a[1] \in Int /\ e[1] \in Int /\ e[1] = a[1] + 2 * b.w
      BY <2>5, <2>6, <1>4, <1>5
    <3>2. (d[1] # 0) = FALSE BY <2>2
    <3>3. Spanned(FALSE, a[1], e[1]) = Odd(a[1], b.w)
      BY <3>1, <1>5, SpannedUp
    <3> QED BY <3>2, <3>3, <2>5
  <2>10. m \in Int BY <1>4
  <2>11. ASSUME NEW k \in 0 .. b.w - 1
         PROVE  Face(CellIn(b, Sides[p].axis, k), d, b.v)
                  = [at |-> <<m + 2 * k + 1, i, j>>, front |-> d, v |-> b.v]
    <3>1. CellIn(b, Sides[p].axis, k) = <<x + k, y, z>>
      <4>1. k \in Nat BY <1>5
      <4>2. p \notin {1, 2} BY <2>1
      <4> QED BY <4>1, <4>2, CellsOfQuad DEF c
    <3>2. Plus(<<2 * (x + k), 2 * y, 2 * z>>, d) = <<m + 2 * k + 1, i, j>>
      BY <2>2, <1>4 DEF Plus
    <3> QED BY <3>1, <3>2 DEF Face
  <2> HIDE DEF i, j, m
  <2>12. FacesOf(s) = RowX(i, j, m, b.w, d, b.v)
    <3>1. FacesOf(s) = FacesAt(Odd(m, b.w), {i}, {j}, d, b.v)
      BY <1>3, <2>7, <2>8, <2>9
    <3> QED BY <2>10, <3>1, <1>5, FacesRowX
  <2> QED BY <2>11, <2>12 DEF d, s, RowX
<1> QED BY <1>8, <1>9, <1>10

-----------------------------------------------------------------------------
(* A strip of the geometry shader covers one face of its voxel, and the    *)
(* six strips all six.                                                     *)

(* From -1 to 1 or back across the voxel, or flat on the side d looks to.  *)
Across(f, t, d) == \/ d \in {-1, 1} /\ f = d /\ t = d
                   \/ d = 0 /\ <<f, t>> \in {<<-1, 1>>, <<1, -1>>}

SpanFrom(m, f, t, d) == Spanned(d # 0, m + f, m + t)

LEMMA AcrossSpan ==
    ASSUME NEW m \in Int, NEW f, NEW t, NEW d, Across(f, t, d)
    PROVE  SpanFrom(m, f, t, d) = {m + d}
<1> DEFINE a == m + f
           e == m + t
<1> HIDE DEF a, e
<1>0. SUFFICES Spanned(d # 0, a, e) = {m + d} BY DEF SpanFrom, a, e
<1>1. CASE d \in {-1, 1} /\ f = d /\ t = d
  <2>1. (d # 0) = TRUE /\ m + d \in Int /\ a = m + d /\ e = m + d BY <1>1 DEF a, e
  <2> QED BY <2>1, SpannedFlat
<1>2. CASE d = 0 /\ f = -1 /\ t = 1
  <2>1. a \in Int /\ e = a + 2 /\ m + d = a + 1 /\ (d # 0) = FALSE BY <1>2 DEF a, e
  <2>2. Spanned(FALSE, a, a + 2) = {a + 1} BY <2>1, SpannedUnit
  <2> QED BY <2>1, <2>2
<1>3. CASE d = 0 /\ f = 1 /\ t = -1
  <2>1. a \in Int /\ e = a - 2 /\ m + d = a - 1 /\ (d # 0) = FALSE BY <1>3 DEF a, e
  <2>2. Spanned(FALSE, a, a - 2) = {a - 1} BY <2>1, SpannedUnit
  <2> QED BY <2>1, <2>2
<1> QED BY <1>1, <1>2, <1>3 DEF Across

(* A strip of the geometry shader is one face of the voxel.                *)
LEMMA StripFace ==
    ASSUME NEW c \in Int3, NEW s, NEW u \in Int3, NEW t \in Int3, NEW d,
           s[1] \in Int3, s[2] = Plus(s[1], u), s[3] = Plus(s[1], t),
           s[4] = Plus(s[1], Plus(u, t)),
           Normal(u, t) = d,
           \A i \in 1 .. 3 : Across(s[1][i], s[4][i], d[i])
    PROVE  FacesOf(PointVerts(c, s)) = {Face(c, d, GetVoxel(c[1], c[2], c[3]))}
<1> DEFINE r == PointVerts(c, s)
           o == <<2 * c[1], 2 * c[2], 2 * c[3]>>
           a == Plus(o, s[1])
           v == GetVoxel(c[1], c[2], c[3])
<1>1. c[1] \in Int /\ c[2] \in Int /\ c[3] \in Int BY Triples
<1>2. /\ r[1].pos = a /\ r[2].pos = Plus(o, s[2]) /\ r[3].pos = Plus(o, s[3])
      /\ r[4].pos = Plus(o, s[3]) /\ r[5].pos = Plus(o, s[2]) /\ r[6].pos = Plus(o, s[4])
      /\ r[1].v = v
  BY DEF PointVerts
<1>3. /\ s[1][1] \in Int /\ s[1][2] \in Int /\ s[1][3] \in Int
      /\ u[1] \in Int /\ u[2] \in Int /\ u[3] \in Int
      /\ t[1] \in Int /\ t[2] \in Int /\ t[3] \in Int
  BY Triples
<1>4. a \in Int3
  <2> HIDE DEF v, r
  <2> QED BY <1>1, <1>3 DEF Plus, Int3
<1>5. /\ Plus(o, s[2]) = Plus(a, u) /\ Plus(o, s[3]) = Plus(a, t)
      /\ Plus(o, s[4]) = Plus(a, Plus(u, t))
  <2> HIDE DEF v, r
  <2> QED BY <1>1, <1>3 DEF Plus
<1> HIDE DEF r, v
<1>6. Parallelogram(r, a, u, t)
  <2> HIDE DEF a, o
  <2> QED BY <1>2, <1>5 DEF Parallelogram
<1>7. FrontOf(r[1].pos, r[2].pos, r[3].pos) = d
  <2> HIDE DEF a
  <2> QED BY <1>4, <1>6, CornersFront
<1>8. FacesOf(r) = FacesAt(Spanned(d[1] # 0, a[1], r[6].pos[1]),
                           Spanned(d[2] # 0, a[2], r[6].pos[2]),
                           Spanned(d[3] # 0, a[3], r[6].pos[3]), d, v)
  <2> HIDE DEF a
  <2> QED BY <1>2, <1>7, FacesSpanned
<1>9. /\ a[1] = 2 * c[1] + s[1][1] /\ a[2] = 2 * c[2] + s[1][2] /\ a[3] = 2 * c[3] + s[1][3]
      /\ r[6].pos[1] = 2 * c[1] + s[4][1] /\ r[6].pos[2] = 2 * c[2] + s[4][2]
      /\ r[6].pos[3] = 2 * c[3] + s[4][3]
  BY <1>2 DEF Plus
<1>10. /\ Spanned(d[1] # 0, a[1], r[6].pos[1]) = {2 * c[1] + d[1]}
       /\ Spanned(d[2] # 0, a[2], r[6].pos[2]) = {2 * c[2] + d[2]}
       /\ Spanned(d[3] # 0, a[3], r[6].pos[3]) = {2 * c[3] + d[3]}
  <2> DEFINE x == 2 * c[1]
             y == 2 * c[2]
             z == 2 * c[3]
  <2>1. x \in Int /\ y \in Int /\ z \in Int BY <1>1
  <2>2. /\ Across(s[1][1], s[4][1], d[1]) /\ Across(s[1][2], s[4][2], d[2])
        /\ Across(s[1][3], s[4][3], d[3])
    OBVIOUS
  <2> HIDE DEF a, x, y, z
  <2>3. /\ a[1] = x + s[1][1] /\ a[2] = y + s[1][2] /\ a[3] = z + s[1][3]
        /\ r[6].pos[1] = x + s[4][1] /\ r[6].pos[2] = y + s[4][2]
        /\ r[6].pos[3] = z + s[4][3]
    BY <1>9 DEF x, y, z
  <2>4. /\ Spanned(d[1] # 0, a[1], r[6].pos[1]) = {x + d[1]}
        /\ Spanned(d[2] # 0, a[2], r[6].pos[2]) = {y + d[2]}
        /\ Spanned(d[3] # 0, a[3], r[6].pos[3]) = {z + d[3]}
    <3> HIDE DEF r
    <3>1. /\ SpanFrom(x, s[1][1], s[4][1], d[1]) = {x + d[1]}
          /\ SpanFrom(y, s[1][2], s[4][2], d[2]) = {y + d[2]}
          /\ SpanFrom(z, s[1][3], s[4][3], d[3]) = {z + d[3]}
      BY <2>1, <2>2, AcrossSpan
    <3> QED BY <3>1, <2>3 DEF SpanFrom
  <2> QED BY <2>4 DEF x, y, z
<1>11. FacesOf(r) = FacesAt({2 * c[1] + d[1]}, {2 * c[2] + d[2]}, {2 * c[3] + d[3]}, d, v)
  <2> HIDE DEF a
  <2> QED BY <1>8, <1>10
<1>12. Face(c, d, v) = [at |-> <<2 * c[1] + d[1], 2 * c[2] + d[2], 2 * c[3] + d[3]>>,
                        front |-> d, v |-> v]
  BY DEF Face, Plus
<1> DEFINE x == 2 * c[1] + d[1]
           y == 2 * c[2] + d[2]
           z == 2 * c[3] + d[3]
<1> HIDE DEF x, y, z
<1>13. FacesAt({x}, {y}, {z}, d, v) = {[at |-> <<x, y, z>>, front |-> d, v |-> v]}
  BY DEF FacesAt
<1>14. FacesOf(r) = FacesAt({x}, {y}, {z}, d, v) BY <1>11 DEF x, y, z
<1>15. Face(c, d, v) = [at |-> <<x, y, z>>, front |-> d, v |-> v] BY <1>12 DEF x, y, z
<1>16. FacesOf(r) = {Face(c, d, v)} BY <1>13, <1>14, <1>15
<1> QED BY <1>16 DEF r, v

LEMMA StripsListed ==
    \E s1, s2, s3, s4, s5, s6 :
       /\ Strips = {s1, s2, s3, s4, s5, s6}
       /\ s1 = << <<-1, 1,-1>>, <<-1, 1, 1>>, << 1, 1,-1>>, << 1, 1, 1>> >>
       /\ s2 = << << 1, 1,-1>>, << 1, 1, 1>>, << 1,-1,-1>>, << 1,-1, 1>> >>
       /\ s3 = << << 1,-1,-1>>, << 1,-1, 1>>, <<-1,-1,-1>>, <<-1,-1, 1>> >>
       /\ s4 = << <<-1,-1,-1>>, <<-1,-1, 1>>, <<-1, 1,-1>>, <<-1, 1, 1>> >>
       /\ s5 = << <<-1, 1, 1>>, <<-1,-1, 1>>, << 1, 1, 1>>, << 1,-1, 1>> >>
       /\ s6 = << <<-1, 1,-1>>, << 1, 1,-1>>, <<-1,-1,-1>>, << 1,-1,-1>> >>
  BY DEF Strips

(* One strip that starts at f and turns by u and t shows side d.           *)
LEMMA OneStrip ==
    ASSUME NEW c \in Int3, NEW s, NEW f \in Int3, NEW u \in Int3, NEW t \in Int3,
           NEW e \in Int3, NEW d \in Directions,
           s = <<f, Plus(f, u), Plus(f, t), e>>, e = Plus(f, Plus(u, t)),
           Normal(u, t) = d,
           Across(f[1], e[1], d[1]), Across(f[2], e[2], d[2]), Across(f[3], e[3], d[3])
    PROVE  FacesOf(PointVerts(c, s)) = {Face(c, d, GetVoxel(c[1], c[2], c[3]))}
<1>1. s[1] = f /\ s[2] = Plus(f, u) /\ s[3] = Plus(f, t) /\ s[4] = e
  OBVIOUS
<1>2. \A i \in 1 .. 3 : Across(s[1][i], s[4][i], d[i])
  BY <1>1
<1> QED BY <1>1, <1>2, StripFace

LEMMA AcrossValues == /\ Across(1, 1, 1) /\ Across(-1, -1, -1)
                      /\ Across(1, -1, 0) /\ Across(-1, 1, 0)
  BY DEF Across

LEMMA StripFaces ==
    ASSUME NEW c \in Int3
    PROVE  UNION {FacesOf(PointVerts(c, s)) : s \in Strips}
             = {Face(c, d, GetVoxel(c[1], c[2], c[3])) : d \in Directions}
<1> DEFINE F(s) == FacesOf(PointVerts(c, s))
           G(d) == {Face(c, d, GetVoxel(c[1], c[2], c[3]))}
<1>1. PICK s1, s2, s3, s4, s5, s6 :
       /\ Strips = {s1, s2, s3, s4, s5, s6}
       /\ s1 = << <<-1, 1,-1>>, <<-1, 1, 1>>, << 1, 1,-1>>, << 1, 1, 1>> >>
       /\ s2 = << << 1, 1,-1>>, << 1, 1, 1>>, << 1,-1,-1>>, << 1,-1, 1>> >>
       /\ s3 = << << 1,-1,-1>>, << 1,-1, 1>>, <<-1,-1,-1>>, <<-1,-1, 1>> >>
       /\ s4 = << <<-1,-1,-1>>, <<-1,-1, 1>>, <<-1, 1,-1>>, <<-1, 1, 1>> >>
       /\ s5 = << <<-1, 1, 1>>, <<-1,-1, 1>>, << 1, 1, 1>>, << 1,-1, 1>> >>
       /\ s6 = << <<-1, 1,-1>>, << 1, 1,-1>>, <<-1,-1,-1>>, << 1,-1,-1>> >>
  BY StripsListed
<1>2. F(s1) = G(<<0, 1, 0>>)
  <2> DEFINE f == <<-1, 1, -1>>
             u == <<0, 0, 2>>
             t == <<2, 0, 0>>
             e == <<1, 1, 1>>
             d == <<0, 1, 0>>
  <2>1. f \in Int3 /\ u \in Int3 /\ t \in Int3 /\ e \in Int3 BY DEF Int3
  <2>2. s1 = <<f, Plus(f, u), Plus(f, t), e>> /\ e = Plus(f, Plus(u, t))
    BY <1>1 DEF Plus
  <2>3. Normal(u, t) = d BY DEF Normal, Cross, Sign
  <2>4. Across(f[1], e[1], d[1]) /\ Across(f[2], e[2], d[2]) /\ Across(f[3], e[3], d[3])
    BY AcrossValues
  <2>5. d \in Directions BY DEF Directions
  <2> HIDE DEF f, u, t, e, d
  <2>6. F(s1) = G(d) BY <2>1, <2>2, <2>3, <2>4, <2>5, OneStrip
  <2> QED BY <2>6 DEF d
<1>3. F(s2) = G(<<1, 0, 0>>)
  <2> DEFINE f == <<1, 1, -1>>
             u == <<0, 0, 2>>
             t == <<0, -2, 0>>
             e == <<1, -1, 1>>
             d == <<1, 0, 0>>
  <2>1. f \in Int3 /\ u \in Int3 /\ t \in Int3 /\ e \in Int3 BY DEF Int3
  <2>2. s2 = <<f, Plus(f, u), Plus(f, t), e>> /\ e = Plus(f, Plus(u, t))
    BY <1>1 DEF Plus
  <2>3. Normal(u, t) = d BY DEF Normal, Cross, Sign
  <2>4. Across(f[1], e[1], d[1]) /\ Across(f[2], e[2], d[2]) /\ Across(f[3], e[3], d[3])
    BY AcrossValues
  <2>5. d \in Directions BY DEF Directions
  <2> HIDE DEF f, u, t, e, d
  <2>6. F(s2) = G(d) BY <2>1, <2>2, <2>3, <2>4, <2>5, OneStrip
  <2> QED BY <2>6 DEF d
<1>4. F(s3) = G(<<0, -1, 0>>)
  <2> DEFINE f == <<1, -1, -1>>
             u == <<0, 0, 2>>
             t == <<-2, 0, 0>>
             e == <<-1, -1, 1>>
             d == <<0, -1, 0>>
  <2>1. f \in Int3 /\ u \in Int3 /\ t \in Int3 /\ e \in Int3 BY DEF Int3
  <2>2. s3 = <<f, Plus(f, u), Plus(f, t), e>> /\ e = Plus(f, Plus(u, t))
    BY <1>1 DEF Plus
  <2>3. Normal(u, t) = d BY DEF Normal, Cross, Sign
  <2>4. Across(f[1], e[1], d[1]) /\ Across(f[2], e[2], d[2]) /\ Across(f[3], e[3], d[3])
    BY AcrossValues
  <2>5. d \in Directions BY DEF Directions
  <2> HIDE DEF f, u, t, e, d
  <2>6. F(s3) = G(d) BY <2>1, <2>2, <2>3, <2>4, <2>5, OneStrip
  <2> QED BY <2>6 DEF d
<1>5. F(s4) = G(<<-1, 0, 0>>)
  <2> DEFINE f == <<-1, -1, -1>>
             u == <<0, 0, 2>>
             t == <<0, 2, 0>>
             e == <<-1, 1, 1>>
             d == <<-1, 0, 0>>
  <2>1. f \in Int3 /\ u \in Int3 /\ t \in Int3 /\ e \in Int3 BY DEF Int3
  <2>2. s4 = <<f, Plus(f, u), Plus(f, t), e>> /\ e = Plus(f, Plus(u, t))
    BY <1>1 DEF Plus
  <2>3. Normal(u, t) = d BY DEF Normal, Cross, Sign
  <2>4. Across(f[1], e[1], d[1]) /\ Across(f[2], e[2], d[2]) /\ Across(f[3], e[3], d[3])
    BY AcrossValues
  <2>5. d \in Directions BY DEF Directions
  <2> HIDE DEF f, u, t, e, d
  <2>6. F(s4) = G(d) BY <2>1, <2>2, <2>3, <2>4, <2>5, OneStrip
  <2> QED BY <2>6 DEF d
<1>6. F(s5) = G(<<0, 0, 1>>)
  <2> DEFINE f == <<-1, 1, 1>>
             u == <<0, -2, 0>>
             t == <<2, 0, 0>>
             e == <<1, -1, 1>>
             d == <<0, 0, 1>>
  <2>1. f \in Int3 /\ u \in Int3 /\ t \in Int3 /\ e \in Int3 BY DEF Int3
  <2>2. s5 = <<f, Plus(f, u), Plus(f, t), e>> /\ e = Plus(f, Plus(u, t))
    BY <1>1 DEF Plus
  <2>3. Normal(u, t) = d BY DEF Normal, Cross, Sign
  <2>4. Across(f[1], e[1], d[1]) /\ Across(f[2], e[2], d[2]) /\ Across(f[3], e[3], d[3])
    BY AcrossValues
  <2>5. d \in Directions BY DEF Directions
  <2> HIDE DEF f, u, t, e, d
  <2>6. F(s5) = G(d) BY <2>1, <2>2, <2>3, <2>4, <2>5, OneStrip
  <2> QED BY <2>6 DEF d
<1>7. F(s6) = G(<<0, 0, -1>>)
  <2> DEFINE f == <<-1, 1, -1>>
             u == <<2, 0, 0>>
             t == <<0, -2, 0>>
             e == <<1, -1, -1>>
             d == <<0, 0, -1>>
  <2>1. f \in Int3 /\ u \in Int3 /\ t \in Int3 /\ e \in Int3 BY DEF Int3
  <2>2. s6 = <<f, Plus(f, u), Plus(f, t), e>> /\ e = Plus(f, Plus(u, t))
    BY <1>1 DEF Plus
  <2>3. Normal(u, t) = d BY DEF Normal, Cross, Sign
  <2>4. Across(f[1], e[1], d[1]) /\ Across(f[2], e[2], d[2]) /\ Across(f[3], e[3], d[3])
    BY AcrossValues
  <2>5. d \in Directions BY DEF Directions
  <2> HIDE DEF f, u, t, e, d
  <2>6. F(s6) = G(d) BY <2>1, <2>2, <2>3, <2>4, <2>5, OneStrip
  <2> QED BY <2>6 DEF d
<1>8. Directions = {<<0, 1, 0>>, <<1, 0, 0>>, <<0, -1, 0>>, <<-1, 0, 0>>,
                    <<0, 0, 1>>, <<0, 0, -1>>}
  BY DEF Directions
<1> HIDE DEF F, G
<1>9. UNION {F(s) : s \in Strips} = UNION {G(d) : d \in Directions}
  BY <1>1, <1>2, <1>3, <1>4, <1>5, <1>6, <1>7, <1>8
<1>10. UNION {G(d) : d \in Directions}
         = {Face(c, d, GetVoxel(c[1], c[2], c[3])) : d \in Directions}
  BY DEF G
<1> QED BY <1>9, <1>10 DEF F

-----------------------------------------------------------------------------
(* Blocks of six vertices, one after the other: what FlattenSeq computes.  *)

(* m is the sequence of the six-vertex blocks f, one after the other.      *)
Joins(m, f, V) ==
    /\ m \in Seq(V) /\ Len(m) = 6 * Len(f)
    /\ \A k \in 1 .. Len(f), r \in 1 .. 6 : m[6 * k - 6 + r] = f[k][r]

Blocks(V) == [1 .. 6 -> V]

LEMMA BlockPlace ==
    ASSUME NEW n \in Nat, NEW i \in 1 .. 6 * n
    PROVE  \E k \in 1 .. n, r \in 1 .. 6 : i = 6 * k - 6 + r
<1> DEFINE k == ((i - 1) \div 6) + 1
           r == ((i - 1) % 6) + 1
<1>1. i - 1 = 6 * ((i - 1) \div 6) + ((i - 1) % 6) /\ (i - 1) \div 6 \in Int /\ (i - 1) % 6 \in 0 .. 5
  <2> DEFINE j == i - 1
  <2>1. j \in Int OBVIOUS
  <2> HIDE DEF j
  <2>2. j = 6 * (j \div 6) + (j % 6) /\ j \div 6 \in Int /\ j % 6 \in 0 .. 5 BY <2>1
  <2> QED BY <2>2 DEF j
<1>2. i = 6 * k - 6 + r /\ r \in 1 .. 6 /\ k \in Int BY <1>1
<1> HIDE DEF k, r
<1>3. k \in 1 .. n BY <1>2
<1> QED BY <1>2, <1>3

LEMMA JoinsUnique ==
    ASSUME NEW V, NEW f, Len(f) \in Nat, NEW m1, NEW m2, Joins(m1, f, V), Joins(m2, f, V)
    PROVE  m1 = m2
<1>0. m1 \in Seq(V) /\ m2 \in Seq(V) /\ Len(m1) = 6 * Len(f) /\ Len(m2) = Len(m1)
  BY DEF Joins
<1>1. \A i \in 1 .. Len(m1) : m1[i] = m2[i]
  <2> SUFFICES ASSUME NEW i \in 1 .. Len(m1) PROVE m1[i] = m2[i]
    OBVIOUS
  <2>0. i \in 1 .. 6 * Len(f) BY <1>0
  <2>1. PICK k \in 1 .. Len(f), r \in 1 .. 6 : i = 6 * k - 6 + r
    BY <2>0, BlockPlace
  <2> QED BY <2>1 DEF Joins
<1> QED BY <1>0, <1>1, SeqEqual

LEMMA JoinsConcat ==
    ASSUME NEW V, NEW f \in Seq(Blocks(V)), NEW g \in Seq(Blocks(V)),
           NEW m, NEW l, Joins(m, f, V), Joins(l, g, V)
    PROVE  Joins(m \o l, f \o g, V)
<1>1. /\ m \o l \in Seq(V) /\ Len(m \o l) = Len(m) + Len(l)
      /\ f \o g \in Seq(Blocks(V)) /\ Len(f \o g) = Len(f) + Len(g)
      /\ Len(f) \in Nat /\ Len(g) \in Nat
      /\ Len(m) = 6 * Len(f) /\ Len(l) = 6 * Len(g)
  <2>1. /\ m \in Seq(V) /\ l \in Seq(V)
        /\ Len(m) = 6 * Len(f) /\ Len(l) = 6 * Len(g)
    BY DEF Joins
  <2>2. m \o l \in Seq(V) /\ Len(m \o l) = Len(m) + Len(l)
    BY <2>1, ConcatProperties
  <2>3. f \o g \in Seq(Blocks(V)) /\ Len(f \o g) = Len(f) + Len(g)
    BY ConcatProperties
  <2> QED BY <2>1, <2>2, <2>3, LenProperties
<1>2. ASSUME NEW k \in 1 .. Len(f \o g), NEW r \in 1 .. 6
      PROVE  (m \o l)[6 * k - 6 + r] = (f \o g)[k][r]
  <2>1. CASE k <= Len(f)
    <3>1. 6 * k - 6 + r \in 1 .. Len(m) /\ k \in 1 .. Len(f) BY <1>1, <2>1
    <3>2. (m \o l)[6 * k - 6 + r] = m[6 * k - 6 + r]
      BY <3>1, ConcatProperties, <1>1 DEF Joins
    <3>3. (f \o g)[k] = f[k] BY <3>1, ConcatProperties, <1>1
    <3> QED BY <3>1, <3>2, <3>3 DEF Joins
  <2>2. CASE k > Len(f)
    <3> DEFINE j == k - Len(f)
    <3>1. j \in 1 .. Len(g) BY <1>1, <2>2
    <3>2. /\ 6 * k - 6 + r > Len(m) /\ 6 * k - 6 + r <= Len(m) + Len(l)
          /\ 6 * k - 6 + r - Len(m) = 6 * j - 6 + r
      BY <1>1, <2>2
    <3>3. (m \o l)[6 * k - 6 + r] = l[6 * j - 6 + r]
      <4> DEFINE i == 6 * k - 6 + r
      <4>1. i \in 1 .. Len(m) + Len(l) /\ ~ (i <= Len(m)) /\ i - Len(m) = 6 * j - 6 + r
        BY <3>2, <1>1
      <4> HIDE DEF i, j
      <4>2. (m \o l)[i] = l[i - Len(m)]
        BY <4>1, ConcatProperties DEF Joins
      <4> QED BY <4>1, <4>2 DEF i
    <3>4. (f \o g)[k] = g[j] BY <2>2, ConcatProperties, <1>1
    <3> HIDE DEF j
    <3> QED BY <3>1, <3>3, <3>4 DEF Joins
  <2>3. k <= Len(f) \/ k > Len(f)
    BY <1>1
  <2> QED BY <2>1, <2>2, <2>3, Zenon
<1> DEFINE w == m \o l
           h == f \o g
<1>3. /\ w \in Seq(V) /\ Len(w) = 6 * Len(h)
      /\ \A k \in 1 .. Len(h), r \in 1 .. 6 : w[6 * k - 6 + r] = h[k][r]
  <2>1. w \in Seq(V) /\ Len(w) = 6 * Len(h) BY <1>1
  <2>2. \A k \in 1 .. Len(h), r \in 1 .. 6 : w[6 * k - 6 + r] = h[k][r] BY <1>2, Zenon
  <2> QED BY <2>1, <2>2
<1> HIDE DEF w, h
<1>4. Joins(w, h, V) BY <1>3 DEF Joins
<1> QED BY <1>4 DEF w, h

LEMMA BlockLen ==
    ASSUME NEW V, NEW b \in Blocks(V)
    PROVE  b \in Seq(V) /\ Len(b) = 6
<1> DEFINE n == 6
<1>1. n \in Nat OBVIOUS
<1>2. b \in [1 .. n -> V] BY DEF Blocks
<1> HIDE DEF n
<1>3. b \in Seq(V) /\ DOMAIN b = 1 .. n BY <1>1, <1>2
<1>4. Len(b) = n BY <1>1, <1>3, LenProperties
<1> QED BY <1>3, <1>4 DEF n

LEMMA JoinsBlock ==
    ASSUME NEW V, NEW b \in Blocks(V)
    PROVE  Joins(b, <<b>>, V)
<1>1. b \in Seq(V) /\ Len(b) = 6 BY BlockLen
<1>2. Len(<<b>>) = 1 /\ <<b>>[1] = b OBVIOUS
<1>3. ASSUME NEW k \in 1 .. 1, NEW r \in 1 .. 6 PROVE b[6 * k - 6 + r] = <<b>>[k][r]
  <2>1. k = 1 /\ 6 * k - 6 + r = r OBVIOUS
  <2> QED BY <2>1, <1>2
<1> DEFINE h == <<b>>
<1>4. Len(h) = 1 /\ \A k \in 1 .. Len(h), r \in 1 .. 6 : b[6 * k - 6 + r] = h[k][r]
  BY <1>2, <1>3
<1> HIDE DEF h
<1>5. Joins(b, h, V) BY <1>1, <1>4 DEF Joins
<1> QED BY <1>5 DEF h

Below == {ss \in Nat \X Nat : ss[1] < ss[2]}

LEMMA BelowWellFounded == IsWellFoundedOn(Below, Nat)
  BY NatLessThanWellFounded DEF OpToRel, Below

(* A set of numbers that is not empty has a least one.                     *)
LEMMA LeastNatural ==
    ASSUME NEW T, T \subseteq Nat, T # {}
    PROVE  \E n \in T : \A m \in T : ~ (m < n)
<1>1. \E n \in T : \A m \in T : ~ (<<m, n>> \in Below)
  BY BelowWellFounded, WFMin, Zenon
<1> QED BY <1>1 DEF Below

(* What FlattenSeq computes step by step.                                  *)
Flattens(h, f) == h = [i \in 1 .. Len(f) |-> IF i = 1 THEN f[i] ELSE h[i - 1] \o f[i]]

(* The blocks of f up to number i, one after the other.                    *)
Joined(f, i) == [n \in 1 .. 6 * i |-> f[((n - 1) \div 6) + 1][((n - 1) % 6) + 1]]

LEMMA JoinedJoins ==
    ASSUME NEW V, NEW f \in Seq(Blocks(V)), NEW i \in 0 .. Len(f)
    PROVE  /\ Joined(f, i) \in Seq(V) /\ Len(Joined(f, i)) = 6 * i
           /\ \A k \in 1 .. i, r \in 1 .. 6 : Joined(f, i)[6 * k - 6 + r] = f[k][r]
<1>1. Len(f) \in Nat /\ i \in Nat /\ 6 * i \in Nat BY LenProperties
<1>2. ASSUME NEW k \in 1 .. i, NEW r \in 1 .. 6
      PROVE  /\ 6 * k - 6 + r \in 1 .. 6 * i
             /\ ((6 * k - 6 + r - 1) \div 6) + 1 = k /\ ((6 * k - 6 + r - 1) % 6) + 1 = r
  <2> DEFINE n == (k - 1) * 6 + (r - 1)
  <2>1. k - 1 \in Nat /\ r - 1 \in 0 .. 6 - 1 /\ 6 \in Nat BY <1>1
  <2>2. n \div 6 = k - 1 /\ n % 6 = r - 1 BY <2>1, DivUnique
  <2>3. 6 * k - 6 + r - 1 = n BY <1>1
  <2> HIDE DEF n
  <2>4. ((6 * k - 6 + r - 1) \div 6) + 1 = k /\ ((6 * k - 6 + r - 1) % 6) + 1 = r
    BY <2>2, <2>3, <1>1
  <2> QED BY <2>4, <1>1
<1>3. ASSUME NEW n \in 1 .. 6 * i PROVE Joined(f, i)[n] \in V
  <2>1. PICK k \in 1 .. i, r \in 1 .. 6 : n = 6 * k - 6 + r BY <1>1, BlockPlace
  <2>2. Joined(f, i)[n] = f[k][r] BY <2>1, <1>2 DEF Joined
  <2>3. f[k] \in Blocks(V) BY <1>1
  <2> QED BY <2>2, <2>3 DEF Blocks
<1>4. Joined(f, i) \in [1 .. 6 * i -> V] BY <1>3 DEF Joined
<1>5. Joined(f, i) \in Seq(V) /\ Len(Joined(f, i)) = 6 * i
  <2> DEFINE g == Joined(f, i)
             n == 6 * i
  <2> HIDE DEF g, n
  <2>1. g \in [1 .. n -> V] /\ n \in Nat BY <1>1, <1>4 DEF g, n
  <2>2. g \in Seq(V) BY <2>1
  <2>3. DOMAIN g = 1 .. n BY <2>1
  <2>4. Len(g) = n BY <2>1, <2>2, <2>3, LenProperties
  <2> QED BY <2>2, <2>4 DEF g, n
<1>6. ASSUME NEW k \in 1 .. i, NEW r \in 1 .. 6 PROVE Joined(f, i)[6 * k - 6 + r] = f[k][r]
  <2> DEFINE n == 6 * k - 6 + r
  <2>1. n \in 1 .. 6 * i /\ ((n - 1) \div 6) + 1 = k /\ ((n - 1) % 6) + 1 = r BY <1>2
  <2> HIDE DEF n
  <2>2. Joined(f, i)[n] = f[k][r] BY <2>1 DEF Joined
  <2> QED BY <2>2 DEF n
<1> QED BY <1>5, <1>6

LEMMA FlattenIs ==
    ASSUME NEW f, Len(f) # 0
    PROVE  FlattenSeq(f) = (CHOOSE h : Flattens(h, f))[Len(f)]
  BY DEF FlattenSeq, Flattens

(* One more block.                                                         *)
LEMMA JoinedNext ==
    ASSUME NEW V, NEW f \in Seq(Blocks(V)), NEW i \in 1 .. Len(f)
    PROVE  Joined(f, i) = IF i = 1 THEN f[i] ELSE Joined(f, i - 1) \o f[i]
<1>1. Len(f) \in Nat /\ i \in Nat /\ i \in 0 .. Len(f) /\ i - 1 \in 0 .. Len(f)
  BY LenProperties
<1>2. f[i] \in Blocks(V) OBVIOUS
<1>3. /\ Joined(f, i) \in Seq(V) /\ Len(Joined(f, i)) = 6 * i
      /\ \A k \in 1 .. i, r \in 1 .. 6 : Joined(f, i)[6 * k - 6 + r] = f[k][r]
  BY <1>1, JoinedJoins
<1>4. f[i] \in Seq(V) /\ Len(f[i]) = 6
  BY <1>2, BlockLen
<1>5. CASE i = 1
  <2>1. ASSUME NEW n \in 1 .. 6 PROVE Joined(f, i)[n] = f[i][n]
    <3>1. 6 * i - 6 + n = n /\ i \in 1 .. i BY <1>5
    <3> QED BY <3>1, <1>3
  <2>2. Len(Joined(f, i)) = 6 BY <1>3, <1>5
  <2>3. Joined(f, i) = f[i] BY <2>1, <2>2, <1>3, <1>4, SeqEqual
  <2> QED BY <2>3, <1>5
<1>6. CASE i # 1
  <2> DEFINE g == Joined(f, i - 1)
  <2>1. /\ g \in Seq(V) /\ Len(g) = 6 * (i - 1)
        /\ \A k \in 1 .. i - 1, r \in 1 .. 6 : g[6 * k - 6 + r] = f[k][r]
    BY <1>1, JoinedJoins
  <2> HIDE DEF g
  <2>2. g \o f[i] \in Seq(V) /\ Len(g \o f[i]) = 6 * (i - 1) + 6
    <3> DEFINE e == f[i]
    <3> HIDE DEF e
    <3>1. e \in Seq(V) /\ Len(e) = 6 BY <1>4 DEF e
    <3>2. g \o e \in Seq(V) /\ Len(g \o e) = Len(g) + Len(e) BY <2>1, <3>1, ConcatProperties
    <3>3. Len(g \o e) = 6 * (i - 1) + 6 BY <2>1, <3>1, <3>2
    <3> QED BY <3>2, <3>3 DEF e
  <2>3. ASSUME NEW n \in 1 .. 6 * i PROVE (g \o f[i])[n] = Joined(f, i)[n]
    <3>1. PICK k \in 1 .. i, r \in 1 .. 6 : n = 6 * k - 6 + r BY <1>1, BlockPlace
    <3>2. Joined(f, i)[n] = f[k][r] BY <3>1, <1>3
    <3>3. CASE k = i
      <4>1. ~ (n <= Len(g)) /\ n - Len(g) = r /\ n \in 1 .. Len(g) + Len(f[i])
        BY <3>1, <3>3, <2>1, <1>1, <1>4
      <4>2. (g \o f[i])[n] = f[i][r] BY <4>1, <2>1, <1>4, ConcatProperties
      <4> QED BY <4>2, <3>2, <3>3
    <3>4. CASE k # i
      <4>1. k \in 1 .. i - 1 /\ n <= Len(g) /\ n \in 1 .. Len(g) + Len(f[i])
        BY <3>1, <3>4, <2>1, <1>1, <1>4
      <4>2. (g \o f[i])[n] = g[n] BY <4>1, <2>1, <1>4, ConcatProperties
      <4>3. g[n] = f[k][r] BY <4>1, <2>1, <3>1
      <4> QED BY <4>2, <4>3, <3>2
    <3> QED BY <3>3, <3>4
  <2>4. Len(g \o f[i]) = Len(Joined(f, i)) BY <2>2, <1>3, <1>1
  <2>5. g \o f[i] = Joined(f, i)
    BY <2>2, <2>3, <2>4, <1>3, SeqEqual
  <2> QED BY <2>5, <1>6 DEF g
<1> QED BY <1>5, <1>6

(* FlattenSeq puts blocks one after the other.                             *)
LEMMA FlattenJoins ==
    ASSUME NEW V, NEW f \in Seq(Blocks(V))
    PROVE  Joins(FlattenSeq(f), f, V)
<1>0. Len(f) \in Nat BY LenProperties
<1>1. CASE Len(f) = 0
  <2>1. f = << >> /\ FlattenSeq(f) = << >> BY <1>1, EmptySeq DEF FlattenSeq
  <2>2. << >> \in Seq(V) /\ Len(<< >>) = 0 /\ 6 * 0 = 0 OBVIOUS
  <2>3. FlattenSeq(f) \in Seq(V) /\ Len(FlattenSeq(f)) = 6 * Len(f) /\ Len(f) = 0
    BY <2>1, <2>2, <1>1
  <2> QED BY <2>3 DEF Joins
<1>2. CASE Len(f) # 0
  <2> DEFINE g == [i \in 1 .. Len(f) |-> Joined(f, i)]
             h == CHOOSE h : Flattens(h, f)
  <2>1. Flattens(g, f)
    <3>1. ASSUME NEW i \in 1 .. Len(f)
          PROVE  g[i] = IF i = 1 THEN f[i] ELSE g[i - 1] \o f[i]
      <4>1. i # 1 => i - 1 \in 1 .. Len(f) BY <1>0
      <4>2. g[i] = Joined(f, i) /\ (i # 1 => g[i - 1] = Joined(f, i - 1)) BY <4>1
      <4> HIDE DEF g
      <4> QED BY <4>2, JoinedNext
    <3>2. g = [i \in 1 .. Len(f) |-> g[i]] OBVIOUS
    <3> HIDE DEF g
    <3>3. [i \in 1 .. Len(f) |-> g[i]]
            = [i \in 1 .. Len(f) |-> IF i = 1 THEN f[i] ELSE g[i - 1] \o f[i]]
      BY <3>1
    <3>4. g = [i \in 1 .. Len(f) |-> IF i = 1 THEN f[i] ELSE g[i - 1] \o f[i]]
      BY <3>2, <3>3
    <3> QED BY <3>4 DEF Flattens
  <2> HIDE DEF g
  <2>2. Flattens(h, f) BY <2>1
  <2> HIDE DEF h
  <2>3. ASSUME NEW i \in 1 .. Len(f)
        PROVE  h[i] = IF i = 1 THEN f[i] ELSE h[i - 1] \o f[i]
    BY <2>2 DEF Flattens
  <2> DEFINE wrong == {i \in 1 .. Len(f) : h[i] # Joined(f, i)}
  <2>4. wrong = {}
    <3> SUFFICES ASSUME wrong # {} PROVE FALSE
      OBVIOUS
    <3>1. wrong \subseteq Nat BY <1>0
    <3>2. PICK i \in wrong : \A m \in wrong : ~ (m < i)
      <4> HIDE DEF wrong
      <4> QED BY <3>1, LeastNatural
    <3>3. i \in 1 .. Len(f) /\ h[i] # Joined(f, i) BY <3>2
    <3>4. i # 1 => i - 1 \in 1 .. Len(f) /\ i - 1 < i BY <1>0, <3>3
    <3>5. i # 1 => h[i - 1] = Joined(f, i - 1) BY <3>2, <3>4
    <3>6. h[i] = IF i = 1 THEN f[i] ELSE Joined(f, i - 1) \o f[i] BY <2>3, <3>3, <3>5
    <3>7. Joined(f, i) = IF i = 1 THEN f[i] ELSE Joined(f, i - 1) \o f[i]
      BY <3>3, JoinedNext
    <3> QED BY <3>3, <3>6, <3>7
  <2>5. h[Len(f)] = Joined(f, Len(f)) BY <2>4, <1>0, <1>2
  <2>6. FlattenSeq(f) = Joined(f, Len(f)) BY <2>5, <1>2, FlattenIs DEF h
  <2>7. Len(f) \in 0 .. Len(f) BY <1>0
  <2> DEFINE m == Joined(f, Len(f))
  <2>8. /\ m \in Seq(V) /\ Len(m) = 6 * Len(f)
        /\ \A k \in 1 .. Len(f), r \in 1 .. 6 : m[6 * k - 6 + r] = f[k][r]
    BY <2>7, JoinedJoins
  <2> HIDE DEF m, wrong
  <2>9. Joins(m, f, V) BY <2>8 DEF Joins
  <2> QED BY <2>6, <2>9 DEF m
<1> QED BY <1>1, <1>2

(* Six sequences, one after the other.                                     *)
LEMMA FlattenSix ==
    ASSUME NEW f, Len(f) = 6
    PROVE  FlattenSeq(f) = ((((f[1] \o f[2]) \o f[3]) \o f[4]) \o f[5]) \o f[6]
<1> DEFINE a == f[1] \o f[2]
           b == a \o f[3]
           c == b \o f[4]
           d == c \o f[5]
           g == <<f[1], a, b, c, d, d \o f[6]>>
           h == CHOOSE h : Flattens(h, f)
<1>1. \A i \in 1 .. 6 : g[i] = IF i = 1 THEN f[i] ELSE g[i - 1] \o f[i]
  <2>1. /\ g[1] = f[1] /\ g[2] = g[1] \o f[2] /\ g[3] = g[2] \o f[3] /\ g[4] = g[3] \o f[4]
        /\ g[5] = g[4] \o f[5] /\ g[6] = g[5] \o f[6]
    OBVIOUS
  <2> HIDE DEF g
  <2>2. /\ 2 - 1 = 1 /\ 3 - 1 = 2 /\ 4 - 1 = 3 /\ 5 - 1 = 4 /\ 6 - 1 = 5 OBVIOUS
  <2>3. \A i \in 1 .. 6 : i = 1 \/ i = 2 \/ i = 3 \/ i = 4 \/ i = 5 \/ i = 6 OBVIOUS
  <2> QED BY <2>1, <2>2, <2>3
<1>2. g = [i \in 1 .. 6 |-> g[i]] OBVIOUS
<1>3. Flattens(g, f)
  <2> HIDE DEF g
  <2>1. [i \in 1 .. 6 |-> g[i]] = [i \in 1 .. 6 |-> IF i = 1 THEN f[i] ELSE g[i - 1] \o f[i]]
    BY <1>1
  <2>2. g = [i \in 1 .. Len(f) |-> IF i = 1 THEN f[i] ELSE g[i - 1] \o f[i]]
    BY <1>2, <2>1
  <2> QED BY <2>2 DEF Flattens
<1>4. Flattens(h, f) BY <1>3
<1> HIDE DEF h
<1>5. ASSUME NEW i \in 1 .. 6
      PROVE  h[i] = IF i = 1 THEN f[i] ELSE h[i - 1] \o f[i]
  BY <1>4 DEF Flattens
<1>6. /\ h[1] = IF 1 = 1 THEN f[1] ELSE h[1 - 1] \o f[1]
      /\ h[2] = IF 2 = 1 THEN f[2] ELSE h[2 - 1] \o f[2]
      /\ h[3] = IF 3 = 1 THEN f[3] ELSE h[3 - 1] \o f[3]
      /\ h[4] = IF 4 = 1 THEN f[4] ELSE h[4 - 1] \o f[4]
      /\ h[5] = IF 5 = 1 THEN f[5] ELSE h[5 - 1] \o f[5]
      /\ h[6] = IF 6 = 1 THEN f[6] ELSE h[6 - 1] \o f[6]
  <2>1. 1 \in 1 .. 6 /\ 2 \in 1 .. 6 /\ 3 \in 1 .. 6 /\ 4 \in 1 .. 6 /\ 5 \in 1 .. 6 /\ 6 \in 1 .. 6
    OBVIOUS
  <2> QED BY <2>1, <1>5, Zenon
<1>7. /\ 2 - 1 = 1 /\ 3 - 1 = 2 /\ 4 - 1 = 3 /\ 5 - 1 = 4 /\ 6 - 1 = 5
      /\ 2 # 1 /\ 3 # 1 /\ 4 # 1 /\ 5 # 1 /\ 6 # 1
  OBVIOUS
<1>8. /\ h[1] = f[1] /\ h[2] = h[1] \o f[2] /\ h[3] = h[2] \o f[3] /\ h[4] = h[3] \o f[4]
      /\ h[5] = h[4] \o f[5] /\ h[6] = h[5] \o f[6]
  BY <1>6, <1>7, Zenon
<1>10. FlattenSeq(f) = h[6]
  <2>1. Len(f) # 0 OBVIOUS
  <2>2. FlattenSeq(f) = h[Len(f)] BY <2>1, FlattenIs DEF h
  <2> QED BY <2>2
<1> HIDE DEF g
<1> QED BY <1>8, <1>10

-----------------------------------------------------------------------------
(* The six passes: each is a run of PlaneScan, of which PlaneScanProofs    *)
(* says what its quads cover.                                              *)

ProofX == INSTANCE PlaneScanProofs WITH Outer <- SizeX, Middle <- MeshedY, Inner <- SizeZ,
    voxels <- [c \in (0 .. SizeX - 1) \X (0 .. MeshedY - 1) \X (0 .. SizeZ - 1) |->
                  voxelsCulled[CalculateIndex(c[1], c[2], c[3])]]
ProofY == INSTANCE PlaneScanProofs WITH Outer <- MeshedY, Middle <- SizeZ, Inner <- SizeX,
    voxels <- [c \in (0 .. MeshedY - 1) \X (0 .. SizeZ - 1) \X (0 .. SizeX - 1) |->
                  voxelsCulled[CalculateIndex(c[3], c[1], c[2])]]
ProofZ == INSTANCE PlaneScanProofs WITH Outer <- SizeZ, Middle <- MeshedY, Inner <- SizeX,
    voxels <- [c \in (0 .. SizeZ - 1) \X (0 .. MeshedY - 1) \X (0 .. SizeX - 1) |->
                  voxelsCulled[CalculateIndex(c[3], c[2], c[1])]]

(* What a chunk stores.                                                    *)
Stored == {"Air", "Bedrock", "Stone"}

(* What the array holds at a cell.                                         *)
Entry(array, c) == array[CalculateIndex(c[1], c[2], c[3])]

Culled == /\ voxelsCulled \in [Indices -> Stored]
          /\ \A c \in Box : Entry(voxelsCulled, c) = IF Shown(c) THEN Entry(mVoxels, c)
                                                     ELSE "Air"

Idle == /\ at = <<0, 0, 0>> /\ quadProcessing = FALSE
        /\ q = [start |-> <<0, 0, 0>>, w |-> 0, v |-> "Air"]
        /\ resultQuads = <<>>

Scanning(axis) == /\ axis = "X" => ProofX!IInv /\ ProofX!WithinInv
                  /\ axis = "Y" => ProofY!IInv /\ ProofY!WithinInv
                  /\ axis = "Z" => ProofZ!IInv /\ ProofZ!WithinInv

(* The quads of a finished pass over array show its cells, each once.      *)
Covers(array, axis, bs) ==
    /\ bs \in Seq(Quad)
    /\ \A i \in 1 .. Len(bs) :
          /\ bs[i].w >= 1
          /\ \A k \in 0 .. bs[i].w - 1 :
                LET c == CellIn(bs[i], axis, k)
                IN  c \in Box /\ Entry(array, c) # "Air" /\ Entry(array, c) = bs[i].v
    /\ \A c \in Box : Entry(array, c) # "Air" /\ c[2] < MeshedY =>
          \E i \in 1 .. Len(bs) : \E k \in 0 .. bs[i].w - 1 : c = CellIn(bs[i], axis, k)
    /\ \A i, j \in 1 .. Len(bs) : \A k \in 0 .. bs[i].w - 1, l \in 0 .. bs[j].w - 1 :
          CellIn(bs[i], axis, k) = CellIn(bs[j], axis, l) => i = j

-----------------------------------------------------------------------------
LEMMA SizesOfScans ==
    /\ SizeX \in Nat /\ MeshedY \in Nat /\ SizeZ \in Nat
    /\ SizeX \in Nat \ {0} /\ MeshedY \in Nat \ {0} /\ SizeZ \in Nat \ {0}
  BY MeshAssumption

LEMMA LowCells ==
    ASSUME NEW x \in 0 .. SizeX - 1, NEW y \in 0 .. MeshedY - 1, NEW z \in 0 .. SizeZ - 1
    PROVE  <<x, y, z>> \in Box /\ CalculateIndex(x, y, z) \in Indices
<1>1. y \in 0 .. SizeY - 1 BY SizesPositive
<1> QED BY <1>1, IndexOfCell DEF Box

LEMMA StartX == Culled /\ Idle => ProofX!IInv /\ ProofX!WithinInv
<1> SUFFICES ASSUME Culled, Idle PROVE ProofX!IInv /\ ProofX!WithinInv
  OBVIOUS
<1> DEFINE vox == [c \in (0 .. SizeX - 1) \X (0 .. MeshedY - 1) \X (0 .. SizeZ - 1) |->
                      voxelsCulled[CalculateIndex(c[1], c[2], c[3])]]
<1>1. ASSUME NEW c \in (0 .. SizeX - 1) \X (0 .. MeshedY - 1) \X (0 .. SizeZ - 1)
      PROVE  voxelsCulled[CalculateIndex(c[1], c[2], c[3])] \in Stored
  BY LowCells DEF Culled
<1>2. vox \in [(0 .. SizeX - 1) \X (0 .. MeshedY - 1) \X (0 .. SizeZ - 1) -> Stored]
  BY <1>1
<1>3. Stored = ProofX!VoxelType \ {"Unknown"}
  BY DEF Stored, ProofX!VoxelType
<1>4. vox \in [(0 .. SizeX - 1) \X (0 .. MeshedY - 1) \X (0 .. SizeZ - 1)
                 -> ProofX!VoxelType \ {"Unknown"}]
  BY <1>2, <1>3
<1> HIDE DEF vox
<1>5. ProofX!Init
  BY <1>4 DEF ProofX!Init, ProofX!Cells, ProofX!Reset, Idle, vox
<1>6. ProofX!WithinInv
  BY DEF ProofX!WithinInv, ProofX!Closed, Idle
<1> QED BY <1>5, <1>6, SizesOfScans, ProofX!InitInv

LEMMA StepX ==
    ASSUME ProofX!IInv, ProofX!WithinInv, ScanX!Scan, UNCHANGED voxelsCulled
    PROVE  ProofX!IInv' /\ ProofX!WithinInv'
<1>1. ProofX!Scan
  BY DEF ProofX!Scan, ScanX!Scan, ScanX!Begin, ProofX!Begin,
   ScanX!Extend, ProofX!Extend, ScanX!Split, ProofX!Split,
   ScanX!CloseAtAir, ProofX!CloseAtAir, ScanX!SkipAir, ProofX!SkipAir,
   ScanX!EndLine, ProofX!EndLine,
   ScanX!InLine, ProofX!InLine, ScanX!Solid, ProofX!Solid, ScanX!Single, ProofX!Single,
   ScanX!NextInLine, ProofX!NextInLine, ScanX!SameType, ProofX!SameType,
   ScanX!Push, ProofX!Push, ScanX!CloseAtEnd, ProofX!CloseAtEnd, ScanX!NextLine, ProofX!NextLine
<1>2. ProofX!Next
  BY <1>1 DEF ProofX!Next
<1>3. [ProofX!Next]_(ProofX!vars)
  BY <1>2
<1> QED BY <1>3, SizesOfScans, ProofX!StepKeeps, ProofX!WithinKeeps

(* Loop variables c are under quad b.                                      *)
Under(c, b) == /\ c[1] = b.start[1] /\ c[2] = b.start[2]
               /\ b.start[3] <= c[3] /\ c[3] < b.start[3] + b.w

Loops(A, B, C) == (0 .. A - 1) \X (0 .. B - 1) \X (0 .. C - 1)

(* The loops visit each cell of the box once, and the quads bs cover what  *)
(* is solid there.                                                         *)
Visits(axis, Cs) ==
    /\ \A c \in Cs : CellOf(axis, c) \in Box
    /\ \A c \in Box : c[2] < MeshedY => \E e \in Cs : CellOf(axis, e) = c
    /\ \A c, e \in Cs : CellOf(axis, c) = CellOf(axis, e) => c = e
LoopsCover(array, axis, bs, Cs, C) ==
    /\ \A i \in 1 .. Len(bs) :
          /\ bs[i].start \in Cs /\ bs[i].start[3] + bs[i].w <= C /\ bs[i].w >= 1
          /\ \A c \in Cs : Under(c, bs[i]) =>
                /\ Entry(array, CellOf(axis, c)) # "Air"
                /\ Entry(array, CellOf(axis, c)) = bs[i].v
    /\ \A c \in Cs : Entry(array, CellOf(axis, c)) \notin {"Air", "Unknown"}
          => \E i \in 1 .. Len(bs) : Under(c, bs[i])
    /\ \A c \in Cs : \A i, j \in 1 .. Len(bs) :
          Under(c, bs[i]) /\ Under(c, bs[j]) => i = j

LEMMA CoversFrom ==
    ASSUME NEW axis, NEW array, NEW bs \in Seq(Quad),
           NEW A \in Nat, NEW B \in Nat, NEW C \in Nat,
           NEW Cs, Cs = Loops(A, B, C), Visits(axis, Cs),
           \A c \in Box : Entry(array, c) # "Unknown",
           LoopsCover(array, axis, bs, Cs, C)
    PROVE  Covers(array, axis, bs)
<1> USE DEF Loops, Visits, LoopsCover
<1> DEFINE Loop(i, k) == <<bs[i].start[1], bs[i].start[2], bs[i].start[3] + k>>
<1>1. ASSUME NEW i \in 1 .. Len(bs), NEW k \in 0 .. bs[i].w - 1
      PROVE  /\ Loop(i, k) \in Cs /\ Under(Loop(i, k), bs[i])
             /\ CellIn(bs[i], axis, k) = CellOf(axis, Loop(i, k))
  <2> DEFINE b == bs[i]
             s == b.start[3]
             w == b.w
             z == s + k
  <2>1. b \in Quad OBVIOUS
  <2>2. b.start \in Cs /\ s + w <= C /\ w \in Nat /\ s \in Nat /\ k \in 0 .. w - 1
    BY <2>1, QuadFields
  <2>3. b.start[1] \in 0 .. A - 1 /\ b.start[2] \in 0 .. B - 1
    BY <2>2
  <2> HIDE DEF b, s, w
  <2>4. z \in 0 .. C - 1 /\ s <= z /\ z < s + w BY <2>2
  <2> HIDE DEF z
  <2>5. <<b.start[1], b.start[2], z>> \in Cs
    BY <2>3, <2>4
  <2>6. Under(<<b.start[1], b.start[2], z>>, b)
    BY <2>4 DEF Under, s, w
  <2> QED BY <2>5, <2>6 DEF CellIn, b, s, z
<1> HIDE DEF Loop
<1>2. ASSUME NEW i \in 1 .. Len(bs), NEW c \in Cs, Under(c, bs[i])
      PROVE  \E k \in 0 .. bs[i].w - 1 : c = Loop(i, k)
  <2> DEFINE b == bs[i]
             s == b.start[3]
             w == b.w
             z == c[3]
             k == z - s
  <2>1. w \in Nat /\ s \in Nat
    <3>1. b \in Quad OBVIOUS
    <3> QED BY <3>1, QuadFields
  <2>2. c = <<c[1], c[2], z>> /\ z \in Int OBVIOUS
  <2>3. c[1] = b.start[1] /\ c[2] = b.start[2] /\ s <= z /\ z < s + w
    BY <1>2 DEF Under
  <2> HIDE DEF b, s, w, z
  <2>4. k \in 0 .. w - 1 /\ s + k = z BY <2>1, <2>2, <2>3
  <2> HIDE DEF k
  <2>5. c = <<b.start[1], b.start[2], s + k>> BY <2>2, <2>3, <2>4
  <2> QED BY <2>4, <2>5 DEF b, s, w, Loop
<1>3. ASSUME NEW i \in 1 .. Len(bs), NEW k \in 0 .. bs[i].w - 1
      PROVE  LET c == CellIn(bs[i], axis, k)
             IN  c \in Box /\ Entry(array, c) # "Air" /\ Entry(array, c) = bs[i].v
  BY <1>1
<1>4. ASSUME NEW c \in Box, Entry(array, c) # "Air", c[2] < MeshedY
      PROVE  \E i \in 1 .. Len(bs) : \E k \in 0 .. bs[i].w - 1 : c = CellIn(bs[i], axis, k)
  <2>1. PICK e \in Cs : CellOf(axis, e) = c BY <1>4
  <2>2. PICK i \in 1 .. Len(bs) : Under(e, bs[i]) BY <1>4, <2>1
  <2>3. PICK k \in 0 .. bs[i].w - 1 : e = Loop(i, k) BY <2>2, <1>2
  <2>4. c = CellIn(bs[i], axis, k) BY <2>1, <2>3, <1>1
  <2> QED BY <2>4
<1>5. ASSUME NEW i \in 1 .. Len(bs), NEW j \in 1 .. Len(bs),
             NEW k \in 0 .. bs[i].w - 1, NEW l \in 0 .. bs[j].w - 1,
             CellIn(bs[i], axis, k) = CellIn(bs[j], axis, l)
      PROVE  i = j
  <2>1. Loop(i, k) = Loop(j, l)
    <3>1. Loop(i, k) \in Cs /\ CellIn(bs[i], axis, k) = CellOf(axis, Loop(i, k))
      BY <1>1
    <3>2. Loop(j, l) \in Cs /\ CellIn(bs[j], axis, l) = CellOf(axis, Loop(j, l))
      BY <1>1
    <3> HIDE DEF LoopsCover
    <3> QED BY <3>1, <3>2, <1>5
  <2>2. Loop(i, k) \in Cs /\ Under(Loop(i, k), bs[i]) /\ Under(Loop(i, k), bs[j])
    <3>1. Under(Loop(j, l), bs[j]) BY <1>1
    <3> QED BY <2>1, <3>1, <1>1
  <2> QED BY <2>2
<1>6. \A i \in 1 .. Len(bs) : bs[i].w >= 1 OBVIOUS
<1> QED BY <1>3, <1>4, <1>5, <1>6 DEF Covers

LEMMA DoneX ==
    ASSUME Culled, ProofX!IInv, ProofX!WithinInv, ScanX!Finished
    PROVE  Covers(voxelsCulled, "X", resultQuads)
<1> DEFINE Cs == (0 .. SizeX - 1) \X (0 .. MeshedY - 1) \X (0 .. SizeZ - 1)
           bs == resultQuads
<1>1. ProofX!Covering
  BY SizesOfScans, ProofX!FinishedCovers DEF ScanX!Finished, ProofX!Finished
<1>2. ProofX!Cells = Cs /\ ProofX!Quad = Quad /\ ProofX!Closed = DOMAIN bs
  BY DEF ProofX!Cells, ProofX!Quad, Quad, ProofX!VoxelType, VoxelType, ProofX!Closed
<1>3. bs \in Seq(Quad)
  BY <1>1, <1>2 DEF ProofX!Covering
<1>4. DOMAIN bs = 1 .. Len(bs)
  BY <1>3
<1>5. \A c \in Cs : CellOf("X", c) = c
  BY DEF CellOf
<1>6. ASSUME NEW c \in Cs PROVE CellOf("X", c) \in Box
  BY <1>5, LowCells
<1>7. ASSUME NEW c \in Box, c[2] < MeshedY PROVE \E e \in Cs : CellOf("X", e) = c
  <2>1. c \in Cs
    BY <1>7, BoxNumbers, SizesPositive
  <2> QED BY <1>5, <2>1
<1>8. \A c \in Box : Entry(voxelsCulled, c) # "Unknown"
  <2>1. ASSUME NEW c \in Box PROVE CalculateIndex(c[1], c[2], c[3]) \in Indices
    BY BoxNumbers, IndexOfCell
  <2> QED BY <2>1 DEF Entry, Culled, Stored
<1> DEFINE vox == [c \in Cs |-> voxelsCulled[CalculateIndex(c[1], c[2], c[3])]]
<1>9. \A c \in Cs : vox[c] = Entry(voxelsCulled, CellOf("X", c))
  BY <1>5 DEF Entry
<1>10. /\ \A i \in DOMAIN bs :
             /\ bs[i].start \in Cs /\ bs[i].start[3] + bs[i].w <= SizeZ /\ bs[i].w >= 1
             /\ \A c \in Cs : Under(c, bs[i]) => vox[c] \notin {"Air", "Unknown"} /\ vox[c] = bs[i].v
       /\ \A c \in Cs : vox[c] \notin {"Air", "Unknown"} => \E i \in DOMAIN bs : Under(c, bs[i])
       /\ \A c \in Cs : \A i, j \in DOMAIN bs :
             Under(c, bs[i]) /\ Under(c, bs[j]) => i = j
  <2>1. \A c, b : ProofX!InQuad(c, b) <=> Under(c, b)
    BY DEF ProofX!InQuad, Under
  <2> HIDE DEF Cs, bs
  <2> USE <1>1, <1>2, <2>1 DEF ProofX!Covering, vox
  <2>2. ASSUME NEW i \in DOMAIN bs
        PROVE  /\ bs[i].start \in Cs /\ bs[i].start[3] + bs[i].w <= SizeZ /\ bs[i].w >= 1
               /\ \A c \in Cs : Under(c, bs[i]) => vox[c] \notin {"Air", "Unknown"} /\ vox[c] = bs[i].v
    BY DEF ProofX!Within, ProofX!End, ProofX!Shows, ProofX!Solid, bs, Cs
  <2>3. ASSUME NEW c \in Cs, vox[c] \notin {"Air", "Unknown"}
        PROVE  \E i \in DOMAIN bs : Under(c, bs[i])
    BY <2>3 DEF ProofX!Solid, bs, Cs
  <2>4. ASSUME NEW c \in Cs, NEW i \in DOMAIN bs, NEW j \in DOMAIN bs,
               Under(c, bs[i]), Under(c, bs[j])
        PROVE  i = j
    BY <2>4 DEF bs, Cs
  <2> QED BY <2>2, <2>3, <2>4
<1> HIDE DEF Cs, bs, vox
<1>11. LoopsCover(voxelsCulled, "X", bs, Cs, SizeZ)
  BY <1>4, <1>9, <1>10 DEF LoopsCover
<1>12. Cs = Loops(SizeX, MeshedY, SizeZ)
  BY DEF Cs, Loops
<1>13. Visits("X", Cs)
  BY <1>5, <1>6, <1>7 DEF Visits
<1>14. Covers(voxelsCulled, "X", bs)
  BY <1>3, <1>8, <1>11, <1>12, <1>13, SizesOfScans, CoversFrom
<1> QED BY <1>14 DEF bs

LEMMA StartY == Culled /\ Idle => ProofY!IInv /\ ProofY!WithinInv
<1> SUFFICES ASSUME Culled, Idle PROVE ProofY!IInv /\ ProofY!WithinInv
  OBVIOUS
<1> DEFINE vox == [c \in (0 .. MeshedY - 1) \X (0 .. SizeZ - 1) \X (0 .. SizeX - 1) |->
                      voxelsCulled[CalculateIndex(c[3], c[1], c[2])]]
<1>1. ASSUME NEW c \in (0 .. MeshedY - 1) \X (0 .. SizeZ - 1) \X (0 .. SizeX - 1)
      PROVE  voxelsCulled[CalculateIndex(c[3], c[1], c[2])] \in Stored
  BY LowCells DEF Culled
<1>2. vox \in [(0 .. MeshedY - 1) \X (0 .. SizeZ - 1) \X (0 .. SizeX - 1) -> Stored]
  BY <1>1
<1>3. Stored = ProofY!VoxelType \ {"Unknown"}
  BY DEF Stored, ProofY!VoxelType
<1>4. vox \in [(0 .. MeshedY - 1) \X (0 .. SizeZ - 1) \X (0 .. SizeX - 1)
                 -> ProofY!VoxelType \ {"Unknown"}]
  BY <1>2, <1>3
<1> HIDE DEF vox
<1>5. ProofY!Init
  BY <1>4 DEF ProofY!Init, ProofY!Cells, ProofY!Reset, Idle, vox
<1>6. ProofY!WithinInv
  BY DEF ProofY!WithinInv, ProofY!Closed, Idle
<1> QED BY <1>5, <1>6, SizesOfScans, ProofY!InitInv

LEMMA StepY ==
    ASSUME ProofY!IInv, ProofY!WithinInv, ScanY!Scan, UNCHANGED voxelsCulled
    PROVE  ProofY!IInv' /\ ProofY!WithinInv'
<1>1. ProofY!Scan
  BY DEF ProofY!Scan, ScanY!Scan, ScanY!Begin, ProofY!Begin,
   ScanY!Extend, ProofY!Extend, ScanY!Split, ProofY!Split,
   ScanY!CloseAtAir, ProofY!CloseAtAir, ScanY!SkipAir, ProofY!SkipAir,
   ScanY!EndLine, ProofY!EndLine,
   ScanY!InLine, ProofY!InLine, ScanY!Solid, ProofY!Solid, ScanY!Single, ProofY!Single,
   ScanY!NextInLine, ProofY!NextInLine, ScanY!SameType, ProofY!SameType,
   ScanY!Push, ProofY!Push, ScanY!CloseAtEnd, ProofY!CloseAtEnd, ScanY!NextLine, ProofY!NextLine
<1>2. ProofY!Next
  BY <1>1 DEF ProofY!Next
<1>3. [ProofY!Next]_(ProofY!vars)
  BY <1>2
<1> QED BY <1>3, SizesOfScans, ProofY!StepKeeps, ProofY!WithinKeeps
LEMMA DoneY ==
    ASSUME Culled, ProofY!IInv, ProofY!WithinInv, ScanY!Finished
    PROVE  Covers(voxelsCulled, "Y", resultQuads)
<1> DEFINE Cs == (0 .. MeshedY - 1) \X (0 .. SizeZ - 1) \X (0 .. SizeX - 1)
           bs == resultQuads
<1>1. ProofY!Covering
  BY SizesOfScans, ProofY!FinishedCovers DEF ScanY!Finished, ProofY!Finished
<1>2. ProofY!Cells = Cs /\ ProofY!Quad = Quad /\ ProofY!Closed = DOMAIN bs
  BY DEF ProofY!Cells, ProofY!Quad, Quad, ProofY!VoxelType, VoxelType, ProofY!Closed
<1>3. bs \in Seq(Quad)
  BY <1>1, <1>2 DEF ProofY!Covering
<1>4. DOMAIN bs = 1 .. Len(bs)
  BY <1>3
<1>5. \A c \in Cs : CellOf("Y", c) = <<c[3], c[1], c[2]>>
  BY DEF CellOf
<1>6. ASSUME NEW c \in Cs PROVE CellOf("Y", c) \in Box
  BY <1>5, LowCells
<1>7. ASSUME NEW c \in Box, c[2] < MeshedY PROVE \E e \in Cs : CellOf("Y", e) = c
  <2>1. <<c[2], c[3], c[1]>> \in Cs
    BY <1>7, BoxNumbers, SizesPositive
  <2>2. c = <<c[1], c[2], c[3]>>
    BY BoxNumbers
  <2>3. CellOf("Y", <<c[2], c[3], c[1]>>) = <<c[1], c[2], c[3]>>
    BY DEF CellOf
  <2> QED BY <2>1, <2>2, <2>3
<1>8. \A c \in Box : Entry(voxelsCulled, c) # "Unknown"
  <2>1. ASSUME NEW c \in Box PROVE CalculateIndex(c[1], c[2], c[3]) \in Indices
    BY BoxNumbers, IndexOfCell
  <2> QED BY <2>1 DEF Entry, Culled, Stored
<1> DEFINE vox == [c \in Cs |-> voxelsCulled[CalculateIndex(c[3], c[1], c[2])]]
<1>9. \A c \in Cs : vox[c] = Entry(voxelsCulled, CellOf("Y", c))
  BY <1>5 DEF Entry
<1>10. /\ \A i \in DOMAIN bs :
             /\ bs[i].start \in Cs /\ bs[i].start[3] + bs[i].w <= SizeX /\ bs[i].w >= 1
             /\ \A c \in Cs : Under(c, bs[i]) => vox[c] \notin {"Air", "Unknown"} /\ vox[c] = bs[i].v
       /\ \A c \in Cs : vox[c] \notin {"Air", "Unknown"} => \E i \in DOMAIN bs : Under(c, bs[i])
       /\ \A c \in Cs : \A i, j \in DOMAIN bs :
             Under(c, bs[i]) /\ Under(c, bs[j]) => i = j
  <2>1. \A c, b : ProofY!InQuad(c, b) <=> Under(c, b)
    BY DEF ProofY!InQuad, Under
  <2> HIDE DEF Cs, bs
  <2> USE <1>1, <1>2, <2>1 DEF ProofY!Covering, vox
  <2>2. ASSUME NEW i \in DOMAIN bs
        PROVE  /\ bs[i].start \in Cs /\ bs[i].start[3] + bs[i].w <= SizeX /\ bs[i].w >= 1
               /\ \A c \in Cs : Under(c, bs[i]) => vox[c] \notin {"Air", "Unknown"} /\ vox[c] = bs[i].v
    BY DEF ProofY!Within, ProofY!End, ProofY!Shows, ProofY!Solid, bs, Cs
  <2>3. ASSUME NEW c \in Cs, vox[c] \notin {"Air", "Unknown"}
        PROVE  \E i \in DOMAIN bs : Under(c, bs[i])
    BY <2>3 DEF ProofY!Solid, bs, Cs
  <2>4. ASSUME NEW c \in Cs, NEW i \in DOMAIN bs, NEW j \in DOMAIN bs,
               Under(c, bs[i]), Under(c, bs[j])
        PROVE  i = j
    BY <2>4 DEF bs, Cs
  <2> QED BY <2>2, <2>3, <2>4
<1> HIDE DEF Cs, bs, vox
<1>11. LoopsCover(voxelsCulled, "Y", bs, Cs, SizeX)
  BY <1>4, <1>9, <1>10 DEF LoopsCover
<1>12. Cs = Loops(MeshedY, SizeZ, SizeX)
  BY DEF Cs, Loops
<1>13. ASSUME NEW c \in Cs, NEW e \in Cs, CellOf("Y", c) = CellOf("Y", e)
       PROVE  c = e
  <2>1. c = <<c[1], c[2], c[3]>> /\ e = <<e[1], e[2], e[3]>>
    BY <1>12 DEF Loops
  <2>2. <<c[3], c[1], c[2]>> = <<e[3], e[1], e[2]>>
    BY <1>5, <1>13
  <2>3. c[1] = e[1] /\ c[2] = e[2] /\ c[3] = e[3]
    BY <2>2
  <2> QED BY <2>1, <2>3
<1>14. Visits("Y", Cs)
  BY <1>6, <1>7, <1>13 DEF Visits
<1>15. Covers(voxelsCulled, "Y", bs)
  BY <1>3, <1>8, <1>11, <1>12, <1>14, SizesOfScans, CoversFrom
<1> QED BY <1>15 DEF bs

LEMMA StartZ == Culled /\ Idle => ProofZ!IInv /\ ProofZ!WithinInv
<1> SUFFICES ASSUME Culled, Idle PROVE ProofZ!IInv /\ ProofZ!WithinInv
  OBVIOUS
<1> DEFINE vox == [c \in (0 .. SizeZ - 1) \X (0 .. MeshedY - 1) \X (0 .. SizeX - 1) |->
                      voxelsCulled[CalculateIndex(c[3], c[2], c[1])]]
<1>1. ASSUME NEW c \in (0 .. SizeZ - 1) \X (0 .. MeshedY - 1) \X (0 .. SizeX - 1)
      PROVE  voxelsCulled[CalculateIndex(c[3], c[2], c[1])] \in Stored
  BY LowCells DEF Culled
<1>2. vox \in [(0 .. SizeZ - 1) \X (0 .. MeshedY - 1) \X (0 .. SizeX - 1) -> Stored]
  BY <1>1
<1>3. Stored = ProofZ!VoxelType \ {"Unknown"}
  BY DEF Stored, ProofZ!VoxelType
<1>4. vox \in [(0 .. SizeZ - 1) \X (0 .. MeshedY - 1) \X (0 .. SizeX - 1)
                 -> ProofZ!VoxelType \ {"Unknown"}]
  BY <1>2, <1>3
<1> HIDE DEF vox
<1>5. ProofZ!Init
  BY <1>4 DEF ProofZ!Init, ProofZ!Cells, ProofZ!Reset, Idle, vox
<1>6. ProofZ!WithinInv
  BY DEF ProofZ!WithinInv, ProofZ!Closed, Idle
<1> QED BY <1>5, <1>6, SizesOfScans, ProofZ!InitInv

LEMMA StepZ ==
    ASSUME ProofZ!IInv, ProofZ!WithinInv, ScanZ!Scan, UNCHANGED voxelsCulled
    PROVE  ProofZ!IInv' /\ ProofZ!WithinInv'
<1>1. ProofZ!Scan
  BY DEF ProofZ!Scan, ScanZ!Scan, ScanZ!Begin, ProofZ!Begin,
   ScanZ!Extend, ProofZ!Extend, ScanZ!Split, ProofZ!Split,
   ScanZ!CloseAtAir, ProofZ!CloseAtAir, ScanZ!SkipAir, ProofZ!SkipAir,
   ScanZ!EndLine, ProofZ!EndLine,
   ScanZ!InLine, ProofZ!InLine, ScanZ!Solid, ProofZ!Solid, ScanZ!Single, ProofZ!Single,
   ScanZ!NextInLine, ProofZ!NextInLine, ScanZ!SameType, ProofZ!SameType,
   ScanZ!Push, ProofZ!Push, ScanZ!CloseAtEnd, ProofZ!CloseAtEnd, ScanZ!NextLine, ProofZ!NextLine
<1>2. ProofZ!Next
  BY <1>1 DEF ProofZ!Next
<1>3. [ProofZ!Next]_(ProofZ!vars)
  BY <1>2
<1> QED BY <1>3, SizesOfScans, ProofZ!StepKeeps, ProofZ!WithinKeeps
LEMMA DoneZ ==
    ASSUME Culled, ProofZ!IInv, ProofZ!WithinInv, ScanZ!Finished
    PROVE  Covers(voxelsCulled, "Z", resultQuads)
<1> DEFINE Cs == (0 .. SizeZ - 1) \X (0 .. MeshedY - 1) \X (0 .. SizeX - 1)
           bs == resultQuads
<1>1. ProofZ!Covering
  BY SizesOfScans, ProofZ!FinishedCovers DEF ScanZ!Finished, ProofZ!Finished
<1>2. ProofZ!Cells = Cs /\ ProofZ!Quad = Quad /\ ProofZ!Closed = DOMAIN bs
  BY DEF ProofZ!Cells, ProofZ!Quad, Quad, ProofZ!VoxelType, VoxelType, ProofZ!Closed
<1>3. bs \in Seq(Quad)
  BY <1>1, <1>2 DEF ProofZ!Covering
<1>4. DOMAIN bs = 1 .. Len(bs)
  BY <1>3
<1>5. \A c \in Cs : CellOf("Z", c) = <<c[3], c[2], c[1]>>
  BY DEF CellOf
<1>6. ASSUME NEW c \in Cs PROVE CellOf("Z", c) \in Box
  BY <1>5, LowCells
<1>7. ASSUME NEW c \in Box, c[2] < MeshedY PROVE \E e \in Cs : CellOf("Z", e) = c
  <2>1. <<c[3], c[2], c[1]>> \in Cs
    BY <1>7, BoxNumbers, SizesPositive
  <2>2. c = <<c[1], c[2], c[3]>>
    BY BoxNumbers
  <2>3. CellOf("Z", <<c[3], c[2], c[1]>>) = <<c[1], c[2], c[3]>>
    BY DEF CellOf
  <2> QED BY <2>1, <2>2, <2>3
<1>8. \A c \in Box : Entry(voxelsCulled, c) # "Unknown"
  <2>1. ASSUME NEW c \in Box PROVE CalculateIndex(c[1], c[2], c[3]) \in Indices
    BY BoxNumbers, IndexOfCell
  <2> QED BY <2>1 DEF Entry, Culled, Stored
<1> DEFINE vox == [c \in Cs |-> voxelsCulled[CalculateIndex(c[3], c[2], c[1])]]
<1>9. \A c \in Cs : vox[c] = Entry(voxelsCulled, CellOf("Z", c))
  BY <1>5 DEF Entry
<1>10. /\ \A i \in DOMAIN bs :
             /\ bs[i].start \in Cs /\ bs[i].start[3] + bs[i].w <= SizeX /\ bs[i].w >= 1
             /\ \A c \in Cs : Under(c, bs[i]) => vox[c] \notin {"Air", "Unknown"} /\ vox[c] = bs[i].v
       /\ \A c \in Cs : vox[c] \notin {"Air", "Unknown"} => \E i \in DOMAIN bs : Under(c, bs[i])
       /\ \A c \in Cs : \A i, j \in DOMAIN bs :
             Under(c, bs[i]) /\ Under(c, bs[j]) => i = j
  <2>1. \A c, b : ProofZ!InQuad(c, b) <=> Under(c, b)
    BY DEF ProofZ!InQuad, Under
  <2> HIDE DEF Cs, bs
  <2> USE <1>1, <1>2, <2>1 DEF ProofZ!Covering, vox
  <2>2. ASSUME NEW i \in DOMAIN bs
        PROVE  /\ bs[i].start \in Cs /\ bs[i].start[3] + bs[i].w <= SizeX /\ bs[i].w >= 1
               /\ \A c \in Cs : Under(c, bs[i]) => vox[c] \notin {"Air", "Unknown"} /\ vox[c] = bs[i].v
    BY DEF ProofZ!Within, ProofZ!End, ProofZ!Shows, ProofZ!Solid, bs, Cs
  <2>3. ASSUME NEW c \in Cs, vox[c] \notin {"Air", "Unknown"}
        PROVE  \E i \in DOMAIN bs : Under(c, bs[i])
    BY <2>3 DEF ProofZ!Solid, bs, Cs
  <2>4. ASSUME NEW c \in Cs, NEW i \in DOMAIN bs, NEW j \in DOMAIN bs,
               Under(c, bs[i]), Under(c, bs[j])
        PROVE  i = j
    BY <2>4 DEF bs, Cs
  <2> QED BY <2>2, <2>3, <2>4
<1> HIDE DEF Cs, bs, vox
<1>11. LoopsCover(voxelsCulled, "Z", bs, Cs, SizeX)
  BY <1>4, <1>9, <1>10 DEF LoopsCover
<1>12. Cs = Loops(SizeZ, MeshedY, SizeX)
  BY DEF Cs, Loops
<1>13. ASSUME NEW c \in Cs, NEW e \in Cs, CellOf("Z", c) = CellOf("Z", e)
       PROVE  c = e
  <2>1. c = <<c[1], c[2], c[3]>> /\ e = <<e[1], e[2], e[3]>>
    BY <1>12 DEF Loops
  <2>2. <<c[3], c[2], c[1]>> = <<e[3], e[2], e[1]>>
    BY <1>5, <1>13
  <2>3. c[1] = e[1] /\ c[2] = e[2] /\ c[3] = e[3]
    BY <2>2
  <2> QED BY <2>1, <2>3
<1>14. Visits("Z", Cs)
  BY <1>6, <1>7, <1>13 DEF Visits
<1>15. Covers(voxelsCulled, "Z", bs)
  BY <1>3, <1>8, <1>11, <1>12, <1>14, SizesOfScans, CoversFrom
<1> QED BY <1>15 DEF bs

-----------------------------------------------------------------------------
(* The inductive invariant: what a pass has done stays done until the      *)
(* voxels change.                                                          *)

Filled == /\ mVoxels \in [Indices -> Stored]
          /\ \A c \in Box : c[2] >= MeshedY => Entry(mVoxels, c) = "Air"

PassesDone == \A p \in 1 .. 6 :
                 p < pass => Covers(voxelsCulled, Sides[p].axis, quads[p])

Pushed == mVerts = FlattenSeq([p \in 1 .. 6 |-> VertsOfPass(p)])

MeshInv == /\ Filled
           /\ pass \in 0 .. 8
           /\ pass \in {0, 7, 8} => Idle
           /\ pass \in 1 .. 8 => Culled
           /\ pass \in 1 .. 6 => Scanning(Sides[pass].axis)
           /\ quads \in [1 .. 6 -> Seq(Quad)]
           /\ PassesDone
           /\ pass = 8 => Pushed

LEMMA CellIndex ==
    ASSUME NEW c \in Box
    PROVE  /\ CalculateIndex(c[1], c[2], c[3]) \in Indices
           /\ CellAt(CalculateIndex(c[1], c[2], c[3])) = c
  BY BoxNumbers, IndexOfCell

LEMMA VoxelOfCell == ASSUME NEW c \in Box PROVE GetVoxel(c[1], c[2], c[3]) = Entry(mVoxels, c)
<1>1. ~ (c[1] > SizeX \/ c[2] > SizeY \/ c[3] > SizeZ)
  BY BoxNumbers, SizesPositive
<1> QED BY <1>1 DEF GetVoxel, Entry

LEMMA AxisOfSide == \A p \in 1 .. 6 : Sides[p].axis \in {"X", "Y", "Z"}
<1> SUFFICES ASSUME NEW p \in 1 .. 6 PROVE Sides[p].axis \in {"X", "Y", "Z"}
  OBVIOUS
<1>1. p = 1 \/ p = 2 \/ p = 3 \/ p = 4 \/ p = 5 \/ p = 6 OBVIOUS
<1> QED BY <1>1, SidesListed DEF Side

LEMMA MeshInit == Init => MeshInv
<1> SUFFICES ASSUME Init PROVE MeshInv
  OBVIOUS
<1>1. PICK height \in HeightMaps : mVoxels = Generated(height)
  BY DEF Init
<1>2. mVoxels \in [Indices -> Stored]
  BY <1>1 DEF Generated, Stored
<1>3. ASSUME NEW c \in Box, c[2] >= MeshedY PROVE Entry(mVoxels, c) = "Air"
  <2>1. /\ c[1] \in 0 .. SizeX - 1 /\ c[2] \in 0 .. SizeY - 1 /\ c[3] \in 0 .. SizeZ - 1
    BY BoxNumbers
  <2>2. <<c[1], c[3]>> \in Columns
    BY <2>1 DEF Columns
  <2>3. height[<<c[1], c[3]>>] \in StoneY + 1 .. MeshedY
    BY <2>2, MeshAssumption
  <2>4. BedrockY \in Nat /\ StoneY \in Nat /\ MeshedY \in Nat /\ BedrockY < MeshedY
    BY MeshAssumption
  <2>5. ~ (c[2] < BedrockY) /\ ~ (c[2] < height[<<c[1], c[3]>>])
    BY <1>3, <2>1, <2>3, <2>4, SizesPositive
  <2> DEFINE i == CalculateIndex(c[1], c[2], c[3])
  <2>6. i \in Indices /\ CellAt(i) = c
    BY CellIndex
  <2> HIDE DEF i
  <2>7. mVoxels[i] = "Air"
    BY <1>1, <2>5, <2>6 DEF Generated
  <2> QED BY <2>7 DEF Entry, i
<1>4. pass = 0 /\ Idle
  BY DEF Init, Idle
<1>5. quads \in [1 .. 6 -> Seq(Quad)]
  <2>1. << >> \in Seq(Quad) OBVIOUS
  <2> QED BY <2>1 DEF Init
<1> QED BY <1>2, <1>3, <1>4, <1>5 DEF MeshInv, Filled, PassesDone

LEMMA CullKeeps == ASSUME MeshInv, Cull PROVE MeshInv'
<1>1. /\ pass = 0 /\ pass' = 1 /\ Filled /\ Idle
      /\ mVoxels' = mVoxels /\ quads' = quads
      /\ at' = at /\ quadProcessing' = quadProcessing /\ q' = q /\ resultQuads' = resultQuads
      /\ voxelsCulled' = [i \in Indices |-> IF Shown(CellAt(i)) THEN mVoxels[i] ELSE "Air"]
      /\ quads \in [1 .. 6 -> Seq(Quad)]
  BY DEF MeshInv, Cull, scanVars
<1>2. Filled'
  BY <1>1 DEF Filled, Entry
<1>3. Idle'
  BY <1>1 DEF Idle
<1>4. Culled'
  <2>1. voxelsCulled' \in [Indices -> Stored]
    BY <1>1 DEF Filled, Stored
  <2>2. ASSUME NEW c \in Box
        PROVE  Entry(voxelsCulled', c) = IF Shown(c)' THEN Entry(mVoxels', c) ELSE "Air"
    <3>1. Shown(c)' = Shown(c)
      BY <1>1 DEF Shown, Hidden, NeighbourOf, GetVoxel
    <3>2. Entry(voxelsCulled', c) = IF Shown(c) THEN Entry(mVoxels, c) ELSE "Air"
      BY <1>1, CellIndex DEF Entry
    <3> QED BY <1>1, <3>1, <3>2
  <2> QED BY <2>1, <2>2 DEF Culled, Entry
<1>5. Scanning("X")'
  <2>1. (Culled /\ Idle => ProofX!IInv /\ ProofX!WithinInv)'
    BY StartX, PTL
  <2> QED BY <1>3, <1>4, <2>1 DEF Scanning
<1>6. Sides[1].axis = "X"
  BY SidesListed DEF Side
<1>7. PassesDone'
  BY <1>1 DEF PassesDone
<1> QED BY <1>1, <1>2, <1>4, <1>5, <1>6, <1>7 DEF MeshInv

LEMMA PlaneKeeps == ASSUME MeshInv, ProcessPlane PROVE MeshInv'
<1>1. /\ pass \in 1 .. 6 /\ pass' = pass /\ Filled /\ Culled
      /\ mVoxels' = mVoxels /\ quads' = quads /\ voxelsCulled' = voxelsCulled
      /\ mVerts' = mVerts
      /\ quads \in [1 .. 6 -> Seq(Quad)] /\ PassesDone /\ Scanning(Sides[pass].axis)
  BY DEF MeshInv, ProcessPlane
<1>2. Filled'
  BY <1>1 DEF Filled, Entry
<1>3. Culled'
  BY <1>1 DEF Culled, Entry, Shown, Hidden, NeighbourOf, GetVoxel
<1>4. PassesDone'
  BY <1>1 DEF PassesDone
<1> DEFINE axis == Sides[pass].axis
<1>5. axis \in {"X", "Y", "Z"}
  BY <1>1, AxisOfSide
<1>6. /\ axis = "X" => ScanX!Scan
      /\ axis = "Y" => ScanY!Scan
      /\ axis = "Z" => ScanZ!Scan
  BY <1>5 DEF ProcessPlane
<1>7. Scanning(axis)'
  <2>1. axis' = axis
    BY <1>1
  <2> HIDE DEF axis
  <2>2. Scanning(axis)
    BY <1>1 DEF axis
  <2>3. CASE axis = "X"
    BY <1>1, <1>6, <2>1, <2>2, <2>3, StepX DEF Scanning
  <2>4. CASE axis = "Y"
    BY <1>1, <1>6, <2>1, <2>2, <2>4, StepY DEF Scanning
  <2>5. CASE axis = "Z"
    BY <1>1, <1>6, <2>1, <2>2, <2>5, StepZ DEF Scanning
  <2> QED BY <1>5, <2>3, <2>4, <2>5
<1>8. pass' \in 0 .. 8 /\ pass' \notin {0, 7, 8}
  BY <1>1
<1> QED BY <1>1, <1>2, <1>3, <1>4, <1>7, <1>8 DEF MeshInv

(* A pass over any axis begins well.                                       *)
LEMMA StartAny == Culled /\ Idle => Scanning(Sides[pass].axis)
<1> DEFINE axis == Sides[pass].axis
<1> HIDE DEF axis
<1>1. Culled /\ Idle => Scanning(axis)
  BY StartX, StartY, StartZ DEF Scanning
<1> QED BY <1>1 DEF axis

LEMMA NextPassKeeps == ASSUME MeshInv, NextPass PROVE MeshInv'
<1>1. /\ pass \in 1 .. 6 /\ pass' = pass + 1 /\ Filled /\ Culled
      /\ mVoxels' = mVoxels /\ voxelsCulled' = voxelsCulled /\ PlaneFinished
      /\ quads' = [quads EXCEPT ![pass] = resultQuads]
      /\ quads \in [1 .. 6 -> Seq(Quad)] /\ PassesDone /\ Scanning(Sides[pass].axis)
  BY DEF MeshInv, NextPass
<1>2. Filled'
  BY <1>1 DEF Filled, Entry
<1>3. Culled'
  BY <1>1 DEF Culled, Entry, Shown, Hidden, NeighbourOf, GetVoxel
<1>4. Idle'
  BY DEF NextPass, Idle
<1>5. Covers(voxelsCulled, Sides[pass].axis, resultQuads)
  <2> DEFINE axis == Sides[pass].axis
  <2>1. axis \in {"X", "Y", "Z"}
    BY <1>1, AxisOfSide
  <2>2. /\ axis = "X" => ScanX!Finished
        /\ axis = "Y" => ScanY!Finished
        /\ axis = "Z" => ScanZ!Finished
    BY <1>1, <2>1 DEF PlaneFinished
  <2>3. Scanning(axis)
    BY <1>1
  <2> HIDE DEF axis
  <2>4. Covers(voxelsCulled, axis, resultQuads)
    BY <1>1, <2>1, <2>2, <2>3, DoneX, DoneY, DoneZ DEF Scanning
  <2> QED BY <2>4 DEF axis
<1>6. resultQuads \in Seq(Quad)
  BY <1>5 DEF Covers
<1>7. quads' \in [1 .. 6 -> Seq(Quad)]
  BY <1>1, <1>6
<1>8. PassesDone'
  <2> SUFFICES ASSUME NEW p \in 1 .. 6, p < pass'
               PROVE  Covers(voxelsCulled', Sides[p].axis, quads'[p])
    BY DEF PassesDone
  <2>1. CASE p = pass
    BY <1>1, <1>5, <2>1
  <2>2. CASE p < pass
    BY <1>1, <2>2 DEF PassesDone
  <2> QED BY <1>1, <2>1, <2>2
<1>9. (Culled /\ Idle => Scanning(Sides[pass].axis))'
  BY StartAny, PTL
<1>10. pass' \in 0 .. 8 /\ pass' # 8
  BY <1>1
<1>11. (pass \in 1 .. 6 => Scanning(Sides[pass].axis))'
  BY <1>3, <1>4, <1>9
<1> QED BY <1>11, <1>2, <1>3, <1>4, <1>7, <1>8, <1>10 DEF MeshInv

LEMMA PushKeeps == ASSUME MeshInv, PushVertsFromQuads PROVE MeshInv'
<1>1. /\ pass = 7 /\ pass' = 8 /\ Filled /\ Culled /\ Idle
      /\ mVoxels' = mVoxels /\ voxelsCulled' = voxelsCulled /\ quads' = quads
      /\ at' = at /\ quadProcessing' = quadProcessing /\ q' = q /\ resultQuads' = resultQuads
      /\ mVerts' = FlattenSeq([p \in 1 .. 6 |-> VertsOfPass(p)])
      /\ quads \in [1 .. 6 -> Seq(Quad)] /\ PassesDone
  BY DEF MeshInv, PushVertsFromQuads, FromEmpty, scanVars
<1>2. Filled'
  BY <1>1 DEF Filled, Entry
<1>3. Culled'
  BY <1>1 DEF Culled, Entry, Shown, Hidden, NeighbourOf, GetVoxel
<1>4. Idle'
  BY <1>1 DEF Idle
<1>5. PassesDone'
  <2> SUFFICES ASSUME NEW p \in 1 .. 6
               PROVE  Covers(voxelsCulled', Sides[p].axis, quads'[p])
    BY DEF PassesDone
  <2>1. p < pass
    BY <1>1
  <2> QED BY <1>1, <2>1 DEF PassesDone
<1>6. Pushed'
  <2>1. \A p \in 1 .. 6 : VertsOfPass(p)' = VertsOfPass(p)
    BY <1>1 DEF VertsOfPass
  <2> QED BY <1>1, <2>1 DEF Pushed
<1> QED BY <1>1, <1>2, <1>3, <1>4, <1>5, <1>6 DEF MeshInv

LEMMA PickKeeps == ASSUME MeshInv, PickVoxel PROVE MeshInv'
<1>1. /\ pass = 8 /\ pass' = 0 /\ Filled /\ Idle /\ quads' = quads
      /\ at' = at /\ quadProcessing' = quadProcessing /\ q' = q /\ resultQuads' = resultQuads
      /\ quads \in [1 .. 6 -> Seq(Quad)]
  BY DEF MeshInv, PickVoxel, scanVars
<1>2. PICK c \in Box :
         /\ GetVoxel(c[1], c[2], c[3]) # "Air"
         /\ mVoxels' = [mVoxels EXCEPT ![CalculateIndex(c[1], c[2], c[3])] = "Bedrock"]
  BY DEF PickVoxel
<1>3. mVoxels' \in [Indices -> Stored]
  <2>1. mVoxels \in [Indices -> Stored] /\ "Bedrock" \in Stored
    BY <1>1 DEF Filled, Stored
  <2> QED BY <1>2, <2>1
<1>4. ASSUME NEW e \in Box, e[2] >= MeshedY PROVE Entry(mVoxels', e) = "Air"
  <2>1. Entry(mVoxels, e) = "Air"
    BY <1>1, <1>4 DEF Filled
  <2>2. e # c
    BY <1>2, <2>1, VoxelOfCell
  <2>3. CalculateIndex(e[1], e[2], e[3]) # CalculateIndex(c[1], c[2], c[3])
    BY <2>2, CellIndex
  <2>4. CalculateIndex(e[1], e[2], e[3]) \in DOMAIN mVoxels
    BY <1>1, CellIndex DEF Filled
  <2> QED BY <1>2, <2>1, <2>3, <2>4 DEF Entry
<1>5. Filled'
  BY <1>3, <1>4 DEF Filled, Entry
<1>6. Idle'
  BY <1>1 DEF Idle
<1>7. PassesDone'
  BY <1>1 DEF PassesDone
<1> QED BY <1>1, <1>5, <1>6, <1>7 DEF MeshInv

LEMMA StillKeeps == ASSUME MeshInv, UNCHANGED vars PROVE MeshInv'
<1>1. /\ pass' = pass /\ mVoxels' = mVoxels /\ voxelsCulled' = voxelsCulled /\ quads' = quads
      /\ at' = at /\ quadProcessing' = quadProcessing /\ q' = q /\ resultQuads' = resultQuads
      /\ mVerts' = mVerts
  BY DEF vars
<1>2. Filled'
  BY <1>1 DEF MeshInv, Filled, Entry
<1>3. pass \in {0, 7, 8} => Idle'
  BY <1>1 DEF MeshInv, Idle
<1>4. pass \in 1 .. 8 => Culled'
  BY <1>1 DEF MeshInv, Culled, Entry, Shown, Hidden, NeighbourOf, GetVoxel
<1>5. PassesDone'
  BY <1>1 DEF MeshInv, PassesDone
<1>6. pass = 8 => Pushed'
  <2>1. \A p \in 1 .. 6 : VertsOfPass(p)' = VertsOfPass(p)
    BY <1>1 DEF VertsOfPass
  <2> QED BY <1>1, <2>1 DEF MeshInv, Pushed
<1>7. pass \in 1 .. 6 => Scanning(Sides[pass].axis)'
  <2> SUFFICES ASSUME pass \in 1 .. 6 PROVE Scanning(Sides[pass].axis)'
    OBVIOUS
  <2> DEFINE axis == Sides[pass].axis
  <2>1. Scanning(axis) /\ axis' = axis
    BY <1>1 DEF MeshInv
  <2> HIDE DEF axis
  <2>2. [ProofX!Next]_(ProofX!vars) /\ [ProofY!Next]_(ProofY!vars) /\ [ProofZ!Next]_(ProofZ!vars)
    BY <1>1 DEF ProofX!vars, ProofY!vars, ProofZ!vars
  <2>3. axis = "X" => ProofX!IInv' /\ ProofX!WithinInv'
    BY <2>1, <2>2, SizesOfScans, ProofX!StepKeeps, ProofX!WithinKeeps DEF Scanning
  <2>4. axis = "Y" => ProofY!IInv' /\ ProofY!WithinInv'
    BY <2>1, <2>2, SizesOfScans, ProofY!StepKeeps, ProofY!WithinKeeps DEF Scanning
  <2>5. axis = "Z" => ProofZ!IInv' /\ ProofZ!WithinInv'
    BY <2>1, <2>2, SizesOfScans, ProofZ!StepKeeps, ProofZ!WithinKeeps DEF Scanning
  <2>6. Scanning(axis)'
    BY <2>1, <2>3, <2>4, <2>5 DEF Scanning
  <2> QED BY <2>6 DEF axis
<1>8. pass \in 0 .. 8 /\ quads \in [1 .. 6 -> Seq(Quad)]
  BY DEF MeshInv
<1> QED BY <1>1, <1>2, <1>3, <1>4, <1>5, <1>6, <1>7, <1>8 DEF MeshInv

(* Each pass over a chunk covers what it should, in every state of every   *)
(* meshing.                                                                *)
THEOREM MeshInvariance == Spec => []MeshInv
<1>1. MeshInv /\ [Next]_vars => MeshInv'
  BY CullKeeps, PlaneKeeps, NextPassKeeps, PushKeeps, PickKeeps, StillKeeps DEF Next
<1> QED BY <1>1, MeshInit, PTL DEF Spec

-----------------------------------------------------------------------------
(* Lists without repetition, and the blocks of six in mVerts.              *)

(* f lists the members of S, each once.                                    *)
Lists(f, S, B) == /\ f \in Seq(B)
                  /\ \A i \in 1 .. Len(f) : f[i] \in S
                  /\ \A b \in S : \E i \in 1 .. Len(f) : f[i] = b
                  /\ \A i, j \in 1 .. Len(f) : f[i] = f[j] => i = j

LEMMA ListsConcat ==
    ASSUME NEW B, NEW S, NEW T, NEW f, NEW g,
           Lists(f, S, B), Lists(g, T, B), S \cap T = {}
    PROVE  Lists(f \o g, S \cup T, B)
<1> DEFINE n == Len(f)
           m == Len(g)
           h == f \o g
<1>1. f \in Seq(B) /\ g \in Seq(B)
  BY DEF Lists
<1>2. n \in Nat /\ m \in Nat
  BY <1>1, LenProperties
<1>3. /\ h \in Seq(B) /\ Len(h) = n + m
      /\ \A i \in 1 .. n + m : h[i] = IF i <= n THEN f[i] ELSE g[i - n]
  BY <1>1, ConcatProperties
<1>4. /\ \A i \in 1 .. n : f[i] \in S
      /\ \A b \in S : \E i \in 1 .. n : f[i] = b
      /\ \A i, j \in 1 .. n : f[i] = f[j] => i = j
      /\ \A i \in 1 .. m : g[i] \in T
      /\ \A b \in T : \E i \in 1 .. m : g[i] = b
      /\ \A i, j \in 1 .. m : g[i] = g[j] => i = j
  BY DEF Lists
<1> HIDE DEF n, m, h
<1>5. ASSUME NEW i \in 1 .. n + m
      PROVE  \/ i \in 1 .. n /\ h[i] = f[i]
             \/ i \notin 1 .. n /\ i - n \in 1 .. m /\ h[i] = g[i - n]
  BY <1>2, <1>3
<1>6. ASSUME NEW i \in 1 .. n PROVE i \in 1 .. n + m /\ h[i] = f[i]
  BY <1>2, <1>3
<1>7. ASSUME NEW i \in 1 .. m PROVE \E j \in 1 .. n + m : h[j] = g[i]
  <2> DEFINE j == i + n
  <2>1. j \in 1 .. n + m /\ ~ (j <= n) /\ j - n = i
    BY <1>2
  <2> HIDE DEF j
  <2> QED BY <1>3, <2>1
<1>8. ASSUME NEW i \in 1 .. n + m PROVE h[i] \in S \cup T
  BY <1>4, <1>5
<1>9. ASSUME NEW b \in S \cup T PROVE \E i \in 1 .. n + m : h[i] = b
  BY <1>4, <1>6, <1>7
<1>10. ASSUME NEW i \in 1 .. n + m, NEW j \in 1 .. n + m, h[i] = h[j] PROVE i = j
  <2>1. CASE i \in 1 .. n /\ j \in 1 .. n
    BY <2>1, <1>6, <1>4, <1>10
  <2>2. CASE i \notin 1 .. n /\ j \notin 1 .. n
    <3>1. i - n \in 1 .. m /\ j - n \in 1 .. m /\ g[i - n] = g[j - n]
      BY <2>2, <1>5, <1>10
    <3>2. i - n = j - n
      BY <3>1, <1>4
    <3> QED BY <3>2, <1>2
  <2>3. CASE i \in 1 .. n /\ j \notin 1 .. n
    <3>1. h[i] \in S
      BY <2>3, <1>6, <1>4
    <3>2. h[j] \in T
      BY <2>3, <1>5, <1>4
    <3> QED BY <3>1, <3>2, <1>10
  <2>4. CASE i \notin 1 .. n /\ j \in 1 .. n
    <3>1. h[i] \in T
      BY <2>4, <1>5, <1>4
    <3>2. h[j] \in S
      BY <2>4, <1>6, <1>4
    <3> QED BY <3>1, <3>2, <1>10
  <2> QED BY <2>1, <2>2, <2>3, <2>4
<1> QED BY <1>3, <1>8, <1>9, <1>10 DEF Lists, n, m, h

(* A set listed so has as many members as the list.                        *)
LEMMA ListsCounts ==
    ASSUME NEW B, NEW S, NEW f, Lists(f, S, B)
    PROVE  Cardinality(S) = Len(f)
<1> DEFINE n == Len(f)
<1>1. f \in Seq(B)
  BY DEF Lists
<1>2. n \in Nat /\ DOMAIN f = 1 .. n /\ f \in [1 .. n -> B]
  BY <1>1, LenProperties
<1>3. f \in [1 .. n -> S]
  BY <1>2 DEF Lists
<1>4. f \in Bijection(1 .. n, S)
  <2>1. \A b \in S : \E i \in 1 .. n : f[i] = b
    BY DEF Lists
  <2>2. \A i, j \in 1 .. n : f[i] = f[j] => i = j
    BY DEF Lists
  <2> HIDE DEF n
  <2> QED BY <1>3, <2>1, <2>2 DEF Bijection, Injection, Surjection, IsInjective
<1>5. ExistsBijection(1 .. n, S)
  BY <1>4 DEF ExistsBijection
<1> QED BY <1>2, <1>5, FS_CountingElements

(* The six vertices number k of a sequence of joined blocks are block k.   *)
LEMMA JoinedBlock ==
    ASSUME NEW V, NEW f \in Seq(Blocks(V)), NEW m, Joins(m, f, V), NEW k \in 1 .. Len(f)
    PROVE  SubSeq(m, 6 * k - 5, 6 * k) = f[k]
<1> DEFINE a == 6 * k - 5
           e == 6 * k
           s == SubSeq(m, a, e)
           b == f[k]
<1>1. Len(f) \in Nat /\ k \in Int
  BY LenProperties
<1>2. a \in Int /\ e \in Int /\ a <= e /\ e - a + 1 = 6
  BY <1>1
<1>3. ASSUME NEW r \in 1 .. 6 PROVE m[6 * k - 6 + r] = b[r]
  BY DEF Joins
<1>4. b \in Blocks(V)
  OBVIOUS
<1>5. b \in Seq(V) /\ Len(b) = 6
  BY <1>4, BlockLen
<1> HIDE DEF b
<1>6. ASSUME NEW i \in a .. e PROVE m[i] \in V
  <2> DEFINE r == i - (6 * k - 6)
  <2>1. r \in 1 .. 6 /\ i = 6 * k - 6 + r
    BY <1>1
  <2> HIDE DEF r
  <2> QED BY <2>1, <1>3, <1>4 DEF Blocks
<1>7. ASSUME NEW r \in 1 .. 6 PROVE a + r - 1 = 6 * k - 6 + r
  BY <1>1
<1> HIDE DEF a, e
<1>8. /\ s \in Seq(V) /\ Len(s) = 6
      /\ \A r \in 1 .. 6 : s[r] = m[a + r - 1]
  BY <1>2, <1>6, SubSeqProperties
<1> HIDE DEF s
<1>9. \A r \in 1 .. 6 : s[r] = b[r]
  BY <1>3, <1>7, <1>8
<1>10. s = b
  BY <1>5, <1>8, <1>9, SeqEqual
<1> QED BY <1>10 DEF s, b, a, e

LEMMA FaceUnique ==
    ASSUME NEW c \in Int3, NEW e \in Int3, NEW d \in Directions, NEW f \in Directions,
           NEW v, NEW w, Face(c, d, v) = Face(e, f, w)
    PROVE  c = e /\ d = f /\ v = w
<1>1. d = f /\ v = w /\ Plus(<<2 * c[1], 2 * c[2], 2 * c[3]>>, d)
                          = Plus(<<2 * e[1], 2 * e[2], 2 * e[3]>>, d)
  BY DEF Face
<1>2. d[1] \in Int /\ d[2] \in Int /\ d[3] \in Int
  BY DEF Directions
<1>3. /\ c = <<c[1], c[2], c[3]>> /\ c[1] \in Int /\ c[2] \in Int /\ c[3] \in Int
      /\ e = <<e[1], e[2], e[3]>> /\ e[1] \in Int /\ e[2] \in Int /\ e[3] \in Int
  BY Triples
<1>4. 2 * c[1] + d[1] = 2 * e[1] + d[1] /\ 2 * c[2] + d[2] = 2 * e[2] + d[2]
      /\ 2 * c[3] + d[3] = 2 * e[3] + d[3]
  BY <1>1 DEF Plus
<1>5. c[1] = e[1] /\ c[2] = e[2] /\ c[3] = e[3]
  BY <1>2, <1>3, <1>4
<1> QED BY <1>1, <1>3, <1>5

-----------------------------------------------------------------------------
(* The finished mesh: no two quads share a face.                           *)

LEMMA FrontsOfSides ==
    /\ \A p \in 1 .. 6 : /\ Fronts[p] \in Directions
                         /\ LitFromFront(Sides[p].normal, HalfTurn(Fronts[p]))
    /\ \A p, r \in 1 .. 6 : Fronts[p] = Fronts[r] => p = r
    /\ \A d \in Directions : \E p \in 1 .. 6 : Fronts[p] = d
<1>1. ASSUME NEW p \in 1 .. 6
      PROVE  /\ Fronts[p] \in Directions
             /\ LitFromFront(Sides[p].normal, HalfTurn(Fronts[p]))
  <2>1. p = 1 \/ p = 2 \/ p = 3 \/ p = 4 \/ p = 5 \/ p = 6
    OBVIOUS
  <2>2. Fronts[p] \in Directions
    BY <2>1 DEF Fronts, Directions
  <2>3. LitFromFront(Sides[p].normal, HalfTurn(Fronts[p]))
    BY <2>1, SidesListed DEF Side, Fronts, LitFromFront, Dot, Minus, HalfTurn
  <2> QED BY <2>2, <2>3
<1>2. ASSUME NEW p \in 1 .. 6, NEW r \in 1 .. 6, Fronts[p] = Fronts[r] PROVE p = r
  <2>1. p = 1 \/ p = 2 \/ p = 3 \/ p = 4 \/ p = 5 \/ p = 6
    OBVIOUS
  <2>2. r = 1 \/ r = 2 \/ r = 3 \/ r = 4 \/ r = 5 \/ r = 6
    OBVIOUS
  <2> QED BY <1>2, <2>1, <2>2 DEF Fronts
<1>3. ASSUME NEW d \in Directions PROVE \E p \in 1 .. 6 : Fronts[p] = d
  <2>1. /\ Fronts[1] = << 1, 0, 0>> /\ Fronts[2] = <<-1, 0, 0>>
        /\ Fronts[3] = <<0, -1, 0>> /\ Fronts[4] = <<0, 1, 0>>
        /\ Fronts[5] = <<0, 0, 1>> /\ Fronts[6] = <<0, 0, -1>>
    BY DEF Fronts
  <2>2. 1 \in 1 .. 6 /\ 2 \in 1 .. 6 /\ 3 \in 1 .. 6 /\ 4 \in 1 .. 6 /\ 5 \in 1 .. 6 /\ 6 \in 1 .. 6
    OBVIOUS
  <2> HIDE DEF Fronts
  <2> QED BY <2>1, <2>2, Zenon DEF Directions
<1> QED BY <1>1, <1>2, <1>3

Shape(p, i) == VertsOf(quads[p][i], Sides[p])
BlocksOf(p) == [i \in 1 .. Len(quads[p]) |-> Shape(p, i)]
SixesOf(p) == {Shape(p, i) : i \in 1 .. Len(quads[p])}
Vertices == {VertsOf(b, Sides[p])[k] : b \in Quad, p \in 1 .. 6, k \in 1 .. 6}

LEMMA QuadOfPass ==
    ASSUME MeshInv, Done, NEW p \in 1 .. 6, NEW i \in 1 .. Len(quads[p])
    PROVE  /\ quads[p] \in Seq(Quad) /\ quads[p][i] \in Quad
           /\ quads[p][i].w >= 1 /\ 0 \in 0 .. quads[p][i].w - 1
           /\ Covers(voxelsCulled, Sides[p].axis, quads[p])
<1>1. Covers(voxelsCulled, Sides[p].axis, quads[p])
  <2>1. p < pass
    BY DEF Done
  <2> QED BY <2>1 DEF MeshInv, PassesDone
<1>2. quads[p] \in Seq(Quad) /\ quads[p][i].w >= 1
  BY <1>1 DEF Covers
<1> DEFINE b == quads[p][i]
<1>3. b \in Quad
  BY <1>2
<1>4. b.w \in Nat
  BY <1>3, QuadFields
<1> QED BY <1>1, <1>2, <1>3, <1>4

LEMMA BoxInt == Box \subseteq Int3
  BY DEF Box, Int3

LEMMA PassFaces ==
    ASSUME MeshInv, Done, NEW p \in 1 .. 6, NEW i \in 1 .. Len(quads[p])
    PROVE  LET b == quads[p][i]
               a == Sides[p].axis
           IN  /\ FacesOf(Shape(p, i)) = {Face(CellIn(b, a, k), Fronts[p], b.v) : k \in 0 .. b.w - 1}
               /\ \A k \in 0 .. b.w - 1 :
                     LET c == CellIn(b, a, k)
                     IN  c \in Box /\ Shown(c) /\ b.v = GetVoxel(c[1], c[2], c[3])
<1> DEFINE b == quads[p][i]
           a == Sides[p].axis
<1>1. b \in Quad /\ b.w >= 1 /\ Covers(voxelsCulled, a, quads[p])
  BY QuadOfPass
<1>2. FacesOf(Shape(p, i)) = {Face(CellIn(b, a, k), Fronts[p], b.v) : k \in 0 .. b.w - 1}
  BY <1>1, QuadFaces DEF Shape
<1>3. ASSUME NEW k \in 0 .. b.w - 1
      PROVE  LET c == CellIn(b, a, k)
             IN  c \in Box /\ Shown(c) /\ b.v = GetVoxel(c[1], c[2], c[3])
  <2> DEFINE c == CellIn(b, a, k)
  <2>1. c \in Box /\ Entry(voxelsCulled, c) # "Air" /\ Entry(voxelsCulled, c) = b.v
    BY <1>1 DEF Covers
  <2> HIDE DEF c
  <2>2. Culled
    BY DEF MeshInv, Done
  <2>3. Shown(c) /\ b.v = GetVoxel(c[1], c[2], c[3])
    BY <2>1, <2>2, VoxelOfCell DEF Culled
  <2> QED BY <2>1, <2>3 DEF c
<1> QED BY <1>2, <1>3

(* No two quads of the mesh share a face.                                  *)
LEMMA ShapesApart ==
    ASSUME MeshInv, Done,
           NEW p \in 1 .. 6, NEW i \in 1 .. Len(quads[p]),
           NEW r \in 1 .. 6, NEW j \in 1 .. Len(quads[r]),
           NEW f, f \in FacesOf(Shape(p, i)), f \in FacesOf(Shape(r, j))
    PROVE  p = r /\ i = j
<1> DEFINE b == quads[p][i]
           e == quads[r][j]
           a == Sides[p].axis
           o == Sides[r].axis
<1>1. /\ FacesOf(Shape(p, i)) = {Face(CellIn(b, a, k), Fronts[p], b.v) : k \in 0 .. b.w - 1}
      /\ \A k \in 0 .. b.w - 1 : CellIn(b, a, k) \in Box
  BY PassFaces
<1>2. /\ FacesOf(Shape(r, j)) = {Face(CellIn(e, o, k), Fronts[r], e.v) : k \in 0 .. e.w - 1}
      /\ \A k \in 0 .. e.w - 1 : CellIn(e, o, k) \in Box
  BY PassFaces
<1>3. PICK k \in 0 .. b.w - 1, l \in 0 .. e.w - 1 :
         CellIn(b, a, k) = CellIn(e, o, l) /\ Fronts[p] = Fronts[r]
  <2> HIDE DEF b, e, a, o
  <2>1. PICK k \in 0 .. b.w - 1 : f = Face(CellIn(b, a, k), Fronts[p], b.v)
    BY <1>1
  <2>2. PICK l \in 0 .. e.w - 1 : f = Face(CellIn(e, o, l), Fronts[r], e.v)
    BY <1>2
  <2> DEFINE c == CellIn(b, a, k)
             u == CellIn(e, o, l)
  <2>3. c \in Int3 /\ u \in Int3
    BY <1>1, <1>2, BoxInt
  <2>4. Fronts[p] \in Directions /\ Fronts[r] \in Directions
    BY FrontsOfSides
  <2> HIDE DEF c, u
  <2>5. Face(c, Fronts[p], b.v) = Face(u, Fronts[r], e.v)
    BY <2>1, <2>2 DEF c, u
  <2>6. c = u /\ Fronts[p] = Fronts[r]
    BY <2>3, <2>4, <2>5, FaceUnique
  <2> QED BY <2>6 DEF c, u
<1>4. p = r
  BY <1>3, FrontsOfSides
<1>5. Covers(voxelsCulled, Sides[p].axis, quads[p])
  BY QuadOfPass
<1>6. i = j
  BY <1>3, <1>4, <1>5 DEF Covers
<1> QED BY <1>4, <1>6

LEMMA ShapesDiffer ==
    ASSUME MeshInv, Done,
           NEW p \in 1 .. 6, NEW i \in 1 .. Len(quads[p]),
           NEW r \in 1 .. 6, NEW j \in 1 .. Len(quads[r]), Shape(p, i) = Shape(r, j)
    PROVE  p = r /\ i = j
<1> DEFINE b == quads[p][i]
           f == Face(CellIn(b, Sides[p].axis, 0), Fronts[p], b.v)
<1>1. 0 \in 0 .. b.w - 1
  BY QuadOfPass
<1> DEFINE a == Sides[p].axis
<1>2. f \in FacesOf(Shape(p, i))
  <2>1. FacesOf(Shape(p, i)) = {Face(CellIn(b, a, k), Fronts[p], b.v) : k \in 0 .. b.w - 1}
    BY PassFaces
  <2> QED BY <1>1, <2>1
<1>3. f \in FacesOf(Shape(r, j))
  BY <1>2
<1> HIDE DEF f
<1> QED BY <1>2, <1>3, ShapesApart

LEMMA PassListed ==
    ASSUME MeshInv, Done, NEW p \in 1 .. 6
    PROVE  /\ Lists(BlocksOf(p), SixesOf(p), Blocks(Vertices))
           /\ Joins(VertsOfPass(p), BlocksOf(p), Vertices)
<1> DEFINE n == Len(quads[p])
           f == BlocksOf(p)
<1>1. quads[p] \in Seq(Quad)
  BY DEF MeshInv
<1>2. n \in Nat
  BY <1>1, LenProperties
<1>3. ASSUME NEW i \in 1 .. n PROVE Shape(p, i) \in Blocks(Vertices)
  <2>1. quads[p][i] \in Quad
    BY <1>1
  <2>2. DOMAIN Shape(p, i) = 1 .. 6 /\ Shape(p, i) = [k \in 1 .. 6 |-> Shape(p, i)[k]]
    BY DEF Shape, VertsOf
  <2>3. \A k \in 1 .. 6 : Shape(p, i)[k] \in Vertices
    BY <2>1 DEF Shape, Vertices
  <2> QED BY <2>2, <2>3 DEF Blocks
<1>4. f = [i \in 1 .. n |-> Shape(p, i)]
  BY DEF BlocksOf
<1> HIDE DEF n, f
<1>5. f \in [1 .. n -> Blocks(Vertices)]
  BY <1>3, <1>4
<1>6. f \in Seq(Blocks(Vertices)) /\ DOMAIN f = 1 .. n
  BY <1>2, <1>5
<1>7. Len(f) = n
  BY <1>2, <1>6, LenProperties
<1>8. ASSUME NEW i \in 1 .. n PROVE f[i] = Shape(p, i) /\ f[i] \in SixesOf(p)
  BY <1>4 DEF SixesOf, n
<1>9. ASSUME NEW b \in SixesOf(p) PROVE \E i \in 1 .. n : f[i] = b
  BY <1>8 DEF SixesOf, n
<1>10. ASSUME NEW i \in 1 .. n, NEW j \in 1 .. n, f[i] = f[j] PROVE i = j
  BY <1>8, <1>10, ShapesDiffer DEF n
<1>11. Lists(f, SixesOf(p), Blocks(Vertices))
  BY <1>6, <1>7, <1>8, <1>9, <1>10 DEF Lists
<1>12. VertsOfPass(p) = FlattenSeq(f)
  BY <1>4 DEF VertsOfPass, Shape, n
<1>13. Joins(VertsOfPass(p), f, Vertices)
  BY <1>6, <1>12, FlattenJoins
<1> QED BY <1>11, <1>13 DEF f

Meshed == UNION {SixesOf(p) : p \in 1 .. 6}

(* The blocks f make up the vertices m and list the sixes S.               *)
MadeOf(m, f, S) == Joins(m, f, Vertices) /\ Lists(f, S, Blocks(Vertices))

LEMMA MadeOfConcat ==
    ASSUME NEW m, NEW f, NEW S, NEW l, NEW g, NEW T,
           MadeOf(m, f, S), MadeOf(l, g, T), S \cap T = {}
    PROVE  MadeOf(m \o l, f \o g, S \cup T)
<1>1. f \in Seq(Blocks(Vertices)) /\ g \in Seq(Blocks(Vertices))
  BY DEF MadeOf, Lists
<1>2. Joins(m \o l, f \o g, Vertices)
  BY <1>1, JoinsConcat DEF MadeOf
<1>3. Lists(f \o g, S \cup T, Blocks(Vertices))
  BY ListsConcat DEF MadeOf
<1> QED BY <1>2, <1>3 DEF MadeOf

LEMMA PassesApart ==
    ASSUME MeshInv, Done, NEW p \in 1 .. 6, NEW r \in 1 .. 6, p # r
    PROVE  SixesOf(p) \cap SixesOf(r) = {}
<1> SUFFICES ASSUME NEW s, s \in SixesOf(p), s \in SixesOf(r) PROVE FALSE
  OBVIOUS
<1>1. PICK i \in 1 .. Len(quads[p]) : s = Shape(p, i)
  BY DEF SixesOf
<1>2. PICK j \in 1 .. Len(quads[r]) : s = Shape(r, j)
  BY DEF SixesOf
<1> QED BY <1>1, <1>2, ShapesDiffer

LEMMA MeshListed ==
    ASSUME MeshInv, Done
    PROVE  \E f : MadeOf(mVerts, f, Meshed)
<1> DEFINE V(p) == VertsOfPass(p)
           F(p) == BlocksOf(p)
           S(p) == SixesOf(p)
<1>1. ASSUME NEW p \in 1 .. 6 PROVE MadeOf(V(p), F(p), S(p))
  BY PassListed DEF MadeOf
<1>2. ASSUME NEW p \in 1 .. 6, NEW r \in 1 .. 6, p # r PROVE S(p) \cap S(r) = {}
  BY <1>2, PassesApart
<1>3. mVerts = ((((V(1) \o V(2)) \o V(3)) \o V(4)) \o V(5)) \o V(6)
  <2> DEFINE h == [p \in 1 .. 6 |-> V(p)]
  <2>1. Len(h) = 6 /\ h[1] = V(1) /\ h[2] = V(2) /\ h[3] = V(3) /\ h[4] = V(4)
        /\ h[5] = V(5) /\ h[6] = V(6)
    OBVIOUS
  <2>2. mVerts = FlattenSeq(h)
    BY DEF MeshInv, Done, Pushed
  <2> HIDE DEF h, V
  <2> QED BY <2>1, <2>2, FlattenSix
<1> HIDE DEF V, F, S
<1>4. MadeOf(V(1) \o V(2), F(1) \o F(2), S(1) \cup S(2))
  BY <1>1, <1>2, MadeOfConcat
<1> DEFINE V2 == V(1) \o V(2)
           F2 == F(1) \o F(2)
           S2 == S(1) \cup S(2)
           V3 == V2 \o V(3)
           F3 == F2 \o F(3)
           S3 == S2 \cup S(3)
           V4 == V3 \o V(4)
           F4 == F3 \o F(4)
           S4 == S3 \cup S(4)
           V5 == V4 \o V(5)
           F5 == F4 \o F(5)
           S5 == S4 \cup S(5)
<1>5. S2 \cap S(3) = {} /\ S3 \cap S(4) = {} /\ S4 \cap S(5) = {} /\ S5 \cap S(6) = {}
  <2>1. S(1) \cap S(3) = {} /\ S(2) \cap S(3) = {}
    BY <1>2
  <2>2. S(1) \cap S(4) = {} /\ S(2) \cap S(4) = {} /\ S(3) \cap S(4) = {}
    BY <1>2
  <2>3. S(1) \cap S(5) = {} /\ S(2) \cap S(5) = {} /\ S(3) \cap S(5) = {} /\ S(4) \cap S(5) = {}
    BY <1>2
  <2>4. /\ S(1) \cap S(6) = {} /\ S(2) \cap S(6) = {} /\ S(3) \cap S(6) = {}
        /\ S(4) \cap S(6) = {} /\ S(5) \cap S(6) = {}
    BY <1>2
  <2> QED BY <2>1, <2>2, <2>3, <2>4
<1> HIDE DEF V2, F2, S2
<1>6. MadeOf(V2, F2, S2)
  BY <1>4 DEF V2, F2, S2
<1>7. MadeOf(V3, F3, S3)
  BY <1>1, <1>5, <1>6, MadeOfConcat
<1> HIDE DEF V3, F3, S3
<1>8. MadeOf(V4, F4, S4)
  BY <1>1, <1>5, <1>7, MadeOfConcat
<1> HIDE DEF V4, F4, S4
<1>9. MadeOf(V5, F5, S5)
  BY <1>1, <1>5, <1>8, MadeOfConcat
<1> HIDE DEF V5, F5, S5
<1>10. MadeOf(V5 \o V(6), F5 \o F(6), S5 \cup S(6))
  BY <1>1, <1>5, <1>9, MadeOfConcat
<1>11. mVerts = V5 \o V(6)
  BY <1>3 DEF V5, V4, V3, V2
<1>12. S5 \cup S(6) = Meshed
  <2>1. S5 \cup S(6) = ((((S(1) \cup S(2)) \cup S(3)) \cup S(4)) \cup S(5)) \cup S(6)
    BY DEF S5, S4, S3, S2
  <2>2. Meshed = UNION {S(p) : p \in 1 .. 6}
    BY DEF Meshed, S
  <2>3. \A p \in 1 .. 6 : p = 1 \/ p = 2 \/ p = 3 \/ p = 4 \/ p = 5 \/ p = 6
    OBVIOUS
  <2>4. 1 \in 1 .. 6 /\ 2 \in 1 .. 6 /\ 3 \in 1 .. 6 /\ 4 \in 1 .. 6 /\ 5 \in 1 .. 6 /\ 6 \in 1 .. 6
    OBVIOUS
  <2> QED BY <2>1, <2>2, <2>3, <2>4
<1> QED BY <1>10, <1>11, <1>12

LEMMA SixesMeshed ==
    ASSUME MeshInv, Done, NEW f, MadeOf(mVerts, f, Meshed)
    PROVE  /\ Sixes = Meshed /\ Len(mVerts) = 6 * Cardinality(Sixes)
           /\ Len(mVerts) = 6 * Len(f) /\ Len(f) \in Nat
<1>1. Joins(mVerts, f, Vertices) /\ Lists(f, Meshed, Blocks(Vertices))
  BY DEF MadeOf
<1>2. f \in Seq(Blocks(Vertices)) /\ Len(mVerts) = 6 * Len(f)
  BY <1>1 DEF Lists, Joins
<1> DEFINE n == Len(f)
<1>3. n \in Nat
  BY <1>2, LenProperties
<1> HIDE DEF n
<1>4. (6 * n) \div 6 = n
  <2>1. 6 \in Nat /\ 0 \in 0 .. 6 - 1
    OBVIOUS
  <2>2. (n * 6 + 0) \div 6 = n
    BY <1>3, <2>1, DivUnique
  <2>3. n * 6 + 0 = 6 * n
    BY <1>3
  <2> QED BY <2>2, <2>3
<1>5. Sixes = {SubSeq(mVerts, 6 * k - 5, 6 * k) : k \in 1 .. n}
  BY <1>2, <1>4 DEF Sixes, n
<1>6. ASSUME NEW k \in 1 .. n PROVE SubSeq(mVerts, 6 * k - 5, 6 * k) = f[k]
  BY <1>1, <1>2, JoinedBlock DEF n
<1>7. ASSUME NEW s \in Sixes PROVE s \in Meshed
  <2>1. PICK k \in 1 .. n : s = SubSeq(mVerts, 6 * k - 5, 6 * k)
    BY <1>5
  <2> QED BY <2>1, <1>1, <1>6 DEF Lists, n
<1>8. ASSUME NEW s \in Meshed PROVE s \in Sixes
  <2>1. PICK k \in 1 .. n : f[k] = s
    BY <1>1 DEF Lists, n
  <2> QED BY <2>1, <1>5, <1>6
<1>9. Sixes = Meshed
  BY <1>7, <1>8
<1>10. Cardinality(Meshed) = n
  BY <1>1, ListsCounts DEF n
<1> QED BY <1>2, <1>3, <1>9, <1>10 DEF n

-----------------------------------------------------------------------------
(* The finished mesh: its faces are those of the voxels that can be seen.  *)

ShownFaces == {Face(c, d, GetVoxel(c[1], c[2], c[3])) : c \in {e \in Box : Shown(e)},
                                                        d \in Directions}

LEMMA SixesListed ==
    ASSUME MeshInv, Done
    PROVE  /\ \A s \in Sixes : \E p \in 1 .. 6 : \E i \in 1 .. Len(quads[p]) : s = Shape(p, i)
           /\ \A p \in 1 .. 6 : \A i \in 1 .. Len(quads[p]) : Shape(p, i) \in Sixes
<1>1. PICK f : MadeOf(mVerts, f, Meshed)
  BY MeshListed
<1>2. Sixes = Meshed
  BY <1>1, SixesMeshed
<1> QED BY <1>2 DEF Meshed, SixesOf

LEMMA GreedyFacesShown == ASSUME MeshInv, Done PROVE GreedyFaces = ShownFaces
<1>1. ASSUME NEW g \in GreedyFaces PROVE g \in ShownFaces
  <2>1. PICK s \in Sixes : g \in FacesOf(s)
    BY DEF GreedyFaces
  <2>2. PICK p \in 1 .. 6 : \E i \in 1 .. Len(quads[p]) : s = Shape(p, i)
    BY SixesListed
  <2>21. PICK i \in 1 .. Len(quads[p]) : s = Shape(p, i)
    BY <2>2
  <2> DEFINE b == quads[p][i]
             a == Sides[p].axis
  <2>3. FacesOf(Shape(p, i)) = {Face(CellIn(b, a, k), Fronts[p], b.v) : k \in 0 .. b.w - 1}
    BY PassFaces
  <2>4. PICK k \in 0 .. b.w - 1 : g = Face(CellIn(b, a, k), Fronts[p], b.v)
    BY <2>1, <2>21, <2>3
  <2> DEFINE c == CellIn(b, a, k)
  <2>5. c \in Box /\ Shown(c) /\ b.v = GetVoxel(c[1], c[2], c[3])
    BY PassFaces
  <2>6. Fronts[p] \in Directions
    BY FrontsOfSides
  <2> HIDE DEF c
  <2>7. g = Face(c, Fronts[p], GetVoxel(c[1], c[2], c[3]))
    BY <2>4, <2>5 DEF c
  <2> QED BY <2>5, <2>6, <2>7 DEF ShownFaces
<1>2. ASSUME NEW g \in ShownFaces PROVE g \in GreedyFaces
  <2>1. PICK c \in {e \in Box : Shown(e)}, d \in Directions :
           g = Face(c, d, GetVoxel(c[1], c[2], c[3]))
    BY DEF ShownFaces
  <2>2. PICK p \in 1 .. 6 : Fronts[p] = d
    BY FrontsOfSides
  <2>3. Covers(voxelsCulled, Sides[p].axis, quads[p])
    <3>1. p < pass
      BY DEF Done
    <3> QED BY <3>1 DEF MeshInv, PassesDone
  <2>4. Entry(voxelsCulled, c) # "Air" /\ c[2] < MeshedY
    <3>1. Culled
      BY DEF MeshInv, Done
    <3>2. Entry(voxelsCulled, c) = GetVoxel(c[1], c[2], c[3])
      BY <3>1, VoxelOfCell DEF Culled
    <3> QED BY <3>2 DEF Shown
  <2>5. PICK i \in 1 .. Len(quads[p]) : \E k \in 0 .. quads[p][i].w - 1 :
           c = CellIn(quads[p][i], Sides[p].axis, k)
    BY <2>3, <2>4 DEF Covers
  <2> DEFINE b == quads[p][i]
             a == Sides[p].axis
  <2>6. PICK k \in 0 .. b.w - 1 : c = CellIn(b, a, k)
    BY <2>5
  <2>7. /\ FacesOf(Shape(p, i)) = {Face(CellIn(b, a, l), Fronts[p], b.v) : l \in 0 .. b.w - 1}
        /\ b.v = GetVoxel(c[1], c[2], c[3])
    BY <2>6, PassFaces
  <2>8. g \in FacesOf(Shape(p, i))
    BY <2>1, <2>2, <2>6, <2>7
  <2> QED BY <2>8, SixesListed DEF GreedyFaces
<1> QED BY <1>1, <1>2

LEMMA NaivePointsShown == NaivePoints = {c \in Box : Shown(c)}
  BY DEF NaivePoints, Shown, Hidden

LEMMA NaiveFacesShown == NaiveFaces = ShownFaces
<1> DEFINE F(c, s) == FacesOf(PointVerts(c, s))
           v(c) == GetVoxel(c[1], c[2], c[3])
           P == {c \in Box : Shown(c)}
<1>1. NaiveFaces = UNION {F(c, s) : c \in P, s \in Strips}
  BY NaivePointsShown DEF NaiveFaces
<1>2. ASSUME NEW c \in P
      PROVE  UNION {F(c, s) : s \in Strips} = {Face(c, d, v(c)) : d \in Directions}
  BY BoxInt, StripFaces
<1>3. ShownFaces = {Face(c, d, v(c)) : c \in P, d \in Directions}
  BY DEF ShownFaces
<1> HIDE DEF F, v, P
<1>4. ASSUME NEW g \in NaiveFaces PROVE g \in ShownFaces
  <2>1. PICK c \in P, s \in Strips : g \in F(c, s)
    BY <1>1
  <2>2. g \in {Face(c, d, v(c)) : d \in Directions}
    BY <1>2, <2>1
  <2> QED BY <1>3, <2>2
<1>5. ASSUME NEW g \in ShownFaces PROVE g \in NaiveFaces
  <2>1. PICK c \in P, d \in Directions : g = Face(c, d, v(c))
    BY <1>3
  <2>2. g \in UNION {F(c, s) : s \in Strips}
    BY <1>2, <2>1
  <2> QED BY <1>1, <2>2
<1> QED BY <1>4, <1>5

LEMMA ShapeIsRectangle ==
    ASSUME MeshInv, Done, NEW p \in 1 .. 6, NEW i \in 1 .. Len(quads[p])
    PROVE  /\ Rectangle(Shape(p, i))
           /\ FrontOf(Shape(p, i)[1].pos, Shape(p, i)[2].pos, Shape(p, i)[3].pos) = Fronts[p]
           /\ \A k \in 1 .. 6 : Shape(p, i)[k].norm = Sides[p].normal
<1> DEFINE b == quads[p][i]
           s == VertsOf(b, Sides[p])
           a == StartOf(b, Sides[p])
           u == EdgeU(p, b.w)
           t == EdgeT(p, b.w)
<1>1. b \in Quad /\ b.w >= 1
  BY QuadOfPass
<1>2. /\ a \in Int3 /\ Parallelogram(s, a, u, t) /\ u \in Int3 /\ t \in Int3
      /\ \A k \in 1 .. 6 : s[k].norm = Sides[p].normal
      /\ Normal(u, t) = Fronts[p]
  <2> HIDE DEF b
  <2> QED BY <1>1, VertsCorners
<1>3. Shape(p, i) = s
  BY DEF Shape
<1> HIDE DEF s, a, u, t
<1>4. /\ FrontOf(s[1].pos, s[2].pos, s[3].pos) = Normal(u, t)
      /\ FrontOf(s[4].pos, s[5].pos, s[6].pos) = Normal(u, t)
      /\ {s[4].pos, s[5].pos} = {s[2].pos, s[3].pos}
      /\ Plus(s[1].pos, s[6].pos) = Plus(s[2].pos, s[3].pos)
  BY <1>2, CornersFront
<1>5. Fronts[p] \in Directions
  BY FrontsOfSides
<1>6. Rectangle(s)
  BY <1>2, <1>4, <1>5 DEF Rectangle
<1> QED BY <1>2, <1>3, <1>4, <1>6

LEMMA FacesMatch == ASSUME MeshInv PROVE SameFacesAsNaive
<1> SUFFICES ASSUME Done
             PROVE  /\ GreedyFaces = NaiveFaces
                    /\ \A s \in Sixes : Rectangle(s)
                    /\ Len(mVerts) = 6 * Cardinality(Sixes)
                    /\ \A s, t \in Sixes : s # t => FacesOf(s) \cap FacesOf(t) = {}
  BY DEF SameFacesAsNaive
<1>1. GreedyFaces = NaiveFaces
  BY GreedyFacesShown, NaiveFacesShown
<1>2. \A s \in Sixes : Rectangle(s)
  BY SixesListed, ShapeIsRectangle
<1>3. Len(mVerts) = 6 * Cardinality(Sixes)
  BY MeshListed, SixesMeshed
<1>4. ASSUME NEW s \in Sixes, NEW t \in Sixes, s # t, NEW f, f \in FacesOf(s), f \in FacesOf(t)
      PROVE  FALSE
  <2>0. /\ \E p \in 1 .. 6 : \E i \in 1 .. Len(quads[p]) : s = Shape(p, i)
        /\ \E r \in 1 .. 6 : \E j \in 1 .. Len(quads[r]) : t = Shape(r, j)
    BY SixesListed
  <2>8. PICK p \in 1 .. 6 : \E i \in 1 .. Len(quads[p]) : s = Shape(p, i)
    BY <2>0
  <2>1. PICK i \in 1 .. Len(quads[p]) : s = Shape(p, i)
    BY <2>8
  <2>9. PICK r \in 1 .. 6 : \E j \in 1 .. Len(quads[r]) : t = Shape(r, j)
    BY <2>0
  <2>2. PICK j \in 1 .. Len(quads[r]) : t = Shape(r, j)
    BY <2>9
  <2>3. p = r /\ i = j
    BY <1>4, <2>1, <2>2, ShapesApart
  <2> QED BY <1>4, <2>1, <2>2, <2>3
<1> QED BY <1>1, <1>2, <1>3, <1>4

LEMMA SurfaceCovered == ASSUME MeshInv PROVE SurfaceClosed
<1> SUFFICES ASSUME Done, NEW c \in Box, NEW d \in Directions,
                    GetVoxel(c[1], c[2], c[3]) # "Air",
                    Plus(c, d) \in Box => NeighbourOf(c, d) = "Air"
             PROVE  Face(c, d, GetVoxel(c[1], c[2], c[3])) \in GreedyFaces
  BY DEF SurfaceClosed, Face
<1>1. Filled
  BY DEF MeshInv
<1>2. /\ c = <<c[1], c[2], c[3]>>
      /\ c[1] \in 0 .. SizeX - 1 /\ c[2] \in 0 .. SizeY - 1 /\ c[3] \in 0 .. SizeZ - 1
  BY BoxNumbers
<1>3. c[2] < MeshedY /\ GetVoxel(c[1], c[2], c[3]) \in Stored
  <2>1. GetVoxel(c[1], c[2], c[3]) = Entry(mVoxels, c)
    BY VoxelOfCell
  <2>2. c[2] < MeshedY
    BY <1>1, <1>2, <2>1, SizesPositive DEF Filled
  <2> QED BY <1>1, <2>1, <2>2, CellIndex DEF Filled, Entry
<1>4. OnBorder(c[1], c[2], c[3]) \/ ~Hidden(c)
  <2>1. CASE Plus(c, d) \in Box
    BY <2>1 DEF Hidden
  <2>2. CASE Plus(c, d) \notin Box
    <3>1. /\ d[1] \in -1 .. 1 /\ d[2] \in -1 .. 1 /\ d[3] \in -1 .. 1
      BY DEF Directions
    <3>2. ~ (/\ c[1] + d[1] \in 0 .. SizeX - 1 /\ c[2] + d[2] \in 0 .. SizeY - 1
             /\ c[3] + d[3] \in 0 .. SizeZ - 1)
      BY <2>2 DEF Plus, Box
    <3> QED BY <1>2, <3>1, <3>2, SizesPositive DEF OnBorder
  <2> QED BY <2>1, <2>2
<1>5. Shown(c)
  BY <1>3, <1>4 DEF Shown, Stored
<1>6. Face(c, d, GetVoxel(c[1], c[2], c[3])) \in ShownFaces
  BY <1>5 DEF ShownFaces
<1> QED BY <1>6, GreedyFacesShown

LEMMA NormalsLight == ASSUME MeshInv PROVE FacesLit
<1> SUFFICES ASSUME Done, NEW k \in 1 .. Len(mVerts)
             PROVE  LET first == k - ((k - 1) % 6)
                        s == SubSeq(mVerts, first, first + 2)
                    IN  LitFromFront(mVerts[k].norm,
                                     HalfTurn(FrontOf(s[1].pos, s[2].pos, s[3].pos)))
  BY DEF FacesLit
<1>1. PICK f : MadeOf(mVerts, f, Meshed)
  BY MeshListed
<1> DEFINE n == Len(f)
<1>2. /\ Len(mVerts) = 6 * n /\ n \in Nat
      /\ mVerts \in Seq(Vertices)
      /\ \A j \in 1 .. n, r \in 1 .. 6 : mVerts[6 * j - 6 + r] = f[j][r]
      /\ \A j \in 1 .. n : f[j] \in Meshed
  BY <1>1, SixesMeshed DEF MadeOf, Joins, Lists
<1> HIDE DEF n
<1>14. k \in 1 .. 6 * n
  BY <1>2
<1>3. PICK j \in 1 .. n, r \in 1 .. 6 : k = 6 * j - 6 + r
  BY <1>2, <1>14, BlockPlace
<1>13. PICK p \in 1 .. 6 : f[j] \in SixesOf(p)
  BY <1>2 DEF Meshed
<1>4. PICK i \in 1 .. Len(quads[p]) : f[j] = Shape(p, i)
  BY <1>13 DEF SixesOf
<1> DEFINE a == 6 * j - 5
           first == k - ((k - 1) % 6)
<1>5. first = a
  <2> DEFINE m == j - 1
             o == r - 1
  <2>1. m \in Nat /\ 6 \in Nat /\ o \in 0 .. 6 - 1
    BY <1>2
  <2>2. (m * 6 + o) % 6 = o
    <3> HIDE DEF m, o
    <3> QED BY <2>1, DivUnique
  <2>3. m * 6 + o = k - 1 /\ k - o = a
    BY <1>2, <1>3
  <2> HIDE DEF m, o
  <2> QED BY <2>2, <2>3
<1> DEFINE s == SubSeq(mVerts, a, a + 2)
           b == f[j]
<1>6. /\ mVerts[a] = b[1] /\ mVerts[a + 1] = b[2] /\ mVerts[a + 2] = b[3]
  <2>1. a = 6 * j - 6 + 1 /\ a + 1 = 6 * j - 6 + 2 /\ a + 2 = 6 * j - 6 + 3
    BY <1>2
  <2> QED BY <1>2, <2>1
<1>7. a \in Int /\ a + 2 \in Int /\ a + 2 - a + 1 = 3 /\ a >= 1 /\ a + 2 <= 6 * n
  BY <1>2
<1>8. \A x \in a .. a + 2 : mVerts[x] \in Vertices
  BY <1>2, <1>7
<1>9. s[1] = mVerts[a] /\ s[2] = mVerts[a + 1] /\ s[3] = mVerts[a + 2]
  <2> DEFINE e == a + 2
  <2>1. a \in Int /\ e \in Int /\ \A x \in a .. e : mVerts[x] \in Vertices
    BY <1>7, <1>8
  <2>2. e - a + 1 = 3 /\ a + 1 - 1 = a /\ a + 2 - 1 = a + 1 /\ a + 3 - 1 = a + 2
    BY <1>7
  <2> HIDE DEF a, e
  <2>3. \A x \in 1 .. e - a + 1 : SubSeq(mVerts, a, e)[x] = mVerts[a + x - 1]
    BY <2>1, SubSeqProperties
  <2>4. s = SubSeq(mVerts, a, e)
    BY DEF e
  <2> HIDE DEF s
  <2>5. \A x \in 1 .. 3 : s[x] = mVerts[a + x - 1]
    BY <2>2, <2>3, <2>4
  <2>6. s[1] = mVerts[a + 1 - 1] /\ s[2] = mVerts[a + 2 - 1] /\ s[3] = mVerts[a + 3 - 1]
    BY <2>5
  <2> QED BY <2>2, <2>6
<1>15. /\ FrontOf(b[1].pos, b[2].pos, b[3].pos) = Fronts[p]
       /\ \A o \in 1 .. 6 : b[o].norm = Sides[p].normal
  <2> DEFINE w == Shape(p, i)
  <2>1. /\ FrontOf(w[1].pos, w[2].pos, w[3].pos) = Fronts[p]
        /\ \A o \in 1 .. 6 : w[o].norm = Sides[p].normal
    BY ShapeIsRectangle
  <2>2. b = w
    BY <1>4
  <2> HIDE DEF w, b
  <2> QED BY <2>1, <2>2
<1>10. FrontOf(s[1].pos, s[2].pos, s[3].pos) = Fronts[p]
  <2> HIDE DEF s, b, a
  <2> QED BY <1>6, <1>9, <1>15
<1>11. mVerts[k].norm = Sides[p].normal
  <2>1. mVerts[k] = b[r]
    BY <1>2, <1>3
  <2> HIDE DEF b
  <2> QED BY <1>15, <2>1
<1>12. LitFromFront(Sides[p].normal, HalfTurn(Fronts[p]))
  BY FrontsOfSides
<1> QED BY <1>5, <1>10, <1>11, <1>12

-----------------------------------------------------------------------------
(* GenerateVBOGreedy draws what GenerateVBONaive and the geometry shader   *)
(* draw: the same faces, of the same types and from the same side, each by *)
(* one rectangle, whatever the terrain and after any edit.                 *)
THEOREM SameMesh == Spec => []SameFacesAsNaive
<1> QED BY MeshInvariance, FacesMatch, PTL

(* The mesh has no hole: every side of a solid voxel that touches air or   *)
(* the outside of the chunk has its face.                                  *)
THEOREM NoHoles == Spec => []SurfaceClosed
<1> QED BY MeshInvariance, SurfaceCovered, PTL

(* No face the player sees from its front is black: the unturned normal    *)
(* stored with each vertex lights the turned face.                         *)
THEOREM NeverBlack == Spec => []FacesLit
<1> QED BY MeshInvariance, NormalsLight, PTL
=============================================================================
