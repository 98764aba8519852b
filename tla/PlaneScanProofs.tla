-------------------------- MODULE PlaneScanProofs --------------------------
(***************************************************************************)
(* Proofs about PlaneScan for boxes of any size and any voxels in them.    *)
(* The inductive invariant follows the scan: quads closed on earlier lines *)
(* stand anywhere, those closed on this line end before the open quad, or  *)
(* before the air just seen, and the open quad ends at the loop variable.  *)
(***************************************************************************)
EXTENDS PlaneScan, TLAPS

(* Cell c was passed by the loops.                                         *)
Passed(c) == \/ c[1] < at[1]
             \/ c[1] = at[1] /\ c[2] < at[2]
             \/ c[1] = at[1] /\ c[2] = at[2] /\ c[3] < at[3]

(* Quad b is not empty, and its cells are of its type.                     *)
Shows(b) == /\ b.w >= 1
            /\ \A c \in Cells :
                   InQuad(c, b) => Solid(voxels[c]) /\ voxels[c] = b.v

(* Quad a ends before quad b begins, and they differ if they touch.        *)
Ahead(a, b) == /\ End(a) <= b.start[3]
               /\ End(a) = b.start[3] => a.v # b.v

Apart(a, b) == OneLine(a, b) => Ahead(a, b) \/ Ahead(b, a)

EarlierLine(b) == \/ b.start[1] < at[1]
                  \/ b.start[1] = at[1] /\ b.start[2] < at[2]

ThisLine(b) == b.start[1] = at[1] /\ b.start[2] = at[2]

(* Quad b, closed on this line or before, leaves room for what comes.      *)
Behind(b) == \/ EarlierLine(b)
             \/ /\ ThisLine(b)
                /\ quadProcessing => Ahead(b, q)
                /\ ~quadProcessing => End(b) < at[3]

OpenInv == quadProcessing => /\ at[1] < Outer
                             /\ ThisLine(q) /\ End(q) = at[3] /\ Shows(q)

ClosedInv == \A i \in Closed : Shows(resultQuads[i]) /\ Behind(resultQuads[i])

ApartInv == \A i, j \in Closed : i # j => Apart(resultQuads[i], resultQuads[j])

CoveredInv == \A c \in Cells :
                  Passed(c) /\ Solid(voxels[c]) =>
                      \/ \E i \in Closed : InQuad(c, resultQuads[i])
                      \/ quadProcessing /\ InQuad(c, q)

IInv == TypeOK /\ OpenInv /\ ClosedInv /\ ApartInv /\ CoveredInv

-----------------------------------------------------------------------------
LEMMA InitInv == Init => IInv
<1> SUFFICES ASSUME Init PROVE IInv
  OBVIOUS
<1> USE BoxAssumption DEF Init, Reset
<1>1. TypeOK
  <2>1. voxels \in [Cells -> VoxelType]
    <3> HIDE DEF Cells
    <3> QED OBVIOUS
  <2>2. at \in (0 .. Outer) \X (0 .. Middle - 1) \X (0 .. Inner)
    OBVIOUS
  <2>3. q \in Quad
    BY DEF Quad, VoxelType
  <2>4. resultQuads \in Seq(Quad)
    OBVIOUS
  <2> QED BY <2>1, <2>2, <2>3, <2>4 DEF TypeOK
<1>2. OpenInv /\ ClosedInv /\ ApartInv
  BY DEF OpenInv, ClosedInv, ApartInv, Closed
<1>3. CoveredInv
  BY DEF CoveredInv, Passed, Cells
<1> QED BY <1>1, <1>2, <1>3 DEF IInv

(* What Append does to the quads on record.                                *)
LEMMA Appended ==
    ASSUME NEW s \in Seq(Quad), NEW b \in Quad
    PROVE  /\ Append(s, b) \in Seq(Quad)
           /\ DOMAIN Append(s, b) = DOMAIN s \cup {Len(s) + 1}
           /\ \A i \in DOMAIN s : Append(s, b)[i] = s[i]
           /\ Append(s, b)[Len(s) + 1] = b
  OBVIOUS

LEMMA QuadNumbers ==
    ASSUME NEW b \in Quad
    PROVE  /\ b.start[1] \in Nat /\ b.start[2] \in Nat /\ b.start[3] \in Nat
           /\ b.w \in Nat
<1>1. b.start \in Nat \X Nat \X Nat /\ b.w \in Nat
  BY DEF Quad
<1> QED BY <1>1

LEMMA LoopNumbers ==
    ASSUME TypeOK
    PROVE  /\ at[1] \in Nat /\ at[2] \in Nat /\ at[3] \in Nat
           /\ \A i \in Closed : resultQuads[i] \in Quad
  BY BoxAssumption DEF TypeOK, Closed

(* The cell under the loop variables is in the box while the line lasts.   *)
LEMMA AtInBox == ASSUME TypeOK, InLine PROVE at \in Cells /\ voxels[at] \in VoxelType
<1>1. /\ at = <<at[1], at[2], at[3]>>
      /\ at[1] \in 0 .. Outer /\ at[2] \in 0 .. Middle - 1 /\ at[3] \in 0 .. Inner
  BY DEF TypeOK
<1>2. at[1] \in 0 .. Outer - 1 /\ at[3] \in 0 .. Inner - 1
  BY <1>1, BoxAssumption DEF InLine
<1>3. at \in Cells
  BY <1>1, <1>2 DEF Cells
<1> QED BY <1>3 DEF TypeOK

LEMMA SingleShows == ASSUME TypeOK, InLine, Solid(voxels[at])
                     PROVE  Single(at) \in Quad /\ Shows(Single(at))
<1>1. at \in Cells /\ voxels[at] \in VoxelType
  BY AtInBox
<1>2. Single(at) \in Quad
  BY <1>1, BoxAssumption DEF Single, Quad, Cells
<1>3. ASSUME NEW c \in Cells, InQuad(c, Single(at)) PROVE c = at
  BY <1>1, <1>3, BoxAssumption DEF Single, InQuad, Cells
<1>4. Single(at).w >= 1 /\ Single(at).v = voxels[at]
  BY DEF Single
<1> QED BY <1>2, <1>3, <1>4 DEF Shows

(* One more cell is passed by a step along the line, none by its end.      *)
LEMMA PassedInLine ==
    ASSUME TypeOK, InLine, NextInLine, NEW c \in Cells, Passed(c)'
    PROVE  Passed(c) \/ c = at
<1>1. /\ at = <<at[1], at[2], at[3]>> /\ c = <<c[1], c[2], c[3]>>
      /\ at[1] \in Nat /\ at[2] \in Nat /\ at[3] \in Nat
      /\ c[1] \in Int /\ c[2] \in Int /\ c[3] \in Int
  BY BoxAssumption DEF TypeOK, Cells
<1>2. at'[1] = at[1] /\ at'[2] = at[2] /\ at'[3] = at[3] + 1
  BY DEF NextInLine
<1>3. ~Passed(c) => c[1] = at[1] /\ c[2] = at[2] /\ c[3] = at[3]
  BY <1>1, <1>2 DEF Passed
<1> QED BY <1>1, <1>3

LEMMA PassedNextLine ==
    ASSUME TypeOK, EndLine, NEW c \in Cells, Passed(c)'
    PROVE  Passed(c)
<1>1. /\ at[1] \in Nat /\ at[2] \in 0 .. Middle - 1
      /\ c[1] \in Int /\ c[2] \in 0 .. Middle - 1 /\ c[3] \in 0 .. Inner - 1
  BY BoxAssumption DEF TypeOK, Cells
<1>2. at[3] = Inner
  BY DEF EndLine
<1>3. CASE at[2] + 1 < Middle
  <2>1. at'[1] = at[1] /\ at'[2] = at[2] + 1 /\ at'[3] = 0
    BY <1>3 DEF EndLine, NextLine
  <2> QED BY <1>1, <1>2, <2>1, BoxAssumption DEF Passed
<1>4. CASE ~(at[2] + 1 < Middle)
  <2>1. at'[1] = at[1] + 1 /\ at'[2] = 0 /\ at'[3] = 0
    BY <1>4 DEF EndLine, NextLine
  <2> QED BY <1>1, <1>2, <1>4, <2>1, BoxAssumption DEF Passed
<1> QED BY <1>3, <1>4

-----------------------------------------------------------------------------
(* Steps that close no quad.                                               *)
LEMMA BeginKeeps == ASSUME IInv, Begin, UNCHANGED voxels, TypeOK' PROVE IInv'
<1> USE DEF IInv
<1>1. /\ InLine /\ ~quadProcessing /\ quadProcessing' /\ q' = Single(at)
      /\ Solid(voxels[at]) /\ NextInLine /\ resultQuads' = resultQuads
      /\ voxels' = voxels
  BY DEF Begin
<1>2. Single(at) \in Quad /\ Shows(Single(at)) /\ at \in Cells
  BY <1>1, SingleShows, AtInBox
<1>3. at'[1] = at[1] /\ at'[2] = at[2] /\ at'[3] = at[3] + 1
  BY <1>1 DEF NextInLine
<1>4. q'.start = at /\ q'.w = 1
  BY <1>1 DEF Single
<1>5. /\ at[1] \in Nat /\ at[2] \in Nat /\ at[3] \in Nat
      /\ \A i \in Closed : resultQuads[i] \in Quad
  BY LoopNumbers
<1>6. OpenInv'
  <2>1. Shows(q)'
    BY <1>1, <1>2 DEF Shows, InQuad
  <2> QED BY <1>1, <1>3, <1>4, <1>5, <2>1 DEF OpenInv, ThisLine, End, InLine
<1>7. ClosedInv'
  <2> SUFFICES ASSUME NEW i \in Closed
               PROVE  Shows(resultQuads[i])' /\ Behind(resultQuads[i])'
    BY <1>1 DEF ClosedInv, Closed
  <2>1. Shows(resultQuads[i])'
    BY <1>1 DEF ClosedInv, Shows, InQuad
  <2>2. Behind(resultQuads[i])
    BY DEF ClosedInv
  <2>3. Behind(resultQuads[i])'
    BY <1>1, <1>3, <1>4, <1>5, <2>2
       DEF Behind, EarlierLine, ThisLine, Ahead, End, Quad
  <2> QED BY <2>1, <2>3
<1>8. ApartInv'
  BY <1>1 DEF ApartInv, Apart, OneLine, Ahead, End, Closed
<1>9. CoveredInv'
  <2> SUFFICES ASSUME NEW c \in Cells, Passed(c)', Solid(voxels[c])
               PROVE  \/ \E i \in Closed : InQuad(c, resultQuads[i])
                      \/ InQuad(c, q')
    BY <1>1 DEF CoveredInv, Closed, InQuad
  <2>1. CASE Passed(c)
    BY <1>1, <2>1 DEF CoveredInv
  <2>2. CASE c = at
    BY <1>4, <1>5, <2>2 DEF InQuad
  <2> QED BY <1>1, <2>1, <2>2, PassedInLine
<1> QED BY <1>6, <1>7, <1>8, <1>9

LEMMA ExtendKeeps == ASSUME IInv, Extend, UNCHANGED voxels, TypeOK' PROVE IInv'
<1> USE DEF IInv
<1>1. /\ InLine /\ quadProcessing /\ quadProcessing' /\ voxels[at] = q.v
      /\ Solid(voxels[at]) /\ NextInLine /\ resultQuads' = resultQuads
      /\ voxels' = voxels
  BY DEF Extend, SameType
<1>2. at \in Cells
  BY <1>1, AtInBox
<1>3. at'[1] = at[1] /\ at'[2] = at[2] /\ at'[3] = at[3] + 1
  BY <1>1 DEF NextInLine
<1>4. q \in Quad /\ q'.start = q.start /\ q'.w = q.w + 1 /\ q'.v = q.v
  BY DEF Extend, TypeOK, Quad
<1>5. /\ at[1] \in Nat /\ at[2] \in Nat /\ at[3] \in Nat
      /\ q.start[1] \in Nat /\ q.start[2] \in Nat /\ q.start[3] \in Nat
      /\ q.w \in Nat
      /\ \A i \in Closed : resultQuads[i] \in Quad
  BY <1>4, QuadNumbers, LoopNumbers
<1>6. at[1] < Outer /\ ThisLine(q) /\ End(q) = at[3] /\ Shows(q)
  BY <1>1 DEF OpenInv
<1>7. OpenInv'
  <2>1. ASSUME NEW c \in Cells, InQuad(c, q') PROVE InQuad(c, q) \/ c = at
    <3>1. /\ at = <<at[1], at[2], at[3]>> /\ c = <<c[1], c[2], c[3]>>
          /\ c[3] \in Int
      BY DEF TypeOK, Cells
    <3>2. c[1] = at[1] /\ c[2] = at[2] /\ c[3] <= at[3]
      BY <1>4, <1>5, <1>6, <2>1, <3>1 DEF InQuad, ThisLine, End
    <3>3. CASE c[3] = at[3]
      BY <3>1, <3>2, <3>3
    <3>4. CASE c[3] < at[3]
      BY <1>4, <1>5, <1>6, <2>1, <3>1, <3>4 DEF InQuad, End
    <3> QED BY <1>5, <3>1, <3>2, <3>3, <3>4
  <2>2. Shows(q)'
    <3>1. q'.w >= 1 BY <1>4, <1>5
    <3>2. ASSUME NEW c \in Cells, InQuad(c, q')
          PROVE  Solid(voxels[c]) /\ voxels[c] = q'.v
      BY <1>1, <1>4, <1>6, <2>1, <3>2 DEF Shows
    <3> QED BY <1>1, <3>1, <3>2 DEF Shows, InQuad
  <2> QED BY <1>1, <1>3, <1>4, <1>5, <1>6, <2>2 DEF OpenInv, ThisLine, End
<1>8. ClosedInv'
  <2> SUFFICES ASSUME NEW i \in Closed
               PROVE  Shows(resultQuads[i])' /\ Behind(resultQuads[i])'
    BY <1>1 DEF ClosedInv, Closed
  <2>1. Shows(resultQuads[i])'
    BY <1>1 DEF ClosedInv, Shows, InQuad
  <2>2. Behind(resultQuads[i])
    BY DEF ClosedInv
  <2>3. Behind(resultQuads[i])'
    BY <1>1, <1>3, <1>4, <1>5, <2>2
       DEF Behind, EarlierLine, ThisLine, Ahead, End, Quad
  <2> QED BY <2>1, <2>3
<1>9. ApartInv'
  BY <1>1 DEF ApartInv, Apart, OneLine, Ahead, End, Closed
<1>10. CoveredInv'
  <2> SUFFICES ASSUME NEW c \in Cells, Passed(c)', Solid(voxels[c])
               PROVE  \/ \E i \in Closed : InQuad(c, resultQuads[i])
                      \/ InQuad(c, q')
    BY <1>1 DEF CoveredInv, Closed, InQuad
  <2>1. CASE Passed(c)
    <3>1. CASE InQuad(c, q)
      <4>1. c[3] \in Int BY DEF Cells
      <4> QED BY <1>4, <1>5, <3>1, <4>1 DEF InQuad
    <3> QED BY <1>1, <2>1, <3>1 DEF CoveredInv
  <2>2. CASE c = at
    BY <1>4, <1>5, <1>6, <2>2 DEF InQuad, ThisLine, End
  <2> QED BY <1>1, <2>1, <2>2, PassedInLine
<1> QED BY <1>7, <1>8, <1>9, <1>10

LEMMA SkipAirKeeps == ASSUME IInv, SkipAir, UNCHANGED voxels, TypeOK' PROVE IInv'
<1> USE DEF IInv
<1>1. /\ InLine /\ ~quadProcessing /\ ~quadProcessing'
      /\ ~Solid(voxels[at]) /\ NextInLine /\ resultQuads' = resultQuads
      /\ voxels' = voxels
  BY DEF SkipAir
<1>2. at'[1] = at[1] /\ at'[2] = at[2] /\ at'[3] = at[3] + 1
  BY <1>1 DEF NextInLine
<1>3. /\ at[1] \in Nat /\ at[2] \in Nat /\ at[3] \in Nat
      /\ \A i \in Closed : resultQuads[i] \in Quad
  BY LoopNumbers
<1>4. OpenInv' /\ ApartInv'
  BY <1>1 DEF OpenInv, ApartInv, Apart, OneLine, Ahead, End, Closed
<1>5. ClosedInv'
  <2> SUFFICES ASSUME NEW i \in Closed
               PROVE  Shows(resultQuads[i])' /\ Behind(resultQuads[i])'
    BY <1>1 DEF ClosedInv, Closed
  <2>1. Shows(resultQuads[i])'
    BY <1>1 DEF ClosedInv, Shows, InQuad
  <2>2. Behind(resultQuads[i])
    BY DEF ClosedInv
  <2>3. Behind(resultQuads[i])'
    BY <1>1, <1>2, <1>3, <2>2 DEF Behind, EarlierLine, ThisLine, End, Quad
  <2> QED BY <2>1, <2>3
<1>6. CoveredInv'
  <2> SUFFICES ASSUME NEW c \in Cells, Passed(c)', Solid(voxels[c])
               PROVE  \E i \in Closed : InQuad(c, resultQuads[i])
    BY <1>1 DEF CoveredInv, Closed, InQuad
  <2>1. Passed(c)
    BY <1>1, PassedInLine
  <2> QED BY <1>1, <2>1 DEF CoveredInv
<1> QED BY <1>4, <1>5, <1>6

-----------------------------------------------------------------------------
(* Steps that close the open quad.  The quad is behind whatever comes, and *)
(* apart from all others.                                                  *)
LEMMA PushKeepsApart ==
    ASSUME IInv, quadProcessing, Push(q)
    PROVE  ApartInv'
<1> USE DEF IInv
<1>1. q \in Quad /\ resultQuads \in Seq(Quad)
  BY DEF TypeOK
<1>2. ASSUME NEW i \in Closed PROVE Apart(resultQuads[i], q) /\ Apart(q, resultQuads[i])
  <2>1. Behind(resultQuads[i]) /\ ThisLine(q)
    BY DEF ClosedInv, OpenInv
  <2>2. resultQuads[i] \in Quad
    BY LoopNumbers
  <2>3. EarlierLine(resultQuads[i]) => ~OneLine(resultQuads[i], q) /\ ~OneLine(q, resultQuads[i])
    BY <1>1, <2>1, <2>2, QuadNumbers, LoopNumbers DEF EarlierLine, ThisLine, OneLine
  <2> QED BY <2>1, <2>3 DEF Behind, Apart
<1>3. SUFFICES ASSUME NEW i \in Closed', NEW j \in Closed', i # j
               PROVE  Apart(resultQuads'[i], resultQuads'[j])
  BY DEF ApartInv, Apart, OneLine, Ahead, End
<1>4. /\ Closed' = Closed \cup {Len(resultQuads) + 1}
      /\ \A k \in Closed : resultQuads'[k] = resultQuads[k]
      /\ resultQuads'[Len(resultQuads) + 1] = q
  BY <1>1, Appended DEF Push, Closed
<1>5. CASE i \in Closed /\ j \in Closed
  BY <1>3, <1>4, <1>5 DEF ApartInv
<1>6. CASE i \in Closed /\ j \notin Closed
  <2>1. resultQuads'[i] = resultQuads[i] /\ resultQuads'[j] = q
    BY <1>3, <1>4, <1>6
  <2> QED BY <1>2, <1>6, <2>1
<1>7. CASE i \notin Closed /\ j \in Closed
  <2>1. resultQuads'[j] = resultQuads[j] /\ resultQuads'[i] = q
    BY <1>3, <1>4, <1>7
  <2> QED BY <1>2, <1>7, <2>1
<1> QED BY <1>3, <1>4, <1>5, <1>6, <1>7

(* A closed quad keeps what it shows, and the new one is the open one.     *)
LEMMA PushKeepsClosed ==
    ASSUME IInv, quadProcessing, Push(q), UNCHANGED voxels,
           \A b \in Quad : Shows(b) /\ Behind(b) => Behind(b)',
           \A b : b = q => Behind(b)'
    PROVE  ClosedInv'
<1> USE DEF IInv
<1>1. q \in Quad /\ resultQuads \in Seq(Quad) /\ Shows(q)
  BY DEF TypeOK, OpenInv
<1>2. /\ Closed' = Closed \cup {Len(resultQuads) + 1}
      /\ \A k \in Closed : resultQuads'[k] = resultQuads[k]
      /\ resultQuads'[Len(resultQuads) + 1] = q
  BY <1>1, Appended DEF Push, Closed
<1>3. ASSUME NEW b, Shows(b) PROVE Shows(b)'
  BY <1>3 DEF Shows, InQuad
<1> SUFFICES ASSUME NEW i \in Closed'
             PROVE  Shows(resultQuads[i])' /\ Behind(resultQuads[i])'
  BY DEF ClosedInv
<1>4. CASE i \in Closed
  <2>1. resultQuads'[i] = resultQuads[i] /\ resultQuads[i] \in Quad
    BY <1>2, <1>4, LoopNumbers
  <2>2. Shows(resultQuads[i]) /\ Behind(resultQuads[i])
    BY <1>4 DEF ClosedInv
  <2> DEFINE b == resultQuads[i]
  <2> QED BY <1>3, <1>4, <2>1, <2>2 DEF Shows, Behind, EarlierLine, ThisLine, Ahead, End, InQuad
<1>5. CASE i \notin Closed
  <2>1. resultQuads'[i] = q
    BY <1>2, <1>5
  <2> QED BY <1>1, <1>3, <2>1 DEF Shows, Behind, EarlierLine, ThisLine, Ahead, End, InQuad
<1> QED BY <1>4, <1>5

(* A pushed quad covers what the open quad covered.                        *)
LEMMA PushCovers ==
    ASSUME IInv, quadProcessing, Push(q),
           NEW c \in Cells, Passed(c), Solid(voxels[c])
    PROVE  \E i \in Closed' : InQuad(c, resultQuads'[i])
<1>1. q \in Quad /\ resultQuads \in Seq(Quad)
  BY DEF IInv, TypeOK
<1>2. /\ Closed' = Closed \cup {Len(resultQuads) + 1}
      /\ \A k \in Closed : resultQuads'[k] = resultQuads[k]
      /\ resultQuads'[Len(resultQuads) + 1] = q
  BY <1>1, Appended DEF Push, Closed
<1>3. \/ \E i \in Closed : InQuad(c, resultQuads[i])
      \/ InQuad(c, q)
  BY DEF IInv, CoveredInv
<1> QED BY <1>2, <1>3

LEMMA SplitKeeps == ASSUME IInv, Split, UNCHANGED voxels, TypeOK' PROVE IInv'
<1> USE DEF IInv
<1>1. /\ InLine /\ quadProcessing /\ quadProcessing' /\ voxels[at] # q.v
      /\ Solid(voxels[at]) /\ Push(q) /\ NextInLine /\ q' = Single(at)
      /\ voxels' = voxels
  BY DEF Split, SameType
<1>2. Single(at) \in Quad /\ Shows(Single(at)) /\ at \in Cells
  BY <1>1, SingleShows, AtInBox
<1>3. at'[1] = at[1] /\ at'[2] = at[2] /\ at'[3] = at[3] + 1
  BY <1>1 DEF NextInLine
<1>4. q'.start = at /\ q'.w = 1 /\ q'.v = voxels[at]
  BY <1>1 DEF Single
<1>5. /\ at[1] \in Nat /\ at[2] \in Nat /\ at[3] \in Nat
      /\ q \in Quad /\ q.start[3] \in Nat /\ q.w \in Nat
  BY QuadNumbers, LoopNumbers DEF TypeOK
<1>6. at[1] < Outer /\ ThisLine(q) /\ End(q) = at[3] /\ Shows(q)
  BY <1>1 DEF OpenInv
<1>7. OpenInv'
  <2>1. Shows(q)'
    BY <1>1, <1>2 DEF Shows, InQuad
  <2> QED BY <1>1, <1>3, <1>4, <1>5, <1>6, <2>1 DEF OpenInv, ThisLine, End
<1>8. ASSUME NEW b \in Quad, Behind(b) PROVE Behind(b)'
  <2>1. b.start[3] \in Nat /\ b.w \in Nat
    BY QuadNumbers
  <2>2. q.start[3] < at[3]
    BY <1>5, <1>6 DEF End, Shows
  <2> QED BY <1>1, <1>3, <1>4, <1>5, <1>8, <2>1, <2>2
          DEF Behind, EarlierLine, ThisLine, Ahead, End
<1>9. ASSUME NEW b, b = q PROVE Behind(b)'
  BY <1>1, <1>3, <1>4, <1>5, <1>6, <1>9 DEF Behind, ThisLine, Ahead, End
<1>10. ClosedInv'
  BY <1>1, <1>8, <1>9, PushKeepsClosed
<1>11. ApartInv'
  BY <1>1, PushKeepsApart
<1>12. CoveredInv'
  <2> SUFFICES ASSUME NEW c \in Cells, Passed(c)', Solid(voxels[c])
               PROVE  \/ \E i \in Closed' : InQuad(c, resultQuads'[i])
                      \/ InQuad(c, q')
    BY <1>1 DEF CoveredInv, InQuad
  <2>1. CASE Passed(c)
    BY <1>1, <2>1, PushCovers
  <2>2. CASE c = at
    BY <1>4, <1>5, <2>2 DEF InQuad
  <2> QED BY <1>1, <2>1, <2>2, PassedInLine
<1> QED BY <1>7, <1>10, <1>11, <1>12

LEMMA CloseAtAirKeeps == ASSUME IInv, CloseAtAir, UNCHANGED voxels, TypeOK' PROVE IInv'
<1> USE DEF IInv
<1>1. /\ InLine /\ quadProcessing /\ ~quadProcessing'
      /\ ~Solid(voxels[at]) /\ Push(q) /\ NextInLine /\ voxels' = voxels
  BY DEF CloseAtAir
<1>2. at'[1] = at[1] /\ at'[2] = at[2] /\ at'[3] = at[3] + 1
  BY <1>1 DEF NextInLine
<1>3. /\ at[1] \in Nat /\ at[2] \in Nat /\ at[3] \in Nat
      /\ q \in Quad /\ q.start[3] \in Nat /\ q.w \in Nat
  BY QuadNumbers, LoopNumbers DEF TypeOK
<1>4. ThisLine(q) /\ End(q) = at[3] /\ Shows(q)
  BY <1>1 DEF OpenInv
<1>5. OpenInv'
  BY <1>1 DEF OpenInv
<1>6. ASSUME NEW b \in Quad, Behind(b) PROVE Behind(b)'
  <2>1. b.start[3] \in Nat /\ b.w \in Nat
    BY QuadNumbers
  <2> QED BY <1>1, <1>2, <1>3, <1>4, <1>6, <2>1
          DEF Behind, EarlierLine, ThisLine, Ahead, End
<1>7. ASSUME NEW b, b = q PROVE Behind(b)'
  BY <1>1, <1>2, <1>3, <1>4, <1>7 DEF Behind, ThisLine, Ahead, End
<1>8. ClosedInv'
  BY <1>1, <1>6, <1>7, PushKeepsClosed
<1>9. ApartInv'
  BY <1>1, PushKeepsApart
<1>10. CoveredInv'
  <2> SUFFICES ASSUME NEW c \in Cells, Passed(c)', Solid(voxels[c])
               PROVE  \E i \in Closed' : InQuad(c, resultQuads'[i])
    BY <1>1 DEF CoveredInv, InQuad
  <2> QED BY <1>1, PassedInLine, PushCovers
<1> QED BY <1>5, <1>8, <1>9, <1>10

LEMMA EndLineKeeps == ASSUME IInv, EndLine, UNCHANGED voxels, TypeOK' PROVE IInv'
<1> USE DEF IInv
<1>1. /\ at[3] = Inner /\ ~quadProcessing' /\ voxels' = voxels
      /\ quadProcessing => Push(q)
      /\ ~quadProcessing => resultQuads' = resultQuads
  BY DEF EndLine, CloseAtEnd
<1>2. \/ at'[1] = at[1] /\ at'[2] = at[2] + 1 /\ at'[3] = 0
      \/ at'[1] = at[1] + 1 /\ at'[2] = 0 /\ at'[3] = 0
  BY DEF EndLine, NextLine
<1>3. /\ at[1] \in Nat /\ at[2] \in Nat /\ at[3] \in Nat
      /\ \A i \in Closed : resultQuads[i] \in Quad
      /\ q \in Quad
  BY LoopNumbers DEF TypeOK
<1>4. OpenInv'
  BY <1>1 DEF OpenInv
<1>5. ASSUME NEW b \in Quad, Behind(b) \/ ThisLine(b) PROVE EarlierLine(b)'
  <2>1. b.start[1] \in Nat /\ b.start[2] \in Nat
    BY QuadNumbers
  <2> QED BY <1>2, <1>3, <1>5, <2>1 DEF Behind, EarlierLine, ThisLine
<1>6. CASE quadProcessing
  <2>1. ThisLine(q)
    BY <1>6 DEF OpenInv
  <2>2. ClosedInv'
    <3>1. \A b \in Quad : Shows(b) /\ Behind(b) => Behind(b)'
      BY <1>5 DEF Behind
    <3>2. \A b : b = q => Behind(b)'
      BY <1>3, <1>5, <2>1 DEF Behind
    <3> QED BY <1>1, <1>6, <3>1, <3>2, PushKeepsClosed
  <2>3. ApartInv'
    BY <1>1, <1>6, PushKeepsApart
  <2>4. CoveredInv'
    <3> SUFFICES ASSUME NEW c \in Cells, Passed(c)', Solid(voxels[c])
                 PROVE  \E i \in Closed' : InQuad(c, resultQuads'[i])
      BY <1>1 DEF CoveredInv, InQuad
    <3> QED BY <1>1, <1>6, PassedNextLine, PushCovers
  <2> QED BY <1>4, <2>2, <2>3, <2>4
<1>7. CASE ~quadProcessing
  <2>1. resultQuads' = resultQuads
    BY <1>1, <1>7
  <2>2. ClosedInv'
    <3> SUFFICES ASSUME NEW i \in Closed
                 PROVE  Shows(resultQuads[i])' /\ Behind(resultQuads[i])'
      BY <2>1 DEF ClosedInv, Closed
    <3>1. Shows(resultQuads[i])'
      BY <1>1, <2>1 DEF ClosedInv, Shows, InQuad
    <3>2. Behind(resultQuads[i]) /\ resultQuads[i] \in Quad
      BY <1>3 DEF ClosedInv
    <3>3. Behind(resultQuads[i])'
      BY <1>5, <2>1, <3>2 DEF Behind, EarlierLine
    <3> QED BY <3>1, <3>3
  <2>3. ApartInv'
    BY <2>1 DEF ApartInv, Apart, OneLine, Ahead, End, Closed
  <2>4. CoveredInv'
    <3> SUFFICES ASSUME NEW c \in Cells, Passed(c)', Solid(voxels[c])
                 PROVE  \E i \in Closed : InQuad(c, resultQuads[i])
      BY <1>1, <2>1 DEF CoveredInv, Closed, InQuad
    <3> QED BY <1>7, PassedNextLine DEF CoveredInv
  <2> QED BY <1>4, <2>2, <2>3, <2>4
<1> QED BY <1>6, <1>7

-----------------------------------------------------------------------------
LEMMA Widened ==
    ASSUME NEW S, NEW V, NEW b \in [start : S, w : Nat, v : V]
    PROVE  [b EXCEPT !.w = @ + 1] \in [start : S, w : Nat, v : V]
  OBVIOUS

LEMMA TypeKept == ASSUME IInv, [Next]_vars PROVE TypeOK'
<1> USE DEF IInv
<1>1. /\ at = <<at[1], at[2], at[3]>>
      /\ at[1] \in 0 .. Outer /\ at[2] \in 0 .. Middle - 1 /\ at[3] \in 0 .. Inner
      /\ q \in Quad /\ resultQuads \in Seq(Quad)
  BY DEF TypeOK
<1>2. ASSUME InLine, NextInLine
      PROVE  at' \in (0 .. Outer) \X (0 .. Middle - 1) \X (0 .. Inner)
  <2>1. at[3] + 1 \in 0 .. Inner
    BY <1>1, <1>2, BoxAssumption DEF InLine
  <2> QED BY <1>1, <1>2, <2>1 DEF NextInLine
<1>3. Append(resultQuads, q) \in Seq(Quad)
  BY <1>1, Appended
<1>4. CASE Begin /\ UNCHANGED voxels
  <2>1. Single(at) \in Quad
    BY <1>4, SingleShows DEF Begin
  <2> QED BY <1>2, <1>4, <2>1 DEF Begin, TypeOK
<1>5. CASE Extend /\ UNCHANGED voxels
  <2>1. [q EXCEPT !.w = @ + 1] \in Quad
    BY <1>1, Widened DEF Quad
  <2> QED BY <1>2, <1>5, <2>1 DEF Extend, TypeOK
<1>6. CASE Split /\ UNCHANGED voxels
  <2>1. Single(at) \in Quad
    BY <1>6, SingleShows DEF Split
  <2> QED BY <1>2, <1>3, <1>6, <2>1 DEF Split, Push, TypeOK
<1>7. CASE CloseAtAir /\ UNCHANGED voxels
  BY <1>2, <1>3, <1>7 DEF CloseAtAir, Push, TypeOK
<1>8. CASE SkipAir /\ UNCHANGED voxels
  BY <1>2, <1>8 DEF SkipAir, TypeOK
<1>9. CASE EndLine /\ UNCHANGED voxels
  <2>1. at' \in (0 .. Outer) \X (0 .. Middle - 1) \X (0 .. Inner)
    <3>1. CASE at[2] + 1 < Middle
      <4>1. at' = <<at[1], at[2] + 1, 0>>
        BY <1>9, <3>1 DEF EndLine, NextLine
      <4>2. at[2] + 1 \in 0 .. Middle - 1 /\ 0 \in 0 .. Inner
        BY <1>1, <3>1, BoxAssumption
      <4> QED BY <1>1, <4>1, <4>2
    <3>2. CASE ~(at[2] + 1 < Middle)
      <4>1. at' = <<at[1] + 1, 0, 0>>
        BY <1>9, <3>2 DEF EndLine, NextLine
      <4>2. at[1] + 1 \in 0 .. Outer /\ 0 \in 0 .. Middle - 1 /\ 0 \in 0 .. Inner
        BY <1>1, <1>9, BoxAssumption DEF EndLine
      <4> QED BY <4>1, <4>2
    <3> QED BY <3>1, <3>2
  <2>2. resultQuads' \in Seq(Quad)
    BY <1>1, <1>3, <1>9 DEF EndLine, CloseAtEnd, Push
  <2> QED BY <1>9, <2>1, <2>2 DEF EndLine, TypeOK
<1>10. CASE UNCHANGED vars
  BY <1>10 DEF vars, TypeOK
<1> QED BY <1>4, <1>5, <1>6, <1>7, <1>8, <1>9, <1>10 DEF Next, Scan

LEMMA StepKeeps == ASSUME IInv, [Next]_vars PROVE IInv'
<1>1. TypeOK'
  BY TypeKept
<1>2. CASE UNCHANGED vars
  BY <1>2 DEF vars, IInv, TypeOK, OpenInv, ClosedInv, ApartInv, CoveredInv, Closed,
              Passed, Shows, Behind, EarlierLine, ThisLine, Apart, Ahead, OneLine,
              End, InQuad
<1>3. CASE Next
  BY <1>1, <1>3, BeginKeeps, ExtendKeeps, SplitKeeps, CloseAtAirKeeps, SkipAirKeeps,
     EndLineKeeps DEF Next, Scan
<1> QED BY <1>2, <1>3

-----------------------------------------------------------------------------
(* A quad that closes lies in the box: it begins in it and ends on the     *)
(* line it began on.                                                       *)
Within(b) == b.start \in Cells /\ End(b) <= Inner

WithinInv == \A i \in Closed : Within(resultQuads[i])

LEMMA OpenWithin == ASSUME IInv, quadProcessing PROVE Within(q)
<1>1. /\ q.start = <<q.start[1], q.start[2], q.start[3]>>
      /\ q.start[3] \in Nat /\ q.w \in Nat
  <2>1. q \in Quad
    BY DEF IInv, TypeOK
  <2>2. q.start \in Nat \X Nat \X Nat /\ q.w \in Nat
    BY <2>1 DEF Quad
  <2> QED BY <2>2
<1>2. /\ at[1] \in 0 .. Outer /\ at[2] \in 0 .. Middle - 1 /\ at[3] \in 0 .. Inner
  BY DEF IInv, TypeOK
<1>3. /\ at[1] < Outer /\ q.start[1] = at[1] /\ q.start[2] = at[2]
      /\ q.start[3] + q.w = at[3] /\ q.w >= 1
  BY DEF IInv, OpenInv, ThisLine, End, Shows
<1>4. /\ q.start[1] \in 0 .. Outer - 1 /\ q.start[2] \in 0 .. Middle - 1
      /\ q.start[3] \in 0 .. Inner - 1
  BY <1>1, <1>2, <1>3, BoxAssumption
<1>5. q.start \in Cells
  BY <1>1, <1>4 DEF Cells
<1> QED BY <1>2, <1>3, <1>5, BoxAssumption DEF Within, End

LEMMA WithinKeeps == ASSUME IInv, WithinInv, [Next]_vars PROVE WithinInv'
<1>1. q \in Quad /\ resultQuads \in Seq(Quad)
  BY DEF IInv, TypeOK
<1>2. CASE resultQuads' = resultQuads
  BY <1>2 DEF WithinInv, Closed, Within, End
<1>3. CASE quadProcessing /\ Push(q)
  <2>1. /\ Closed' = Closed \cup {Len(resultQuads) + 1}
        /\ \A k \in Closed : resultQuads'[k] = resultQuads[k]
        /\ resultQuads'[Len(resultQuads) + 1] = q
    BY <1>1, <1>3, Appended DEF Push, Closed
  <2>2. Within(q)
    BY <1>3, OpenWithin
  <2>3. ASSUME NEW i \in Closed' PROVE Within(resultQuads'[i])
    BY <2>1, <2>2, <2>3 DEF WithinInv
  <2> QED BY <2>3 DEF WithinInv, Within, End
<1>4. resultQuads' = resultQuads \/ (quadProcessing /\ Push(q))
  BY DEF Next, Scan, vars, Begin, Extend, Split, CloseAtAir, SkipAir, EndLine, CloseAtEnd
<1> QED BY <1>2, <1>3, <1>4

(* What the quads of a whole pass are.                                     *)
Covering ==
    /\ resultQuads \in Seq(Quad)
    /\ \A i \in Closed : Within(resultQuads[i]) /\ Shows(resultQuads[i])
    /\ \A c \in Cells : Solid(voxels[c]) => \E i \in Closed : InQuad(c, resultQuads[i])
    /\ \A c \in Cells : \A i, j \in Closed :
           InQuad(c, resultQuads[i]) /\ InQuad(c, resultQuads[j]) => i = j

LEMMA FinishedCovers == ASSUME IInv, WithinInv, Finished PROVE Covering
<1>1. TypeOK
  BY DEF IInv
<1>2. ASSUME NEW c \in Cells, Solid(voxels[c])
      PROVE  \E i \in Closed : InQuad(c, resultQuads[i])
  <2>1. Passed(c)
    <3>1. c[1] \in 0 .. Outer - 1
      BY DEF Cells
    <3> QED BY <3>1, BoxAssumption DEF Finished, Passed
  <2>2. ~quadProcessing
    BY BoxAssumption DEF IInv, OpenInv, Finished
  <2> QED BY <1>2, <2>1, <2>2 DEF IInv, CoveredInv
<1>3. ASSUME NEW c \in Cells, NEW i \in Closed, NEW j \in Closed,
             InQuad(c, resultQuads[i]), InQuad(c, resultQuads[j]), i # j
      PROVE  FALSE
  <2>1. Apart(resultQuads[i], resultQuads[j])
    BY <1>3 DEF IInv, ApartInv
  <2>2. resultQuads[i] \in Quad /\ resultQuads[j] \in Quad
    BY <1>1, LoopNumbers
  <2>3. c[3] \in Int
    BY DEF Cells
  <2>4. /\ resultQuads[i].start[3] \in Nat /\ resultQuads[i].w \in Nat
        /\ resultQuads[j].start[3] \in Nat /\ resultQuads[j].w \in Nat
    BY <2>2, QuadNumbers
  <2> QED BY <1>3, <2>1, <2>3, <2>4 DEF InQuad, Apart, OneLine, Ahead, End
<1>4. /\ resultQuads \in Seq(Quad)
      /\ \A i \in Closed : Within(resultQuads[i]) /\ Shows(resultQuads[i])
  BY <1>1 DEF TypeOK, IInv, ClosedInv, WithinInv
<1> QED BY <1>2, <1>3, <1>4 DEF Covering

(* The invariant of the loops holds, whatever the box and the voxels.      *)
THEOREM Invariance == Spec => []IInv
<1> QED BY InitInv, StepKeeps, PTL DEF Spec

(* The variables of ProcessPlaneX, Y and Z keep their types, and the loops *)
(* their bounds, whatever the dimensions of the chunk.                     *)
THEOREM TypeCorrect == Spec => []TypeOK
<1>1. IInv => TypeOK
  BY DEF IInv
<1> QED BY <1>1, Invariance, PTL

(* No quad covers air or a voxel of another type (the quads pushed by      *)
(* ProcessPlaneX, Y and Z), at any time of a pass over any voxels.         *)
THEOREM NothingInvented == Spec => []QuadsShowVoxels
<1>1. IInv => QuadsShowVoxels
  BY DEF IInv, ClosedInv, Shows, QuadsShowVoxels
<1> QED BY <1>1, Invariance, PTL

(* When a pass has ended, each solid voxel is under exactly one quad.      *)
THEOREM EveryVoxelOnce == Spec => []SolidCellsOnce
<1>1. ASSUME IInv, WithinInv PROVE SolidCellsOnce
  BY <1>1, FinishedCovers DEF Covering, SolidCellsOnce
<1>2. Init => WithinInv
  BY DEF Init, Reset, WithinInv, Closed
<1> QED BY <1>1, <1>2, Invariance, WithinKeeps, PTL DEF Spec

(* The pass is greedy: touching quads of a line have different types.      *)
THEOREM Greedy == Spec => []QuadsMaximal
<1>1. ASSUME IInv PROVE QuadsMaximal
  <2> SUFFICES ASSUME NEW i \in Closed, NEW j \in Closed,
                      OneLine(resultQuads[i], resultQuads[j]),
                      End(resultQuads[i]) = resultQuads[j].start[3],
                      resultQuads[i].v = resultQuads[j].v
               PROVE  FALSE
    BY DEF QuadsMaximal
  <2>1. /\ resultQuads[i].start[3] \in Nat /\ resultQuads[i].w \in Nat
        /\ resultQuads[j].start[3] \in Nat /\ resultQuads[j].w \in Nat
    BY <1>1, LoopNumbers, QuadNumbers DEF IInv
  <2>2. resultQuads[i].w >= 1 /\ resultQuads[j].w >= 1
    BY <1>1 DEF IInv, ClosedInv, Shows
  <2>3. i # j
    BY <2>1, <2>2 DEF End
  <2>4. Apart(resultQuads[i], resultQuads[j])
    BY <1>1, <2>3 DEF IInv, ApartInv
  <2> QED BY <2>1, <2>2, <2>4 DEF Apart, Ahead, End
<1> QED BY <1>1, Invariance, PTL
=============================================================================
