--------------------------- MODULE ChunkWalkProofs ---------------------------
(***************************************************************************)
(* Lemmas about the operators of ChunkWalk for every radius.  Step k of    *)
(* ring i is at the closed-form point (RingX, RingZ), so a ring visits     *)
(* exactly the points of norm i, each once; the slots used before ring i   *)
(* number 2i(i-1)+1, and CalculateChunkCount returns the same polynomial.  *)
(* The recursion is taken apart by the least-number principle: there is no *)
(* least radius for which its value would be another.                      *)
(***************************************************************************)
EXTENDS ChunkWalk, WellFoundedInduction, TLAPS

RingX(i, k) == IF k < i THEN i - k
               ELSE IF k < 2 * i THEN i - k
               ELSE k - 3 * i

RingZ(i, k) == IF k < i THEN k
               ELSE IF k < 3 * i THEN 2 * i - k
               ELSE k - 4 * i

RingSide(i, k) == IF k < i \/ i = 0 THEN "ZIncXDec"
                  ELSE IF k < 2 * i THEN "ZDecXDec"
                  ELSE IF k < 3 * i THEN "ZDecXInc"
                  ELSE "ZIncXInc"

RingPoint(i, k) == <<RingX(i, k), RingZ(i, k)>>

WalkAt(i, k, slot) == [i |-> i, j |-> k, x |-> RingX(i, k), z |-> RingZ(i, k),
                       state |-> RingSide(i, k), chunkIndex |-> slot]

(* How many slots a pass of radius r uses, and how many precede ring i.    *)
Total(r) == 2 * r * (r + 1) + 1
Before(i) == IF i = 0 THEN 0 ELSE Total(i - 1)

-----------------------------------------------------------------------------
(* A ring has 4i points (one for i = 0), all of norm i, all different, and *)
(* every point of norm i is one of them.                                   *)
LEMMA RingPointTyped ==
    ASSUME NEW i \in Nat, NEW k \in 0 .. ChunksInRadius(i) - 1
    PROVE  /\ RingX(i, k) \in Int /\ RingZ(i, k) \in Int
           /\ RingPoint(i, k) \in Int \X Int
           /\ RingSide(i, k) \in GeneratorState
  BY DEF RingX, RingZ, RingPoint, RingSide, GeneratorState, ChunksInRadius

LEMMA RingPointNorm ==
    ASSUME NEW i \in Nat, NEW k \in 0 .. ChunksInRadius(i) - 1
    PROVE  Norm(RingPoint(i, k)) = i
<1>1. AbsOf(RingX(i, k)) + AbsOf(RingZ(i, k)) = i
  BY DEF RingX, RingZ, AbsOf, ChunksInRadius
<1> QED BY <1>1 DEF RingPoint, Norm

LEMMA RingPointInjective ==
    ASSUME NEW i \in Nat, NEW k \in 0 .. ChunksInRadius(i) - 1,
           NEW l \in 0 .. ChunksInRadius(i) - 1,
           RingPoint(i, k) = RingPoint(i, l)
    PROVE  k = l
<1>1. RingX(i, k) = RingX(i, l) /\ RingZ(i, k) = RingZ(i, l)
  BY DEF RingPoint
<1> QED BY <1>1 DEF RingX, RingZ, ChunksInRadius

LEMMA RingPointOnto ==
    ASSUME NEW i \in Nat, NEW p \in Int \X Int, Norm(p) = i
    PROVE  \E k \in 0 .. ChunksInRadius(i) - 1 : RingPoint(i, k) = p
<1> DEFINE x == p[1]
<1> DEFINE z == p[2]
<1>1. x \in Int /\ z \in Int /\ p = <<x, z>>
  OBVIOUS
<1>2. AbsOf(x) + AbsOf(z) = i
  BY DEF Norm
<1> HIDE DEF x, z
<1>3. ASSUME NEW k \in 0 .. ChunksInRadius(i) - 1, RingX(i, k) = x, RingZ(i, k) = z
      PROVE  \E n \in 0 .. ChunksInRadius(i) - 1 : RingPoint(i, n) = p
  BY <1>1, <1>3 DEF RingPoint
<1>4. CASE i = 0
  <2>1. x = 0 /\ z = 0 BY <1>1, <1>2, <1>4 DEF AbsOf
  <2>2. 0 \in 0 .. ChunksInRadius(i) - 1 BY <1>4 DEF ChunksInRadius
  <2>3. RingX(i, 0) = x /\ RingZ(i, 0) = z BY <1>4, <2>1 DEF RingX, RingZ
  <2> QED BY <1>3, <2>2, <2>3
<1>5. CASE i > 0 /\ x > 0 /\ z >= 0
  <2>1. z \in 0 .. ChunksInRadius(i) - 1 /\ RingX(i, z) = x /\ RingZ(i, z) = z
    BY <1>1, <1>2, <1>5 DEF AbsOf, ChunksInRadius, RingX, RingZ
  <2> QED BY <1>3, <2>1
<1>6. CASE i > 0 /\ x <= 0 /\ z > 0
  <2>1. /\ i - x \in 0 .. ChunksInRadius(i) - 1
        /\ RingX(i, i - x) = x /\ RingZ(i, i - x) = z
    BY <1>1, <1>2, <1>6 DEF AbsOf, ChunksInRadius, RingX, RingZ
  <2> QED BY <1>3, <2>1
<1>7. CASE i > 0 /\ x < 0 /\ z <= 0
  <2>1. /\ 2 * i - z \in 0 .. ChunksInRadius(i) - 1
        /\ RingX(i, 2 * i - z) = x /\ RingZ(i, 2 * i - z) = z
    BY <1>1, <1>2, <1>7 DEF AbsOf, ChunksInRadius, RingX, RingZ
  <2> QED BY <1>3, <2>1
<1>8. CASE i > 0 /\ x >= 0 /\ z < 0
  <2>1. /\ x + 3 * i \in 0 .. ChunksInRadius(i) - 1
        /\ RingX(i, x + 3 * i) = x /\ RingZ(i, x + 3 * i) = z
    BY <1>1, <1>2, <1>8 DEF AbsOf, ChunksInRadius, RingX, RingZ
  <2> QED BY <1>3, <2>1
<1> QED BY <1>1, <1>2, <1>4, <1>5, <1>6, <1>7, <1>8 DEF AbsOf

-----------------------------------------------------------------------------
(* The code's walk follows the closed form.                                *)
LEMMA RingStartAt ==
    ASSUME NEW i \in Nat, NEW slot \in Nat
    PROVE  RingStart(i, slot) = WalkAt(i, 0, slot)
  BY DEF RingStart, WalkAt, RingX, RingZ, RingSide

LEMMA NextSlotAt ==
    ASSUME NEW i \in Nat, NEW k \in 0 .. ChunksInRadius(i) - 1, NEW slot \in Nat
    PROVE  NextSlot(WalkAt(i, k, slot)) =
             IF k + 1 < ChunksInRadius(i) THEN WalkAt(i, k + 1, slot + 1)
                                          ELSE WalkAt(i + 1, 0, slot + 1)
<1> DEFINE x == RingX(i, k) + XStep[RingSide(i, k)]
           z == RingZ(i, k) + ZStep[RingSide(i, k)]
           turned == IF Turns(RingSide(i, k), x, z) THEN NextState[RingSide(i, k)]
                                                    ELSE RingSide(i, k)
<1>1. ShiftChunkCoords(RingX(i, k), RingZ(i, k), RingSide(i, k)) =
        [x |-> x, z |-> z, state |-> turned]
  BY DEF ShiftChunkCoords
<1>2. NextSlot(WalkAt(i, k, slot)) =
        IF k + 1 < ChunksInRadius(i)
        THEN [i |-> i, j |-> k + 1, x |-> x, z |-> z,
              state |-> turned, chunkIndex |-> slot + 1]
        ELSE RingStart(i + 1, slot + 1)
  BY <1>1 DEF NextSlot, WalkAt
<1>3. CASE k + 1 < ChunksInRadius(i)
  <2>1. i > 0 /\ k + 1 < 4 * i
    BY <1>3 DEF ChunksInRadius
  <2>2. /\ x = RingX(i, k + 1) /\ z = RingZ(i, k + 1)
        /\ turned = RingSide(i, k + 1)
    <3>1. CASE k < i
      <4>1. RingSide(i, k) = "ZIncXDec" BY <3>1 DEF RingSide
      <4>2. x = i - k - 1 /\ z = k + 1
        BY <3>1, <4>1 DEF RingX, RingZ, XStep, ZStep, GeneratorState
      <4>3. turned = IF x = 0 THEN "ZDecXDec" ELSE "ZIncXDec"
        BY <4>1 DEF Turns, NextState
      <4> HIDE DEF x, z, turned
      <4> QED BY <2>1, <3>1, <4>2, <4>3 DEF RingX, RingZ, RingSide
    <3>2. CASE k >= i /\ k < 2 * i
      <4>1. RingSide(i, k) = "ZDecXDec" BY <2>1, <3>2 DEF RingSide
      <4>2. x = i - k - 1 /\ z = 2 * i - k - 1
        BY <3>2, <4>1 DEF RingX, RingZ, XStep, ZStep, GeneratorState
      <4>3. turned = IF z = 0 THEN "ZDecXInc" ELSE "ZDecXDec"
        BY <4>1 DEF Turns, NextState
      <4> HIDE DEF x, z, turned
      <4> QED BY <2>1, <3>2, <4>2, <4>3 DEF RingX, RingZ, RingSide
    <3>3. CASE k >= 2 * i /\ k < 3 * i
      <4>1. RingSide(i, k) = "ZDecXInc" BY <2>1, <3>3 DEF RingSide
      <4>2. x = k - 3 * i + 1 /\ z = 2 * i - k - 1
        BY <2>1, <3>3, <4>1 DEF RingX, RingZ, XStep, ZStep, GeneratorState
      <4>3. turned = IF x = 0 THEN "ZIncXInc" ELSE "ZDecXInc"
        BY <4>1 DEF Turns, NextState
      <4> HIDE DEF x, z, turned
      <4> QED BY <2>1, <3>3, <4>2, <4>3 DEF RingX, RingZ, RingSide
    <3>4. CASE k >= 3 * i
      <4>1. RingSide(i, k) = "ZIncXInc" BY <2>1, <3>4 DEF RingSide
      <4>2. x = k - 3 * i + 1 /\ z = k - 4 * i + 1
        BY <2>1, <3>4, <4>1 DEF RingX, RingZ, XStep, ZStep, GeneratorState
      <4>3. turned = IF z = 0 THEN "ZIncXDec" ELSE "ZIncXInc"
        BY <4>1 DEF Turns, NextState
      <4> HIDE DEF x, z, turned
      <4> QED BY <2>1, <3>4, <4>2, <4>3 DEF RingX, RingZ, RingSide
    <3> QED BY <3>1, <3>2, <3>3, <3>4
  <2> QED BY <1>2, <1>3, <2>2 DEF WalkAt
<1>4. CASE ~ (k + 1 < ChunksInRadius(i))
  <2>1. NextSlot(WalkAt(i, k, slot)) = RingStart(i + 1, slot + 1)
    BY <1>2, <1>4
  <2> QED BY <1>4, <2>1, RingStartAt
<1> QED BY <1>3, <1>4

-----------------------------------------------------------------------------
(* The slot arithmetic: rings follow one another without a gap.            *)
LEMMA TotalStep ==
    ASSUME NEW i \in Nat
    PROVE  /\ Total(i) \in Nat /\ Before(i) \in Nat
           /\ Before(i + 1) = Before(i) + ChunksInRadius(i)
  BY DEF Total, Before, ChunksInRadius

(* One step of the walk, with the slot in closed form.                     *)
LEMMA NextSlotFollows ==
    ASSUME NEW i \in Nat, NEW k \in 0 .. ChunksInRadius(i) - 1,
           NEW w, w = NextSlot(WalkAt(i, k, Before(i) + k))
    PROVE  /\ w.i = IF k + 1 < ChunksInRadius(i) THEN i ELSE i + 1
           /\ w.j = IF k + 1 < ChunksInRadius(i) THEN k + 1 ELSE 0
           /\ w.i \in Nat /\ w.j \in 0 .. ChunksInRadius(w.i) - 1
           /\ w.chunkIndex = Before(i) + k + 1
           /\ w = WalkAt(w.i, w.j, Before(w.i) + w.j)
<1>1. /\ Before(i) \in Nat /\ Before(i + 1) = Before(i) + ChunksInRadius(i)
      /\ ChunksInRadius(i) \in Nat /\ k \in Nat
  BY TotalStep DEF ChunksInRadius
<1>2. w = IF k + 1 < ChunksInRadius(i) THEN WalkAt(i, k + 1, Before(i) + k + 1)
                                       ELSE WalkAt(i + 1, 0, Before(i) + k + 1)
  BY <1>1, NextSlotAt
<1>3. CASE k + 1 < ChunksInRadius(i)
  <2>1. w = WalkAt(i, k + 1, Before(i) + k + 1) BY <1>2, <1>3
  <2>2. /\ w.i = i /\ w.j = k + 1 /\ w.chunkIndex = Before(i) + k + 1
    BY <2>1 DEF WalkAt
  <2>3. k + 1 \in 0 .. ChunksInRadius(i) - 1 BY <1>1, <1>3
  <2>4. Before(i) + (k + 1) = Before(i) + k + 1 BY <1>1
  <2> QED BY <1>3, <2>1, <2>2, <2>3, <2>4
<1>4. CASE ~ (k + 1 < ChunksInRadius(i))
  <2>1. w = WalkAt(i + 1, 0, Before(i) + k + 1) BY <1>2, <1>4
  <2>2. /\ w.i = i + 1 /\ w.j = 0 /\ w.chunkIndex = Before(i) + k + 1
    BY <2>1 DEF WalkAt
  <2>3. 0 \in 0 .. ChunksInRadius(i + 1) - 1 BY DEF ChunksInRadius
  <2>4. Before(i + 1) + 0 = Before(i) + k + 1 BY <1>1, <1>4
  <2> QED BY <1>4, <2>1, <2>2, <2>3, <2>4
<1> QED BY <1>3, <1>4

LEMMA TotalMonotonic ==
    ASSUME NEW r \in Nat, NEW i \in 0 .. r
    PROVE  Before(i) + ChunksInRadius(i) <= Total(r)
<1>1. Before(i) + ChunksInRadius(i) = Total(i)
  BY DEF Before, Total, ChunksInRadius
<1>2. i * (i + 1) <= r * (r + 1)
  <2>1. i * i <= r * r OBVIOUS
  <2> QED BY <2>1
<1>3. Total(i) <= Total(r)
  BY <1>2 DEF Total
<1> QED BY <1>1, <1>3

(* The points passed before step k of ring i.                              *)
Seen(p, i, k) == Norm(p) < i \/ \E l \in 0 .. k - 1 : RingPoint(i, l) = p

LEMMA SeenIsNew ==
    ASSUME NEW i \in Nat, NEW k \in 0 .. ChunksInRadius(i) - 1
    PROVE  ~ Seen(RingPoint(i, k), i, k)
<1>1. Norm(RingPoint(i, k)) = i BY RingPointNorm
<1>2. ASSUME NEW l \in 0 .. k - 1, RingPoint(i, l) = RingPoint(i, k)
      PROVE  FALSE
  <2>1. l \in 0 .. ChunksInRadius(i) - 1 BY DEF ChunksInRadius
  <2>2. l = k BY <1>2, <2>1, RingPointInjective
  <2> QED BY <2>2
<1> QED BY <1>1, <1>2 DEF Seen

LEMMA SeenNext ==
    ASSUME NEW i \in Nat, NEW k \in 0 .. ChunksInRadius(i) - 1,
           NEW q \in Int \X Int
    PROVE  (IF k + 1 < ChunksInRadius(i) THEN Seen(q, i, k + 1)
                                         ELSE Seen(q, i + 1, 0))
             <=> Seen(q, i, k) \/ q = RingPoint(i, k)
<1>0. Norm(q) \in Nat
  BY DEF Norm, AbsOf
<1>1. CASE k + 1 < ChunksInRadius(i)
  <2>1. \A l : l \in 0 .. (k + 1) - 1 <=> l \in 0 .. k - 1 \/ l = k
    OBVIOUS
  <2> QED BY <1>1, <2>1 DEF Seen
<1>2. CASE ~ (k + 1 < ChunksInRadius(i))
  <2>1. \A l : l \in 0 .. ChunksInRadius(i) - 1 <=> l \in 0 .. k - 1 \/ l = k
    BY <1>2 DEF ChunksInRadius
  <2>2. Norm(q) = i <=> \E l \in 0 .. ChunksInRadius(i) - 1 : RingPoint(i, l) = q
    BY RingPointNorm, RingPointOnto
  <2>3. Seen(q, i + 1, 0) <=> Norm(q) < i \/ Norm(q) = i
    BY <1>0 DEF Seen
  <2> QED BY <1>2, <2>1, <2>2, <2>3 DEF Seen
<1> QED BY <1>1, <1>2

-----------------------------------------------------------------------------
(* A set of natural numbers has a least element.                           *)
Below == {ss \in Nat \X Nat : ss[1] < ss[2]}

LEMMA BelowWellFounded == IsWellFoundedOn(Below, Nat)
  BY NatLessThanWellFounded DEF OpToRel, Below

LEMMA LeastNatural ==
    ASSUME NEW T, T \subseteq Nat, T # {}
    PROVE  \E n \in T : \A m \in T : ~ (m < n)
<1>1. \E n \in T : \A m \in T : ~ (<<m, n>> \in Below)
  BY BelowWellFounded, WFMin, Zenon
<1> QED BY <1>1 DEF Below

(* CalculateChunkCount is a function that calls itself: there is one, since*)
(* the polynomial meets the equation.                                      *)
LEMMA CountUnfolded ==
    CalculateChunkCount = [radius \in Nat |->
       IF radius = 0 THEN 1 ELSE radius * 4 + CalculateChunkCount[radius - 1]]
<1> DEFINE Meets(f) == f = [radius \in Nat |->
                             IF radius = 0 THEN 1 ELSE radius * 4 + f[radius - 1]]
<1> DEFINE polynomial == [r \in Nat |-> Total(r)]
<1>1. Meets(polynomial)
  <2>1. \A r \in Nat : polynomial[r] = IF r = 0 THEN 1 ELSE r * 4 + polynomial[r - 1]
    BY DEF Total
  <2> QED BY <2>1
<1>2. CalculateChunkCount = CHOOSE f : Meets(f)
  BY DEF CalculateChunkCount
<1> HIDE DEF Meets, polynomial
<1>3. Meets(CalculateChunkCount)
  BY <1>1, <1>2
<1> QED BY <1>3 DEF Meets

(* mChunkCount is the number of slots a pass uses.                         *)
LEMMA ChunkCount ==
    ASSUME NEW r \in Nat
    PROVE  CalculateChunkCount[r] = Total(r)
<1> DEFINE wrong == {n \in Nat : CalculateChunkCount[n] # Total(n)}
<1> SUFFICES ASSUME wrong # {} PROVE FALSE
  OBVIOUS
<1>1. PICK n \in wrong : \A m \in wrong : ~ (m < n)
  <2>1. wrong \subseteq Nat OBVIOUS
  <2> HIDE DEF wrong
  <2> QED BY <2>1, LeastNatural
<1>2. n \in Nat /\ CalculateChunkCount[n] =
        IF n = 0 THEN 1 ELSE n * 4 + CalculateChunkCount[n - 1]
  BY CountUnfolded
<1>3. CASE n = 0
  BY <1>2, <1>3 DEF Total
<1>4. CASE n # 0
  <2>1. n - 1 \in Nat /\ CalculateChunkCount[n - 1] = Total(n - 1)
    BY <1>1, <1>2, <1>4
  <2>2. CalculateChunkCount[n] = n * 4 + Total(n - 1)
    BY <1>2, <1>4, <2>1
  <2>3. n * 4 + Total(n - 1) = Total(n)
    BY <1>2 DEF Total
  <2> QED BY <2>2, <2>3
<1> QED BY <1>3, <1>4
=============================================================================
