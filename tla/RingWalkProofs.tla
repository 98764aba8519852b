--------------------------- MODULE RingWalkProofs ---------------------------
(***************************************************************************)
(* Proofs about RingWalk for every radius, from the lemmas about its       *)
(* operators in ChunkWalkProofs: the invariant gives the walk, the slots   *)
(* written and the count in closed form.                                   *)
(***************************************************************************)
EXTENDS RingWalk, ChunkWalkProofs, SequenceTheorems

(* The inductive invariant, in three parts: the recursion, the position of *)
(* the walk, and what the slots hold.                                      *)
CountInv ==
    /\ phase \in {"call", "return", "walk", "done"}
    /\ radius \in 0 .. VisibleRadius
    /\ mChunkCount \in Nat
    /\ phase = "return" => mChunkCount = Total(radius)
    /\ phase \in {"walk", "done"} => mChunkCount = Total(VisibleRadius)

WalkInv ==
    /\ walk.i \in 0 .. VisibleRadius + 1
    /\ walk.j \in 0 .. ChunksInRadius(walk.i) - 1
    /\ walk = WalkAt(walk.i, walk.j, Before(walk.i) + walk.j)
    /\ walk.i > VisibleRadius => walk.j = 0
    /\ phase = "done" => walk.i > VisibleRadius

(* The first two rings, and the chunk at the end of the second.            *)
InnerRings == \A n \in 1 .. Len(mChunks) :
                  /\ n = 1 <=> Norm(mChunks[n]) = 0
                  /\ n \in 2 .. 5 <=> Norm(mChunks[n]) = 1
                  /\ n = 5 <=> mChunks[n] = Missed

SlotInv ==
    /\ mChunks \in Seq(Int \X Int)
    /\ Len(mChunks) = walk.chunkIndex
    /\ \A n \in 1 .. Len(mChunks) : Seen(mChunks[n], walk.i, walk.j)
    /\ \A p \in Int \X Int :
           Seen(p, walk.i, walk.j) => \E n \in 1 .. Len(mChunks) : mChunks[n] = p
    /\ SlotsDistinct
    /\ InnerRings

IInv == CountInv /\ WalkInv /\ SlotInv

LEMMA InitInv == Init => IInv
<1> SUFFICES ASSUME Init PROVE IInv
  OBVIOUS
<1> USE RadiusAssumption
<1>1. walk = WalkAt(0, 0, 0) /\ mChunks = <<>>
  BY RingStartAt DEF Init
<1>2. CountInv BY DEF Init, CountInv
<1>3. WalkInv
  BY <1>1 DEF Init, WalkInv, WalkAt, Before, ChunksInRadius
<1>4. \A p \in Int \X Int : ~ Seen(p, 0, 0)
  BY DEF Seen, Norm, AbsOf
<1>5. SlotInv
  BY <1>1, <1>4 DEF SlotInv, SlotsDistinct, InnerRings, WalkAt
<1> QED BY <1>2, <1>3, <1>5 DEF IInv

LEMMA PlaceInv == IInv /\ Place => IInv'
<1> SUFFICES ASSUME IInv, Place PROVE IInv'
  OBVIOUS
<1> USE RadiusAssumption
<1> DEFINE i == walk.i
           k == walk.j
           p == RingPoint(i, k)
           slot == Before(i) + k
<1>1. /\ i \in 0 .. VisibleRadius /\ i \in Nat
      /\ k \in 0 .. ChunksInRadius(i) - 1
      /\ walk = WalkAt(i, k, slot)
  BY DEF IInv, WalkInv, Place
<1>2. /\ p \in Int \X Int /\ <<walk.x, walk.z>> = p
      /\ slot \in Nat /\ walk.chunkIndex = slot
  <2>1. /\ walk.x = RingX(i, k) /\ walk.z = RingZ(i, k)
        /\ walk.chunkIndex = slot
    BY <1>1 DEF WalkAt
  <2>2. p \in Int \X Int BY <1>1, RingPointTyped
  <2>3. <<walk.x, walk.z>> = p BY <2>1 DEF RingPoint
  <2>4. Before(i) \in Nat BY <1>1, TotalStep
  <2>5. k \in Nat BY <1>1
  <2> QED BY <2>1, <2>2, <2>3, <2>4, <2>5
<1>4. /\ walk'.i = IF k + 1 < ChunksInRadius(i) THEN i ELSE i + 1
      /\ walk'.j = IF k + 1 < ChunksInRadius(i) THEN k + 1 ELSE 0
      /\ walk'.chunkIndex = slot + 1
      /\ walk' = WalkAt(walk'.i, walk'.j, Before(walk'.i) + walk'.j)
  <2>1. i \in Nat /\ k \in 0 .. ChunksInRadius(i) - 1
    BY <1>1
  <2>2. walk' = NextSlot(WalkAt(i, k, Before(i) + k))
    BY <1>1 DEF Place
  <2> HIDE DEF i, k
  <2> QED BY <2>1, <2>2, NextSlotFollows
<1>5. \A q \in Int \X Int : Seen(q, walk'.i, walk'.j) <=> Seen(q, i, k) \/ q = p
  BY <1>1, <1>4, SeenNext
<1>6. /\ mChunks \in Seq(Int \X Int)
      /\ Len(mChunks) = slot /\ Len(mChunks') = slot + 1
      /\ mChunks' = Append(mChunks, p)
      /\ mChunks' \in Seq(Int \X Int)
      /\ \A n \in 1 .. slot : mChunks'[n] = mChunks[n]
      /\ mChunks'[slot + 1] = p
  <2>1. mChunks \in Seq(Int \X Int) /\ Len(mChunks) = walk.chunkIndex
    BY DEF IInv, SlotInv
  <2>2. mChunks' = Append(mChunks, <<walk.x, walk.z>>)
    BY DEF Place
  <2>3. Len(mChunks) = slot /\ mChunks' = Append(mChunks, p)
    BY <1>2, <2>1, <2>2
  <2> HIDE DEF p, slot
  <2> QED BY <1>2, <2>1, <2>3, AppendProperties
<1> HIDE DEF i, k, p, slot
<1>7. CountInv'
  BY DEF IInv, CountInv, Place
<1>8. WalkInv'
  <2>1. /\ ChunksInRadius(i) \in Nat
        /\ ChunksInRadius(i + 1) \in Nat /\ ChunksInRadius(i + 1) > 0
    BY <1>1 DEF ChunksInRadius
  <2>2. walk'.i \in 0 .. VisibleRadius + 1
    BY <1>1, <1>4
  <2>3. walk'.j \in 0 .. ChunksInRadius(walk'.i) - 1
    BY <1>1, <1>4, <2>1
  <2>4. walk'.i > VisibleRadius => walk'.j = 0
    BY <1>1, <1>4
  <2>5. phase' # "done"
    BY DEF Place
  <2> QED BY <1>4, <2>2, <2>3, <2>4, <2>5 DEF WalkInv
<1>9. SlotInv'
  <2>1. \A n \in 1 .. slot + 1 : n \in 1 .. slot \/ n = slot + 1
    BY <1>2
  <2>2. 1 .. slot \subseteq 1 .. slot + 1 /\ slot + 1 \in 1 .. slot + 1
    BY <1>2
  <2>3. \A n \in 1 .. slot : mChunks[n] \in Int \X Int /\ Seen(mChunks[n], i, k)
    BY <1>6 DEF IInv, SlotInv, i, k
  <2>4. \A n \in 1 .. Len(mChunks') : Seen(mChunks'[n], walk'.i, walk'.j)
    BY <1>2, <1>5, <1>6, <2>1, <2>3
  <2>5. \A q \in Int \X Int : Seen(q, walk'.i, walk'.j)
           => \E n \in 1 .. Len(mChunks') : mChunks'[n] = q
    <3> SUFFICES ASSUME NEW q \in Int \X Int, Seen(q, i, k) \/ q = p
                 PROVE  \E n \in 1 .. Len(mChunks') : mChunks'[n] = q
      BY <1>5
    <3>1. CASE q = p BY <3>1, <1>6, <2>2
    <3>2. CASE Seen(q, i, k)
      <4>1. PICK n \in 1 .. Len(mChunks) : mChunks[n] = q
        BY <3>2 DEF IInv, SlotInv, i, k
      <4> QED BY <4>1, <1>6, <2>2
    <3> QED BY <3>1, <3>2
  <2>6. \A n \in 1 .. slot : mChunks[n] # p
    BY <1>1, <2>3, SeenIsNew DEF p
  <2>7. SlotsDistinct'
    BY <1>6, <2>1, <2>6 DEF IInv, SlotInv, SlotsDistinct
  <2>8. InnerRings'
    <3>1. Norm(p) = i
      BY <1>1, RingPointNorm DEF p
    <3>2. (slot + 1 = 1 <=> i = 0) /\ (slot + 1 \in 2 .. 5 <=> i = 1)
      <4>1. CASE i = 0
        BY <1>1, <4>1 DEF slot, Before, ChunksInRadius
      <4>2. CASE i = 1
        BY <1>1, <4>2 DEF slot, Before, Total, ChunksInRadius
      <4>3. CASE i > 1
        <5>1. i * (i - 1) >= 2 BY <1>1, <4>3
        <5>2. Before(i) = 2 * (i * (i - 1)) + 1
          BY <1>1, <4>3 DEF Before, Total
        <5> HIDE DEF i, k
        <5>3. Before(i) \in Nat /\ Before(i) >= 5
          BY <1>1, <5>1, <5>2
        <5> QED BY <1>1, <4>3, <5>3 DEF slot
      <4> QED BY <1>1, <4>1, <4>2, <4>3
    <3>3. \A n \in 1 .. slot : /\ n = 1 <=> Norm(mChunks'[n]) = 0
                               /\ n \in 2 .. 5 <=> Norm(mChunks'[n]) = 1
                               /\ n = 5 <=> mChunks'[n] = Missed
      BY <1>6 DEF IInv, SlotInv, InnerRings
    <3>4. slot + 1 = 5 <=> p = Missed
      <4>1. p = Missed => i = 1
        <5>1. Missed = RingPoint(1, 3) BY DEF Missed, RingPoint, RingX, RingZ
        <5>2. 3 \in 0 .. ChunksInRadius(1) - 1 BY DEF ChunksInRadius
        <5>3. Norm(Missed) = 1 BY <5>1, <5>2, RingPointNorm
        <5> QED BY <3>1, <5>3
      <4>2. slot + 1 = 5 => i = 1 BY <3>2
      <4>3. CASE i = 1
        <5>1. slot = 1 + k /\ k \in 0 .. 3
          BY <1>1, <4>3 DEF slot, Before, Total, ChunksInRadius
        <5>2. p = <<RingX(1, k), RingZ(1, k)>>
          BY <4>3 DEF p, RingPoint
        <5>3. p = Missed <=> k = 3
          BY <5>1, <5>2 DEF RingX, RingZ, Missed
        <5> QED BY <5>1, <5>3
      <4> QED BY <4>1, <4>2, <4>3
    <3> QED BY <1>6, <2>1, <3>1, <3>2, <3>3, <3>4 DEF InnerRings
  <2>9. Len(mChunks') = walk'.chunkIndex
    BY <1>4, <1>6
  <2> QED BY Zenon, <1>6, <2>4, <2>5, <2>7, <2>8, <2>9 DEF SlotInv
<1> QED BY <1>7, <1>8, <1>9 DEF IInv

(* What CalculateChunkCount adds for a radius is what its ring uses.       *)
LEMMA RingAndInnerTotal ==
    ASSUME NEW i \in Nat
    PROVE  Total(i + 1) = RingAndInner(i + 1, Total(i))
  BY DEF Total, RingAndInner

LEMMA StepInv == IInv /\ [Next]_vars => IInv'
<1> SUFFICES ASSUME IInv, [Next]_vars PROVE IInv'
  OBVIOUS
<1> USE RadiusAssumption
<1>1. CASE UNCHANGED vars
  BY <1>1 DEF vars, IInv, CountInv, WalkInv, SlotInv, SlotsDistinct, InnerRings
<1>2. CASE Place
  BY <1>2, PlaceInv
<1>3. CASE CountCall \/ CountBase \/ CountReturn \/ StartWalk \/ EndWalk
  <2>1. UNCHANGED <<walk, mChunks>>
    BY <1>3 DEF CountCall, CountBase, CountReturn, StartWalk, EndWalk
  <2>2. CountInv'
    <3>1. CASE CountCall BY <3>1 DEF CountCall, IInv, CountInv
    <3>2. CASE CountBase BY <3>2 DEF CountBase, IInv, CountInv, Total
    <3>3. CASE CountReturn
      <4>1. radius \in Nat /\ radius + 1 \in 0 .. VisibleRadius
        BY <3>3 DEF CountReturn, IInv, CountInv
      <4>2. mChunkCount' = Total(radius + 1) /\ Total(radius + 1) \in Nat
        BY <3>3, <4>1, TotalStep, RingAndInnerTotal DEF CountReturn, IInv, CountInv
      <4> QED BY <3>3, <4>1, <4>2 DEF CountReturn, IInv, CountInv
    <3>4. CASE StartWalk BY <3>4 DEF StartWalk, IInv, CountInv
    <3>5. CASE EndWalk BY <3>5 DEF EndWalk, IInv, CountInv
    <3> QED BY <1>3, <3>1, <3>2, <3>3, <3>4, <3>5
  <2>3. WalkInv'
    BY <1>3, <2>1 DEF IInv, WalkInv, CountCall, CountBase, CountReturn, StartWalk,
                      EndWalk
  <2>4. SlotInv'
    BY <2>1 DEF IInv, SlotInv, SlotsDistinct, InnerRings
  <2> QED BY <2>2, <2>3, <2>4 DEF IInv
<1> QED BY <1>1, <1>2, <1>3 DEF Next

LEMMA Invariant == Spec => []IInv
  BY InitInv, StepInv, PTL DEF Spec

-----------------------------------------------------------------------------
(* The loop variables keep their types: no offset or side is ever          *)
(* undefined, whatever the radius.                                         *)
THEOREM TypeCorrect == Spec => []TypeOK
<1>1. IInv => TypeOK
  <2> SUFFICES ASSUME IInv PROVE TypeOK
    OBVIOUS
  <2>1. walk.i \in Nat /\ walk.j \in Nat /\ Before(walk.i) + walk.j \in Nat
    <3>1. walk.i \in Nat /\ walk.j \in Nat
      BY RadiusAssumption DEF IInv, WalkInv
    <3>2. Before(walk.i) \in Nat BY <3>1, TotalStep
    <3> QED BY <3>1, <3>2
  <2>2. /\ RingX(walk.i, walk.j) \in Int /\ RingZ(walk.i, walk.j) \in Int
        /\ RingSide(walk.i, walk.j) \in GeneratorState
    BY <2>1, RingPointTyped DEF IInv, WalkInv
  <2>3. walk \in [i : Nat, j : Nat, x : Int, z : Int,
                  state : GeneratorState, chunkIndex : Nat]
    BY <2>1, <2>2 DEF IInv, WalkInv, WalkAt
  <2> QED BY <2>3 DEF IInv, CountInv, SlotInv, TypeOK
<1> QED BY <1>1, Invariant, PTL

(* The recursion, called and returned from step by step, comes to what     *)
(* CalculateChunkCount is as a function.                                   *)
THEOREM CountIsCalculated ==
    Spec => [](phase \in {"walk", "done"} =>
                 mChunkCount = CalculateChunkCount[VisibleRadius])
<1>1. IInv => (phase \in {"walk", "done"} =>
                 mChunkCount = CalculateChunkCount[VisibleRadius])
  BY RadiusAssumption, ChunkCount DEF IInv, CountInv
<1> QED BY <1>1, Invariant, PTL

(* GenerateChunks never writes outside mChunks or the Renderer's array,    *)
(* whatever the radius.                                                    *)
THEOREM SlotsFitAlways == Spec => []SlotsFit
<1>1. IInv => SlotsFit
  <2> SUFFICES ASSUME IInv, phase = "walk", walk.i <= VisibleRadius
               PROVE  walk.chunkIndex < mChunkCount /\ walk.chunkIndex = Len(mChunks)
    BY DEF SlotsFit
  <2>1. /\ walk.i \in 0 .. VisibleRadius /\ walk.i \in Nat
        /\ walk.j \in 0 .. ChunksInRadius(walk.i) - 1
        /\ walk.chunkIndex = Before(walk.i) + walk.j
    BY RadiusAssumption DEF IInv, WalkInv, WalkAt
  <2>2. Before(walk.i) + ChunksInRadius(walk.i) <= Total(VisibleRadius)
    BY <2>1, RadiusAssumption, TotalMonotonic
  <2>3. Before(walk.i) \in Nat /\ Total(VisibleRadius) \in Nat
    BY <2>1, RadiusAssumption, TotalStep
  <2>4. ChunksInRadius(walk.i) \in Nat BY <2>1 DEF ChunksInRadius
  <2> QED BY <2>1, <2>2, <2>3, <2>4 DEF IInv, CountInv, SlotInv
<1> QED BY <1>1, Invariant, PTL

(* No two slots of a pass ever show the same chunk.                        *)
THEOREM NoChunkTwice == Spec => []SlotsDistinct
<1>1. IInv => SlotsDistinct BY DEF IInv, SlotInv
<1> QED BY <1>1, Invariant, PTL

(* A finished pass leaves no slot empty and covers exactly the chunks      *)
(* within the visible radius.                                              *)
THEOREM AllVisibleShown == Spec => []DiamondFilled
<1>1. IInv => DiamondFilled
  <2> SUFFICES ASSUME IInv, phase = "done" PROVE DiamondFilled
    BY DEF DiamondFilled
  <2>1. /\ walk.i = VisibleRadius + 1 /\ walk.j = 0
        /\ walk.chunkIndex = Before(VisibleRadius + 1)
    BY RadiusAssumption, TotalStep DEF IInv, WalkInv, WalkAt
  <2>2. Len(mChunks) = mChunkCount
    <3>1. Before(VisibleRadius + 1) = Total(VisibleRadius)
      BY RadiusAssumption DEF Before
    <3> QED BY <2>1, <3>1 DEF IInv, CountInv, SlotInv
  <2>3. \A p \in Int \X Int : p \in Placed <=> Seen(p, VisibleRadius + 1, 0)
    BY <2>1 DEF IInv, SlotInv, Placed
  <2>4. ASSUME NEW x \in Int, NEW z \in Int
        PROVE  <<x, z>> \in Placed <=> Norm(<<x, z>>) <= VisibleRadius
    <3>1. Norm(<<x, z>>) \in Nat BY DEF Norm, AbsOf
    <3>2. Seen(<<x, z>>, VisibleRadius + 1, 0) <=> Norm(<<x, z>>) <= VisibleRadius
      BY <3>1, RadiusAssumption DEF Seen
    <3> QED BY <2>3, <3>2
  <2> QED BY <2>2, <2>4, RadiusAssumption DEF DiamondFilled
<1> QED BY <1>1, Invariant, PTL

(* Whatever the radius, Update's picking looks at the player's chunk and   *)
(* three of its neighbours, and at the fourth in no pass.                  *)
THEOREM OneIsMissed == Spec => []MiddlePickedButOne
<1>1. IInv => MiddlePickedButOne
  <2> SUFFICES ASSUME IInv, NEW n \in 1 .. Len(mChunks)
               PROVE  /\ n \in 1 .. 5 <=> Norm(mChunks[n]) <= 1
                      /\ n - 1 \in PickedSlots <=>
                            Norm(mChunks[n]) <= 1 /\ mChunks[n] # Missed
    BY DEF MiddlePickedButOne
  <2>1. mChunks[n] \in Int \X Int /\ n \in Nat BY DEF IInv, SlotInv
  <2>2. Norm(mChunks[n]) \in Nat BY <2>1 DEF Norm, AbsOf
  <2>3. /\ n = 1 <=> Norm(mChunks[n]) = 0
        /\ n \in 2 .. 5 <=> Norm(mChunks[n]) = 1
        /\ n = 5 <=> mChunks[n] = Missed
    BY DEF IInv, SlotInv, InnerRings
  <2> QED BY <2>1, <2>2, <2>3 DEF PickedSlots
<1> QED BY <1>1, Invariant, PTL
=============================================================================
